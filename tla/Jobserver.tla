----------------------------- MODULE Jobserver -----------------------------
(***************************************************************************)
(* The GNU make jobserver of redo_core/src/jobserver.rs, driven by the     *)
(* command loops of redo_core/src/builder.rs (run_redo, build_one,         *)
(* run_ifchange).                                                          *)
(*                                                                         *)
(* A process of Proc is the toplevel redo command or a job: the .do script *)
(* forked by jobserver::start, together with the redo command the script   *)
(* is running at the moment.  A script runs its redo commands one after    *)
(* the other.  Every redo command starts with MYTOKENS = 1 (the token its  *)
(* script was forked with) and shares the token pipe with all the others.  *)
(*                                                                         *)
(* The targets are abstracted to how many of them a command still has to   *)
(* look at; what happens to one (clean, locked, waiting for a pool slot,   *)
(* dirty) is a nondeterministic choice here.                               *)
(***************************************************************************)
EXTENDS Integers, FiniteSets

CONSTANTS Proc,        \* the toplevel command and the jobs it may fork
          Top,         \* the toplevel command, which created the pipe
          NoProc,      \* "no parent"
          MaxJobs,     \* -j: TOPLEVEL, the number of tokens
          Logged,      \* processes whose log redo-log follows: they may cheat
          Failing,     \* processes that may leave run_ifchange early
          MaxTargets,  \* bound: targets of one command
          MaxCalls     \* bound: redo commands of one script

ASSUME JobserverAssumption ==
    /\ IsFiniteSet(Proc)
    /\ Top \in Proc
    /\ NoProc \notin Proc
    /\ MaxJobs \in Nat \ {0}
    /\ Logged \subseteq Proc
    /\ Failing \subseteq Proc
    /\ MaxTargets \in Nat \ {0}
    /\ MaxCalls \in Nat

VARIABLES
    pipe,      \* bytes in the token pipe
    mytokens,  \* MYTOKENS of each process
    cheats,    \* CHEATS of each process
    pc,        \* where each process is
    mode,      \* the command it runs: "ifchange", "build" or "spawn"
    pass,      \* first or second pass of run_ifchange
    todo,      \* targets the command has not looked at yet
    backlog,   \* length of locked plus length of pool_blocked
    parent,    \* the process whose WAITFDS lists this job
    line,      \* the ancestors whose completion pipe this process keeps open
    calls      \* redo commands the script has run

tokenvars == <<pipe, mytokens, cheats>>
treevars  == <<parent, line>>
loopvars  == <<mode, pass, todo, backlog, calls>>
vars      == <<pipe, mytokens, cheats, pc, mode, pass, todo, backlog,
               parent, line, calls>>

Mode  == {"ifchange", "build", "spawn"}
Redo  == {"next", "ensure", "self", "try", "blocked", "waitall",
          "dep", "depwait", "depensure", "depblocked"}
State == Redo \cup {"absent", "script", "exited", "reaped", "done", "mismatch"}

(* The calls of ensure_token_or_cheat: run_ifchange's for a target and for *)
(* itself, and schedule_build_one's and its build_one's (never a cheat).   *)
Ensuring == {"ensure", "self", "depensure"}

(* The jobs p still waits for: its WAITFDS. *)
Kids(p) == {c \in Proc : parent[c] = p /\ pc[c] \notin {"absent", "reaped"}}

(***************************************************************************)
(* The token primitives.                                                   *)
(***************************************************************************)

(* Mutant of Release: the debt is used but never paid off. *)
ReleaseKeepsDebt(p) ==
    /\ mytokens' = [mytokens EXCEPT ![p] = @ - 1]
    /\ pipe' = IF cheats[p] > 0 THEN pipe ELSE pipe + 1
    /\ UNCHANGED cheats

(* release(1): pay back a cheat, or write the token to the pipe. *)
Release(p) ==
    /\ mytokens' = [mytokens EXCEPT ![p] = @ - 1]
    /\ cheats'   = [cheats EXCEPT ![p] = IF @ > 0 THEN @ - 1 ELSE @]
    /\ pipe'     = IF cheats[p] > 0 THEN pipe ELSE pipe + 1

(* The toplevel command after setup(): one token of its own, the others in *)
(* the pipe.  run_redo forks one redo per target when -j allows several.   *)
Init ==
    /\ pipe = MaxJobs - 1
    /\ mytokens = [p \in Proc |-> IF p = Top THEN 1 ELSE 0]
    /\ cheats = [p \in Proc |-> 0]
    /\ pc = [p \in Proc |-> IF p = Top THEN "next" ELSE "absent"]
    /\ \E m \in IF MaxJobs = 1 THEN {"ifchange", "build"} ELSE {"spawn", "build"} :
         mode = [p \in Proc |-> m]
    /\ pass = [p \in Proc |-> 1]
    /\ \E n \in 1..MaxTargets : todo = [p \in Proc |-> IF p = Top THEN n ELSE 0]
    /\ backlog = [p \in Proc |-> 0]
    /\ parent = [p \in Proc |-> NoProc]
    /\ line = [p \in Proc |-> {}]
    /\ calls = [p \in Proc |-> 0]

Goto(p, l) == pc' = [pc EXCEPT ![p] = l]

(***************************************************************************)
(* ensure_token_or_cheat.                                                  *)
(***************************************************************************)

(* Mutant of ReadToken: poll() said readable, but nothing is read. *)
ReadTokenPeeks(p) ==
    /\ pc[p] \in Ensuring
    /\ mytokens[p] < 1
    /\ pipe > 0
    /\ mytokens' = [mytokens EXCEPT ![p] = @ + 1]
    /\ UNCHANGED <<pipe, cheats, pc, loopvars, treevars>>

(* ensure_token reads a byte from the token pipe. *)
ReadToken(p) ==
    /\ pc[p] \in Ensuring
    /\ mytokens[p] < 1
    /\ pipe > 0
    /\ pipe' = pipe - 1
    /\ mytokens' = [mytokens EXCEPT ![p] = @ + 1]
    /\ UNCHANGED <<cheats, pc, loopvars, treevars>>

(* The back-off expired without a token in the pipe, nothing of ours is    *)
(* running and redo-log holds our log lock: make a token up and remember   *)
(* the debt.  Only run_ifchange itself passes a cheat function that can    *)
(* return 1; build_one, schedule_build_one and run_redo pass || 0.         *)
Cheat(p) ==
    /\ pc[p] \in {"ensure", "self"}
    /\ mode[p] = "ifchange"
    /\ p \in Logged
    /\ mytokens[p] = 0
    /\ pipe = 0
    /\ Kids(p) = {}
    /\ mytokens' = [mytokens EXCEPT ![p] = @ + 1]
    /\ cheats' = [cheats EXCEPT ![p] = @ + 1]
    /\ UNCHANGED <<pipe, pc, loopvars, treevars>>

(* Mutant of EnsureDone: a time-out is taken for a token. *)
EnsureDoneTimesOut(p) ==
    /\ pc[p] \in Ensuring
    /\ Goto(p, IF pc[p] = "self" /\ backlog[p] = 0 THEN "next" ELSE "try")
    /\ backlog' = [backlog EXCEPT ![p] = IF pc[p] = "self" /\ @ > 0 THEN @ - 1 ELSE @]
    /\ UNCHANGED <<tokenvars, mode, pass, todo, calls, treevars>>

(* ensure_token_or_cheat returns: back to the target in hand, or (the call *)
(* for "self" in the second pass) on to the next delayed target, if any.   *)
EnsureDone(p) ==
    /\ pc[p] \in Ensuring
    /\ mytokens[p] >= 1
    /\ IF pc[p] = "self"
       THEN IF backlog[p] = 0
            THEN Goto(p, "next") /\ UNCHANGED backlog
            ELSE Goto(p, "try") /\ backlog' = [backlog EXCEPT ![p] = @ - 1]
       ELSE Goto(p, "try") /\ UNCHANGED backlog
    /\ UNCHANGED <<tokenvars, mode, pass, todo, calls, treevars>>

(* Mutant of Reap: the token of the job is not created again. *)
ReapForgetsToken(p, c) ==
    /\ pc[p] \in Ensuring \cup {"waitall", "depwait"}
    /\ parent[c] = p
    /\ pc[c] = "exited"
    /\ \A d \in Proc : c \in line[d] => pc[d] \in {"exited", "reaped"}
    /\ Goto(c, "reaped")
    /\ mytokens' = [mytokens EXCEPT ![c] = 0]
    /\ UNCHANGED <<pipe, cheats, loopvars, treevars>>

(* wait(): job c of p has reached end of file on its completion pipe: the  *)
(* job and everything it started have exited.  The parent creates the      *)
(* token c was forked with, paying back a cheat first, and shares it if it *)
(* has one already.  (Only force_return_tokens, which nothing calls, ever  *)
(* writes to the cheat pipe, so wait() always finds it empty.)             *)
Reap(p, c) ==
    /\ pc[p] \in Ensuring \cup {"waitall", "depwait"}
    /\ parent[c] = p
    /\ pc[c] = "exited"
    /\ \A d \in Proc : c \in line[d] => pc[d] \in {"exited", "reaped"}
    /\ Goto(c, "reaped")
    /\ IF cheats[p] > 0
       THEN /\ cheats' = [cheats EXCEPT ![p] = @ - 1]
            /\ mytokens' = [mytokens EXCEPT ![c] = 0]
            /\ UNCHANGED pipe
       ELSE /\ pipe' = IF mytokens[p] >= 1 THEN pipe + 1 ELSE pipe
            /\ mytokens' = [mytokens EXCEPT
                              ![c] = 0,
                              ![p] = IF @ >= 1 THEN @ ELSE @ + 1]
            /\ UNCHANGED cheats
    /\ UNCHANGED <<loopvars, treevars>>

(***************************************************************************)
(* start: the token is destroyed here and reborn as the job's MYTOKENS.    *)
(***************************************************************************)
(* Mutant of Fork: the parent keeps the token it gives to the job. *)
ForkKeepsToken(p, c, l) ==
    /\ pc[p] = "try"
    /\ mytokens[p] = 1
    /\ pc[c] = "absent"
    /\ mytokens' = [mytokens EXCEPT ![c] = 1]
    /\ pc' = [pc EXCEPT ![p] = l, ![c] = "script"]
    /\ parent' = [parent EXCEPT ![c] = p]
    /\ line' = [line EXCEPT ![c] = line[p] \cup {p}]
    /\ UNCHANGED <<pipe, cheats, loopvars>>

Fork(p, c, l) ==
    /\ pc[p] = "try"
    /\ mytokens[p] = 1
    /\ pc[c] = "absent"
    /\ mytokens' = [mytokens EXCEPT ![p] = @ - 1, ![c] = 1]
    /\ pc' = [pc EXCEPT ![p] = l, ![c] = "script"]
    /\ parent' = [parent EXCEPT ![c] = p]
    /\ line' = [line EXCEPT ![c] = line[p] \cup {p}]
    /\ UNCHANGED <<pipe, cheats, loopvars>>

(* The target in hand gets its job; build_one waits for it at once. *)
Start(p, c) == Fork(p, c, IF mode[p] = "build" THEN "waitall" ELSE "next")

(* Bound: when Proc is used up, a job runs nothing and is reaped at once. *)
QuickJob(p) ==
    /\ pc[p] = "try"
    /\ \A c \in Proc : pc[c] # "absent"
    /\ Goto(p, IF mode[p] = "build" THEN "waitall" ELSE "next")
    /\ UNCHANGED <<tokenvars, loopvars, treevars>>

(* schedule_build_one first builds a missing dependency of the target in   *)
(* hand with build_one, which waits for every job of the process.          *)
StartDep(p, c) == mode[p] = "ifchange" /\ Fork(p, c, "depwait")

(***************************************************************************)
(* wait_all.                                                               *)
(***************************************************************************)
(* Mutant of WaitAllRelease: it does not ask whether there is a token. *)
WaitAllReleaseAlways(p) ==
    /\ pc[p] \in {"waitall", "depwait"}
    /\ Kids(p) # {}
    /\ Release(p)
    /\ UNCHANGED <<pc, loopvars, treevars>>

WaitAllRelease(p) ==
    /\ pc[p] \in {"waitall", "depwait"}
    /\ Kids(p) # {}
    /\ mytokens[p] >= 1
    /\ Release(p)
    /\ UNCHANGED <<pc, loopvars, treevars>>

(* Mutant of AfterWaitAll: run_ifchange skips the delayed target. *)
AfterWaitAllContinues(p) == IF pc[p] = "depwait" THEN "dep" ELSE "next"

(* Where a command goes on after wait_all: run_ifchange gets itself a      *)
(* token again, build_one returns to its caller.                           *)
AfterWaitAll(p) ==
    IF pc[p] = "depwait" THEN "dep"
    ELSE IF mode[p] = "ifchange" THEN "self" ELSE "next"

WaitAllDone(p) ==
    /\ pc[p] \in {"waitall", "depwait"}
    /\ p # Top
    /\ Kids(p) = {}
    /\ Goto(p, AfterWaitAll(p))
    /\ UNCHANGED <<tokenvars, loopvars, treevars>>

(* The toplevel command returns its own token, counts the bytes in the     *)
(* pipe and fails with "token accounting mismatch" if they are not all     *)
(* there; it writes back what it read.                                     *)
SelfCheck ==
    /\ pc[Top] \in {"waitall", "depwait"}
    /\ Kids(Top) = {}
    /\ IF mytokens[Top] >= 1 THEN Release(Top) ELSE UNCHANGED tokenvars
    /\ Goto(Top, IF pipe' = MaxJobs THEN AfterWaitAll(Top) ELSE "mismatch")
    /\ UNCHANGED <<loopvars, treevars>>

(* schedule_build_one goes on after a dependency was built: with the next  *)
(* one, with the job of the target itself, or (a cache hit) without a job. *)
DepDone(p) ==
    /\ pc[p] = "dep"
    /\ \E l \in {"depensure", "next"} : Goto(p, l)
    /\ UNCHANGED <<tokenvars, loopvars, treevars>>

(* That build_one waits for a pool slot: it calls release_mine without     *)
(* asking whether there is a token.                                        *)
DepPoolWait(p) ==
    /\ pc[p] \in {"try", "dep"}
    /\ mode[p] = "ifchange"
    /\ Release(p)
    /\ Goto(p, "depblocked")
    /\ UNCHANGED <<loopvars, treevars>>

(***************************************************************************)
(* The loops over the targets.                                             *)
(***************************************************************************)

(* The first pass of run_ifchange, or run_redo forking one redo per        *)
(* target, takes the next target and makes sure it has a token.            *)
NextTarget(p) ==
    /\ pc[p] = "next"
    /\ mode[p] \in {"ifchange", "spawn"}
    /\ pass[p] = 1
    /\ todo[p] > 0
    /\ todo' = [todo EXCEPT ![p] = @ - 1]
    /\ Goto(p, "ensure")
    /\ UNCHANGED <<tokenvars, mode, pass, backlog, calls, treevars>>

(* All targets seen, or one failed without --keep-going. *)
EndPass1(p) ==
    /\ \/ pc[p] = "next"
       \/ pc[p] = "try" /\ mode[p] = "ifchange"
    /\ mode[p] \in {"ifchange", "spawn"}
    /\ pass[p] = 1
    /\ todo' = [todo EXCEPT ![p] = 0]
    /\ pass' = [pass EXCEPT ![p] = 2]
    /\ Goto(p, IF mode[p] = "spawn" THEN "waitall" ELSE "next")
    /\ UNCHANGED <<tokenvars, mode, backlog, calls, treevars>>

(* The head of the second pass's loop. *)
Pass2(p) ==
    /\ pc[p] = "next"
    /\ mode[p] = "ifchange"
    /\ pass[p] = 2
    /\ backlog[p] > 0 \/ Kids(p) # {}
    /\ Goto(p, "waitall")
    /\ UNCHANGED <<tokenvars, loopvars, treevars>>

(* The target in hand is clean, is a source, has no rule or is a cache     *)
(* hit: no job is needed and the token is kept.                            *)
Skip(p) ==
    /\ pc[p] = "try"
    /\ mode[p] = "ifchange"
    /\ Goto(p, "next")
    /\ UNCHANGED <<tokenvars, loopvars, treevars>>

(* trylock failed: the target goes to the list locked. *)
PushLocked(p) ==
    /\ pc[p] = "try"
    /\ mode[p] = "ifchange"
    /\ backlog' = [backlog EXCEPT ![p] = @ + 1]
    /\ Goto(p, "next")
    /\ UNCHANGED <<tokenvars, mode, pass, todo, calls, treevars>>

(* schedule_build_one returned DeferredPool: the target goes to the list   *)
(* pool_blocked and the token back to the pipe.                            *)
DeferPool(p) ==
    /\ pc[p] = "try"
    /\ mode[p] = "ifchange"
    /\ backlog' = [backlog EXCEPT ![p] = @ + 1]
    /\ Release(p)
    /\ Goto(p, "next")
    /\ UNCHANGED <<mode, pass, todo, calls, treevars>>

(* Second pass: block on the target's lock without a token. *)
LockWait(p) ==
    /\ pc[p] = "try"
    /\ mode[p] = "ifchange"
    /\ pass[p] = 2
    /\ Release(p)
    /\ Goto(p, "blocked")
    /\ UNCHANGED <<loopvars, treevars>>

(* build_one looks at its next target: nothing to do, a job to run, or a   *)
(* pool slot to wait for (release_mine again without asking for a token).  *)
BuildSkip(p) ==
    /\ pc[p] = "next"
    /\ mode[p] = "build"
    /\ todo[p] > 0
    /\ todo' = [todo EXCEPT ![p] = @ - 1]
    /\ UNCHANGED <<tokenvars, pc, mode, pass, backlog, calls, treevars>>

BuildOne(p) ==
    /\ pc[p] = "next"
    /\ mode[p] = "build"
    /\ todo[p] > 0
    /\ todo' = [todo EXCEPT ![p] = @ - 1]
    /\ Goto(p, "ensure")
    /\ UNCHANGED <<tokenvars, mode, pass, backlog, calls, treevars>>

BuildPoolWait(p) ==
    /\ pc[p] = "next"
    /\ mode[p] = "build"
    /\ todo[p] > 0
    /\ todo' = [todo EXCEPT ![p] = @ - 1]
    /\ Release(p)
    /\ Goto(p, "blocked")
    /\ UNCHANGED <<mode, pass, backlog, calls, treevars>>

(* The lock or the pool slot was obtained. *)
Unblock(p) ==
    /\ pc[p] \in {"blocked", "depblocked"}
    /\ Goto(p, IF pc[p] = "blocked" THEN "ensure" ELSE "depensure")
    /\ UNCHANGED <<tokenvars, loopvars, treevars>>

(***************************************************************************)
(* The end of a command and the life of a script.                          *)
(***************************************************************************)

(* What becomes of the process: the script goes on with whatever token the *)
(* command left it; CHEATS dies with the command.                          *)
EndCommand(p) ==
    /\ Goto(p, IF p = Top THEN "done" ELSE "script")
    /\ cheats' = [cheats EXCEPT ![p] = 0]
    /\ UNCHANGED <<pipe, mytokens, loopvars, line>>

(* The second pass's loop is over, or stopped on a failed target; the loop *)
(* of build_one or of run_redo is over (or stopped on a failed target).    *)
Return(p) ==
    /\ \/ /\ mode[p] = "ifchange" /\ pass[p] = 2 /\ Kids(p) = {}
          /\ \/ pc[p] = "next" /\ backlog[p] = 0
             \/ pc[p] = "self" /\ mytokens[p] >= 1
       \/ mode[p] = "build" /\ pc[p] = "next"
       \/ mode[p] = "spawn" /\ pc[p] = "next" /\ pass[p] = 2
    /\ EndCommand(p)
    /\ UNCHANGED parent

(* An error return of run_ifchange (codes 204, 205, 208 or Err) while jobs *)
(* are still running: nobody waits for them any more.                      *)
EarlyReturn(p) ==
    /\ p \in Failing
    /\ mode[p] = "ifchange"
    /\ pc[p] = "try" \/ (pc[p] = "next" /\ pass[p] = 1 /\ todo[p] > 0)
    /\ EndCommand(p)
    /\ parent' = [c \in Proc |-> IF parent[c] = p THEN NoProc ELSE parent[c]]

(* The script runs a redo command; its static MYTOKENS is 1. *)
RunCommand(c) ==
    /\ pc[c] = "script"
    /\ calls[c] < MaxCalls
    /\ calls' = [calls EXCEPT ![c] = @ + 1]
    /\ mytokens' = [mytokens EXCEPT ![c] = 1]
    /\ \E m \in {"ifchange", "build"} : mode' = [mode EXCEPT ![c] = m]
    /\ \E n \in 1..MaxTargets : todo' = [todo EXCEPT ![c] = n]
    /\ pass' = [pass EXCEPT ![c] = 1]
    /\ backlog' = [backlog EXCEPT ![c] = 0]
    /\ Goto(c, "next")
    /\ UNCHANGED <<pipe, cheats, treevars>>

ExitJob(c) ==
    /\ pc[c] = "script"
    /\ Goto(c, "exited")
    /\ UNCHANGED <<tokenvars, loopvars, treevars>>

Ensure(p)  == ReadToken(p) \/ Cheat(p) \/ EnsureDone(p)
Loop(p)    == NextTarget(p) \/ EndPass1(p) \/ Pass2(p) \/ Skip(p) \/ PushLocked(p)
Wait(p)    == DeferPool(p) \/ LockWait(p) \/ DepPoolWait(p) \/ Unblock(p)
Build(p)   == BuildSkip(p) \/ BuildOne(p) \/ BuildPoolWait(p)
WaitAll(p) == WaitAllRelease(p) \/ WaitAllDone(p) \/ DepDone(p)
Life(p)    == Return(p) \/ EarlyReturn(p) \/ RunCommand(p) \/ ExitJob(p)

Step(p) ==
    \/ Ensure(p) \/ Loop(p) \/ Wait(p) \/ Build(p) \/ WaitAll(p) \/ Life(p)
    \/ QuickJob(p)
    \/ \E c \in Proc : Reap(p, c) \/ Start(p, c) \/ StartDep(p, c)

(* The toplevel command has ended and so has every job. *)
Ended ==
    /\ pc[Top] \in {"done", "mismatch"}
    /\ \A p \in Proc \ {Top} : pc[p] \in {"absent", "exited", "reaped"}

Next == \/ \E p \in Proc : Step(p)
        \/ SelfCheck
        \/ Ended /\ UNCHANGED vars

Spec == Init /\ [][Next]_vars

(* Every process keeps running.  A lock or a pool slot that is asked for   *)
(* again and again is free in the end (the builds that hold it end), so a  *)
(* target that is retried for ever is dealt with in the end.               *)
Fairness ==
    /\ WF_vars(SelfCheck)
    /\ \A p \in Proc : WF_vars(Step(p)) /\ SF_vars(Skip(p))

FairSpec == Spec /\ Fairness

-----------------------------------------------------------------------------
TypeOK ==
    /\ pipe \in Nat
    /\ mytokens \in [Proc -> {-1, 0, 1}]
    /\ cheats \in [Proc -> {0, 1}]
    /\ pc \in [Proc -> State]
    /\ mode \in [Proc -> Mode]
    /\ pass \in [Proc -> {1, 2}]
    /\ todo \in [Proc -> Nat]
    /\ backlog \in [Proc -> Nat]
    /\ parent \in [Proc -> Proc \cup {NoProc}]
    /\ line \in [Proc -> SUBSET Proc]
    /\ calls \in [Proc -> Nat]

Holders == {p \in Proc : mytokens[p] = 1}
Debtors == {p \in Proc : mytokens[p] = -1}

(* No step creates or destroys a token: what is in the pipe and what the   *)
(* processes hold, less what a process owes, is always -j.  It is what     *)
(* jobserver.rs moves around in release, wait, start and wait_all.         *)
TokenConservation ==
    pipe + Cardinality(Holders) = MaxJobs + Cardinality(Debtors)

(* At most -j processes work at a time: run a script, or go on in a redo   *)
(* command with a token.                                                   *)
WorkBound == Cardinality(Holders) <= MaxJobs

(* build_one's unguarded release_mine can take MYTOKENS to -1, but only in *)
(* the toplevel command and only while no job of the build is alive, so    *)
(* nobody can work with the token that was made up.                        *)
DebtOnlyWhenAlone ==
    \A p \in Proc : mytokens[p] < 0 =>
        p = Top /\ \A c \in Proc \ {Top} : pc[c] \in {"absent", "reaped"}

(* wait_all's self-check "token accounting mismatch on exit" never fires. *)
AccountingHolds == pc[Top] # "mismatch"

(* The build ends: nobody waits for ever for a token or for a job. *)
Termination == <>(pc[Top] \in {"done", "mismatch"})

(* Cheating never costs a token: whatever redo-log makes the processes     *)
(* borrow (CHEATS, paid back by release_mine and wait at most once), the   *)
(* tokens that exist are at least those of -j plus the debts.  A token     *)
(* whose job nobody reaps, after an error return, counts as the job's.     *)
Cheaters == {p \in Proc : cheats[p] = 1}
NoTokenLost == pipe + Cardinality(Holders) >= MaxJobs + Cardinality(Cheaters)

(* The jobserver implements the pool of MaxJobs permits. *)
Pool == INSTANCE TokenPool WITH Worker <- Proc, Limit <- MaxJobs, busy <- Holders
ImplementsPool == Pool!Spec
=============================================================================
