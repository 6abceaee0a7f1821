----------------------------- MODULE Scheduler -----------------------------
(***************************************************************************)
(* Who builds which target when: the target locks, the job tokens, the     *)
(* pool slots and the cycle list of one run of redo, for a given graph of  *)
(* .do scripts (redo_core/src/builder.rs with state::Lock and cycles.rs).  *)
(*                                                                         *)
(* A process is a job together with the redo command it is running.  It is *)
(* named by its path from the toplevel command, <<>>: the targets for      *)
(* which its ancestors, and then its parent, forked a job.  fcntl locks    *)
(* belong to a process and vanish when it exits.                           *)
(*                                                                         *)
(* Every target is out of date when the run starts.  The tokens are those  *)
(* of module Jobserver, without the cheating.                              *)
(***************************************************************************)
EXTENDS Integers, Sequences, FiniteSets, SequencesExt

CONSTANTS Target,     \* the generated files
          None,       \* "nobody"
          Graphs      \* Graphs[n]: a source tree and how redo is called

(* What a graph consists of; it is the same throughout a run. *)
Fields == {"roots", "args", "usesRedo", "oobDeps", "pooled", "depth", "flaky", "keepGoing", "maxJobs"}

(* One toplevel redo names no target twice (paths could not tell its two   *)
(* jobs apart); redo-ifchange drops repeated arguments.                    *)
ASSUME SchedulerAssumption ==
    /\ IsFiniteSet(Target) /\ None \notin Target \cup Seq(Target)
    /\ \A n \in DOMAIN Graphs :
         LET g == Graphs[n] IN
         /\ DOMAIN g = Fields
         /\ g.roots \in Seq(Target) /\ IsInjective(g.roots)
         /\ g.args \in [Target -> Seq(Target)]
         /\ \A t \in Target \ g.usesRedo : IsInjective(g.args[t])
         /\ g.usesRedo \cup g.pooled \cup g.flaky \subseteq Target
         /\ \A t \in Target : g.oobDeps[t] \in {{}, Range(g.args[t])}
         /\ g.depth \in Nat \ {0} /\ g.maxJobs \in Nat \ {0}
         /\ g.keepGoing \in BOOLEAN

VARIABLES
    ps,      \* ps[p]: the processes, by path
    pipe,    \* tokens in the jobserver's pipe
    owner,   \* owner[t]: the process that holds t's fcntl lock
    slot,    \* the pool slots in use: <<p, t>> when p holds one for t
    st,      \* st[t]: what the database says of t in this run
    starts,  \* starts[t]: how often t.do was started
    graph    \* the name of the source tree

vars == <<ps, pipe, owner, slot, st, starts>>

Roots     == Graphs[graph].roots      \* the arguments of the toplevel command
Args      == Graphs[graph].args       \* Args[t]: the targets t.do asks for, in order
UsesRedo  == Graphs[graph].usesRedo   \* scripts that ask with redo, not redo-ifchange
OobDeps   == Graphs[graph].oobDeps    \* OobDeps[t]: dependencies with a checksum
Pooled    == Graphs[graph].pooled     \* targets whose .do says "# redo-pool: p Depth"
Depth     == Graphs[graph].depth      \* slots of that pool
Flaky     == Graphs[graph].flaky      \* targets whose script may fail
KeepGoing == Graphs[graph].keepGoing  \* --keep-going
MaxJobs   == Graphs[graph].maxJobs    \* -j

Top == <<>>

Live(p) == p \in DOMAIN ps /\ ps[p].pc # "exited"

Kids(p) == {q \in DOMAIN ps : Len(q) = Len(p) + 1 /\ IsPrefix(p, q)}

(* A job just forked: its script starts the redo command at once. *)
Job(kind, t, cmd, todo, cyc) ==
    [job |-> kind, tgt |-> t, cmd |-> cmd, pc |-> "next", todo |-> todo,
     locked |-> <<>>, blocked |-> <<>>, cur |-> None, my |-> 1, rc |-> 0,
     got |-> 0, cyc |-> cyc]

(* Mutant of DoJob: REDO_CYCLES is not extended. *)
DoJobNoCycle(t, cyc) ==
    Job("do", t, IF t \in UsesRedo THEN "redo" ELSE "ifchange", Args[t], cyc)

(* exec_dofile_in_child adds the target to REDO_CYCLES. *)
DoJob(t, cyc) ==
    Job("do", t, IF t \in UsesRedo THEN "redo" ELSE "ifchange", Args[t],
        cyc \cup {t})

(* redo-unlocked rebuilds the checksummed dependencies, then the target. *)
OobJob(t, list, cyc) == Job("oob", t, "ifchange", SetToSeq(list), cyc)

(* run_redo forks one redo per target if -j and the arguments allow it. *)
TopCommands ==
    IF MaxJobs > 1 THEN {IF Len(Roots) > 1 THEN "spawn" ELSE "redo"}
    ELSE {"redo", "ifchange"}

Init ==
    /\ graph \in DOMAIN Graphs
    /\ \E c \in TopCommands : ps = [p \in {Top} |-> Job("top", None, c, Roots, {})]
    /\ pipe = MaxJobs - 1
    /\ owner = [t \in Target |-> None]
    /\ slot = {}
    /\ st = [t \in Target |-> "dirty"]
    /\ starts = [t \in Target |-> 0]

(***************************************************************************)
(* Helpers: r is the record of p after the step.                           *)
(***************************************************************************)
Put(p, r) == ps' = [ps EXCEPT ![p] = r]

(* jobserver::start: p's token goes to the new job. *)
Fork(p, r, t, job) ==
    ps' = [q \in DOMAIN ps \cup {Append(p, t)} |->
             IF q = Append(p, t) THEN job ELSE IF q = p THEN [r EXCEPT !.my = @ - 1] ELSE ps[q]]

(* release_mine *)
PutReleasing(p, r) == Put(p, [r EXCEPT !.my = @ - 1]) /\ pipe' = pipe + 1

(* The process ends: the kernel drops its locks and pool slots. *)
Exit(p, code) ==
    /\ ps' = [ps EXCEPT ![p].pc = "exited", ![p].rc = code]
    /\ owner' = [t \in Target |-> IF owner[t] = p THEN None ELSE owner[t]]
    /\ slot' = {s \in slot : s[1] # p}
    /\ UNCHANGED <<st, starts>>

(* Mutant of SlotFree: one slot too many. *)
SlotFreeOffByOne(t) ==
    t \in Pooled => Cardinality(slot) <= Depth

(* try_acquire_pool finds a free slot, or t needs none. *)
SlotFree(t) ==
    t \in Pooled => Cardinality(slot) < Depth

TakeSlot(p, t) ==
    slot' = IF t \in Pooled THEN slot \cup {<<p, t>>} ELSE slot

(* A failure seen earlier stops the loop over the targets. *)
Stop(p) == ps[p].rc # 0 /\ ~KeepGoing

(* Mutant of Verdict: the database is not read again under the lock. *)
VerdictStale(t, noOob) == {"dirty"}

(* What isdirty says of t: a failed target is dirty; one whose only dirty  *)
(* dependencies have a checksum must wait for them (MustBuild), and may be *)
(* clean once they are built.  With REDO_NO_OOB, MustBuild counts as       *)
(* dirty.                                                                  *)
DirtyOob(t) == {d \in OobDeps[t] : st[d] = "dirty"}

Verdict(t, noOob) ==
    IF st[t] = "ok" THEN {"clean"}
    ELSE IF \/ st[t] = "failed"
            \/ OobDeps[t] = {}
            \/ \E d \in OobDeps[t] : st[d] = "failed"
         THEN {"dirty"}
         ELSE IF DirtyOob(t) = {} THEN {"clean", "dirty"}
              ELSE IF noOob THEN {"dirty"} ELSE {"oob"}

(* run_ifchange holds t's lock: leave t alone (set_checked), start         *)
(* redo-unlocked, or let schedule_build_one start the job or put it off.   *)
Handle(p, r, t) ==
    \E v \in Verdict(t, r.job = "oob") :
       \/ /\ v = "clean"
          /\ Put(p, r)
          /\ st' = [st EXCEPT ![t] = "ok"]
          /\ UNCHANGED <<pipe, owner, slot, starts>>
       \/ /\ v = "oob"
          /\ Fork(p, r, t, OobJob(t, DirtyOob(t), r.cyc))
          /\ owner' = [owner EXCEPT ![t] = p]
          /\ UNCHANGED <<pipe, slot, st, starts>>
       \/ /\ v = "dirty"
          /\ SlotFree(t)
          /\ Fork(p, r, t, DoJob(t, r.cyc))
          /\ owner' = [owner EXCEPT ![t] = p]
          /\ TakeSlot(p, t)
          /\ starts' = [starts EXCEPT ![t] = @ + 1]
          /\ UNCHANGED <<pipe, st>>
       \/ /\ v = "dirty"
          /\ ~SlotFree(t)
          /\ PutReleasing(p, [r EXCEPT !.blocked = Append(@, t)])
          /\ UNCHANGED <<owner, slot, st, starts>>

(* Lock::check (cycles::check), and Lock::new refusing a second lock. *)
LockError(p, t) == t \in ps[p].cyc \/ owner[t] = p

(***************************************************************************)
(* Tokens and jobs.                                                        *)
(***************************************************************************)

(* p is inside ensure_token_or_cheat. *)
Ensuring(p) ==
    /\ ps[p].my < 1
    /\ \/ ps[p].pc \in {"self", "relock", "bstart", "spawn"}
       \/ ps[p].pc = "next" /\ ps[p].todo # <<>> /\ ps[p].cmd = "ifchange"

ReadToken(p) ==
    /\ Ensuring(p)
    /\ pipe > 0
    /\ pipe' = pipe - 1
    /\ ps' = [ps EXCEPT ![p].my = @ + 1]
    /\ UNCHANGED <<owner, slot, st, starts>>

(* Mutant of WaitAllRelease: it does not ask whether there is a token. *)
WaitAllReleaseAlways(p) ==
    /\ ps[p].pc = "waitall"
    /\ Kids(p) # {}
    /\ PutReleasing(p, ps[p])
    /\ UNCHANGED <<owner, slot, st, starts>>

WaitAllRelease(p) ==
    /\ ps[p].pc = "waitall"
    /\ Kids(p) # {}
    /\ ps[p].my >= 1
    /\ PutReleasing(p, ps[p])
    /\ UNCHANGED <<owner, slot, st, starts>>

(* rc_flag after the jobs C of p ended.  build_one returns the status      *)
(* instead.                                                                *)
Status(C) == IF \E c \in C : ps[c].rc # 0 THEN 1 ELSE 0
FlagIgnored(p, C) == ps[p].rc  \* mutant: the status is dropped
Flag(p, C) ==
    IF ps[p].cmd \in {"ifchange", "spawn"} /\ Status(C) # 0 THEN 1 ELSE ps[p].rc

(* The done callbacks of run_ifchange's jobs: the result is recorded (that  *)
(* of redo-unlocked was recorded by the redo-ifchange below it), the pool   *)
(* slot and the target's lock are given up.                                *)
DoneCallbacks(p, C) ==
    LET done == IF ps[p].cmd = "ifchange" THEN {ps[c].tgt : c \in C} ELSE {}
    IN  /\ st' = [t \in Target |->
                    IF t \notin done \/ ps[Append(p, t)].job = "oob" THEN st[t]
                    ELSE IF ps[Append(p, t)].rc = 0 THEN "ok" ELSE "failed"]
        /\ owner' = [t \in Target |-> IF t \in done THEN None ELSE owner[t]]
        /\ slot' = slot \ ({p} \X done)

(* The jobs of p whose completion pipe is at end of file: the job and all  *)
(* its descendants have exited.                                            *)
Finished(p) == {c \in Kids(p) : \A q \in DOMAIN ps : IsPrefix(c, q) => ~Live(q)}

(* wait() deals with the jobs C that select() reports: p takes over their  *)
(* tokens, keeps one and shares the others.                                *)
Reap(p, C) ==
    /\ ps[p].my < 1
    /\ Ensuring(p) \/ ps[p].pc = "waitall"
    /\ C # {}
    /\ LET n == ps[p].my + Cardinality(C)
           r == [ps[p] EXCEPT !.my = IF n > 1 THEN 1 ELSE n,
                              !.rc = Flag(p, C), !.got = Status(C)]
       IN  /\ pipe' = IF n > 1 THEN pipe + n - 1 ELSE pipe
           /\ ps' = [q \in {q \in DOMAIN ps : \A c \in C : ~IsPrefix(c, q)} |->
                       IF q = p THEN r ELSE ps[q]]
    /\ DoneCallbacks(p, C)
    /\ UNCHANGED starts

(***************************************************************************)
(* run_ifchange.                                                           *)
(***************************************************************************)

(* The first pass: trylock, do not block. *)
FirstPass(p) ==
    /\ ps[p].cmd = "ifchange" /\ ps[p].pc = "next" /\ ps[p].todo # <<>>
    /\ ps[p].my >= 1
    /\ ~Stop(p)
    /\ LET t == Head(ps[p].todo)
           r == [ps[p] EXCEPT !.todo = Tail(@)]
       IN  /\ ~LockError(p, t)
           /\ \/ owner[t] = None /\ Handle(p, r, t)
              \/ /\ owner[t] # None
                 /\ Put(p, [r EXCEPT !.locked = Append(@, t)])
                 /\ UNCHANGED <<pipe, owner, slot, st, starts>>

(* Mutant of LoopHead: it goes on to the locked targets while jobs run. *)
LoopHeadNoWait(p) ==
    /\ ps[p].cmd = "ifchange"
    /\ \/ ps[p].pc = "loop"
       \/ ps[p].pc = "next" /\ (ps[p].todo = <<>> \/ (ps[p].my >= 1 /\ Stop(p)))
    /\ Put(p, [ps[p] EXCEPT
                 !.todo = <<>>,
                 !.pc = IF ps[p].locked # <<>> THEN "self"
                        ELSE IF ps[p].blocked = <<>> /\ Kids(p) = {} THEN "end" ELSE "waitall"])
    /\ UNCHANGED <<pipe, owner, slot, st, starts>>

(* The head of the second pass's loop. *)
LoopHead(p) ==
    /\ ps[p].cmd = "ifchange"
    /\ \/ ps[p].pc = "loop"
       \/ ps[p].pc = "next" /\ (ps[p].todo = <<>> \/ (ps[p].my >= 1 /\ Stop(p)))
    /\ Put(p, [ps[p] EXCEPT
                 !.todo = <<>>,
                 !.pc = IF ps[p].locked \o ps[p].blocked = <<>> /\ Kids(p) = {}
                        THEN "end" ELSE "waitall"])
    /\ UNCHANGED <<pipe, owner, slot, st, starts>>

(* p owns the lock of a target it had to put off: it may have failed in    *)
(* another process meanwhile.                                              *)
Checked(p, r, t) ==
    \/ st[t] # "failed" /\ Handle(p, r, t)
    \/ /\ st[t] = "failed"
       /\ Put(p, [r EXCEPT !.rc = 2])
       /\ UNCHANGED <<pipe, owner, slot, st, starts>>

(* Block on t's lock, without a token. *)
LockWait(p, r, t) ==
    /\ owner[t] # None
    /\ PutReleasing(p, [r EXCEPT !.pc = "lockwait", !.cur = t])
    /\ UNCHANGED <<owner, slot, st, starts>>

(* Mutant of SecondPassLocked: the target stays on the list. *)
SecondPassLockedKeeps(p) ==
    /\ ps[p].pc = "self" /\ ps[p].my >= 1 /\ ~Stop(p)
    /\ ps[p].locked # <<>>
    /\ LET t == Head(ps[p].locked)
           r == [ps[p] EXCEPT !.pc = "loop"]
       IN  (owner[t] = None /\ Checked(p, r, t)) \/ LockWait(p, r, t)

SecondPassLocked(p) ==
    /\ ps[p].pc = "self" /\ ps[p].my >= 1 /\ ~Stop(p)
    /\ ps[p].locked # <<>>
    /\ LET t == Head(ps[p].locked)
           r == [ps[p] EXCEPT !.locked = Tail(@), !.pc = "loop"]
       IN  /\ ~LockError(p, t)
           /\ (owner[t] = None /\ Checked(p, r, t)) \/ LockWait(p, r, t)

SecondPassBlocked(p) ==
    /\ ps[p].pc = "self" /\ ps[p].my >= 1 /\ ~Stop(p)
    /\ ps[p].locked = <<>> /\ ps[p].blocked # <<>>
    /\ LET t == Head(ps[p].blocked)
           r == [ps[p] EXCEPT !.blocked = Tail(@), !.pc = "loop"]
       IN  /\ ~LockError(p, t)
           /\ \/ owner[t] = None /\ Checked(p, r, t)
              \/ /\ owner[t] # None
                 /\ Put(p, [r EXCEPT !.locked = Append(@, t)])
                 /\ UNCHANGED <<pipe, owner, slot, st, starts>>

(* Nothing is left, or a target failed: the loop ends. *)
SecondPassEnd(p) ==
    /\ ps[p].pc = "self" /\ ps[p].my >= 1
    /\ Stop(p) \/ ps[p].locked \o ps[p].blocked = <<>>
    /\ Put(p, [ps[p] EXCEPT !.pc = "end"])
    /\ UNCHANGED <<pipe, owner, slot, st, starts>>

(* waitlock returns; the lock is given up at once and tried for again      *)
(* after a token was obtained.                                             *)
LockWaitDone(p) ==
    /\ ps[p].pc = "lockwait"
    /\ owner[ps[p].cur] = None
    /\ owner' = [owner EXCEPT ![ps[p].cur] = p]
    /\ Put(p, [ps[p] EXCEPT !.pc = "gotlock"])
    /\ UNCHANGED <<pipe, slot, st, starts>>

GiveUpLock(p) ==
    /\ ps[p].pc = "gotlock"
    /\ owner' = [owner EXCEPT ![ps[p].cur] = None]
    /\ Put(p, [ps[p] EXCEPT !.pc = "relock"])
    /\ UNCHANGED <<pipe, slot, st, starts>>

Relock(p) ==
    /\ ps[p].pc = "relock" /\ ps[p].my >= 1
    /\ LET t == ps[p].cur
           r == [ps[p] EXCEPT !.pc = "loop", !.cur = None]
       IN  (owner[t] = None /\ Checked(p, r, t)) \/ LockWait(p, r, t)

(* Mutant of CycleFound: the error is not reported. *)
CycleFoundSilently(p) ==
    /\ ps[p].cmd = "ifchange" /\ ps[p].my >= 1 /\ ~Stop(p)
    /\ ps[p].pc = "next" /\ ps[p].todo # <<>> /\ LockError(p, Head(ps[p].todo))
    /\ Exit(p, 0)
    /\ UNCHANGED pipe

(* A cyclic dependency: run_ifchange returns at once (208, or an error),   *)
(* whatever its jobs are doing.  The same check in the second pass finds    *)
(* nothing new: REDO_CYCLES does not change while the command runs.        *)
CycleFound(p) ==
    /\ ps[p].cmd = "ifchange" /\ ps[p].my >= 1 /\ ~Stop(p)
    /\ ps[p].pc = "next" /\ ps[p].todo # <<>> /\ LockError(p, Head(ps[p].todo))
    /\ Exit(p, 1)
    /\ UNCHANGED pipe

(***************************************************************************)
(* build_one, for each argument of redo (and of an unlocked redo-ifchange).*)
(***************************************************************************)

(* Mutant of BuildLock: it does not wait. *)
BuildLockNoWait(p) ==
    /\ ps[p].cmd = "redo" /\ ps[p].pc = "next" /\ ps[p].todo # <<>> /\ ~Stop(p)
    /\ owner' = [owner EXCEPT ![Head(ps[p].todo)] = p]
    /\ Put(p, [ps[p] EXCEPT !.pc = "own"])
    /\ UNCHANGED <<pipe, slot, st, starts>>

(* waitlock, with the token in hand.  A cycle is a failure of the target. *)
BuildLock(p) ==
    /\ ps[p].cmd = "redo" /\ ps[p].pc = "next" /\ ps[p].todo # <<>> /\ ~Stop(p)
    /\ LET t == Head(ps[p].todo) IN
       \/ /\ t \in ps[p].cyc
          /\ Put(p, [ps[p] EXCEPT !.todo = Tail(@), !.rc = 1])
          /\ UNCHANGED owner
       \/ /\ t \notin ps[p].cyc /\ owner[t] = None
          /\ owner' = [owner EXCEPT ![t] = p]
          /\ Put(p, [ps[p] EXCEPT !.pc = "own"])
    /\ UNCHANGED <<pipe, slot, st, starts>>

(* REDO_UNLOCKED: the process that started redo-unlocked holds the lock. *)
BuildUnlocked(p) ==
    /\ ps[p].cmd = "unlocked" /\ ps[p].pc = "next" /\ ps[p].todo # <<>> /\ ~Stop(p)
    /\ LET t == Head(ps[p].todo) IN
       \E v \in Verdict(t, TRUE) :
          IF v = "clean"
          THEN /\ Put(p, [ps[p] EXCEPT !.todo = Tail(@)])
               /\ st' = [st EXCEPT ![t] = "ok"]
          ELSE Put(p, [ps[p] EXCEPT !.pc = "own"]) /\ UNCHANGED st
    /\ UNCHANGED <<pipe, owner, slot, starts>>

(* The wait for a pool slot: release_mine once, then poll. *)
BuildPool(p) ==
    /\ ps[p].pc \in {"own", "poolwait"}
    /\ LET t == Head(ps[p].todo) IN
       \/ /\ SlotFree(t)
          /\ TakeSlot(p, t)
          /\ Put(p, [ps[p] EXCEPT !.pc = "bstart"])
          /\ UNCHANGED pipe
       \/ /\ ~SlotFree(t) /\ ps[p].pc = "own"
          /\ PutReleasing(p, [ps[p] EXCEPT !.pc = "poolwait"])
          /\ UNCHANGED slot
    /\ UNCHANGED <<owner, st, starts>>

BuildStart(p) ==
    /\ ps[p].pc = "bstart" /\ ps[p].my >= 1
    /\ LET t == Head(ps[p].todo) IN
       /\ Fork(p, [ps[p] EXCEPT !.pc = "waitall"], t, DoJob(t, ps[p].cyc))
       /\ starts' = [starts EXCEPT ![t] = @ + 1]
    /\ UNCHANGED <<pipe, owner, slot, st>>

(* At the end of wait_all the toplevel command puts its own token into the *)
(* pipe and counts the tokens there; it gives up if some are missing.      *)
AllTokens(p) == p = Top => pipe + (IF ps[p].my >= 1 THEN 1 ELSE 0) = MaxJobs

AfterWaitAll(p, r) ==
    /\ ps[p].pc = "waitall" /\ Kids(p) = {} /\ AllTokens(p)
    /\ IF p = Top /\ r.my >= 1 THEN PutReleasing(p, r) ELSE Put(p, r) /\ UNCHANGED pipe

SelfCheckFails(p) ==
    /\ ps[p].pc = "waitall" /\ Kids(p) = {} /\ ~AllTokens(p)
    /\ pipe' = 0
    /\ Exit(p, 1)

(* run_ifchange goes on with "self", run_redo returns. *)
WaitAllDone(p) ==
    /\ ps[p].cmd \in {"ifchange", "spawn"}
    /\ AfterWaitAll(p, [ps[p] EXCEPT !.pc = IF ps[p].cmd = "ifchange" THEN "self" ELSE "end"])
    /\ UNCHANGED <<owner, slot, st, starts>>

(* build_one records the result, and unlocks. *)
BuildDone(p) ==
    /\ ps[p].cmd \in {"redo", "unlocked"}
    /\ ps[p].pc = "waitall"
    /\ LET t  == Head(ps[p].todo)
           rv == ps[p].got
       IN  /\ AfterWaitAll(p, [ps[p] EXCEPT !.pc = "next", !.todo = Tail(@),
                                            !.rc = IF rv # 0 THEN 1 ELSE @])
           /\ st' = [st EXCEPT ![t] = IF rv = 0 THEN "ok" ELSE "failed"]
           /\ owner' = [owner EXCEPT ![t] = IF ps[p].cmd = "redo" THEN None ELSE @]
           /\ slot' = slot \ {<<p, t>>}
    /\ UNCHANGED starts

(***************************************************************************)
(* run_redo with -j, and the ends of commands and scripts.                 *)
(***************************************************************************)

(* rc_flag is read before the wait for a token: a failure that is seen     *)
(* only during that wait does not keep the next redo from starting.        *)
SpawnNext(p) ==
    /\ ps[p].cmd = "spawn" /\ ps[p].pc = "next"
    /\ Put(p, [ps[p] EXCEPT !.pc = IF ps[p].todo = <<>> \/ Stop(p) THEN "waitall" ELSE "spawn"])
    /\ UNCHANGED <<pipe, owner, slot, st, starts>>

Spawn(p) ==
    /\ ps[p].pc = "spawn" /\ ps[p].my >= 1
    /\ LET t == Head(ps[p].todo) IN
       Fork(p, [ps[p] EXCEPT !.todo = Tail(@), !.pc = "next"], t,
            Job("redo", t, "redo", <<t>>, ps[p].cyc))
    /\ UNCHANGED <<pipe, owner, slot, st, starts>>

(* redo-unlocked goes on to the target itself. *)
OobSecond(p) ==
    /\ ps[p].job = "oob" /\ ps[p].cmd = "ifchange" /\ ps[p].pc = "end"
    /\ ps[p].rc = 0
    /\ Put(p, Job("oob", ps[p].tgt, "unlocked", <<ps[p].tgt>>, ps[p].cyc))
    /\ UNCHANGED <<pipe, owner, slot, st, starts>>

(* The command ends; a script (sh -e) fails if its command does, and may   *)
(* fail by itself.                                                         *)
CommandEnd(p) ==
    /\ \/ ps[p].pc = "end" /\ (ps[p].job = "oob" => ps[p].rc # 0)
       \/ /\ ps[p].cmd \in {"redo", "unlocked"} /\ ps[p].pc = "next"
          /\ ps[p].todo = <<>> \/ Stop(p)
    /\ \E code \in IF ps[p].rc # 0 THEN {1}
                   ELSE IF ps[p].job = "do" /\ ps[p].tgt \in Flaky THEN {0, 1} ELSE {0} :
          Exit(p, code)
    /\ UNCHANGED pipe

IfchangeStep(p) ==
    \/ FirstPass(p) \/ LoopHead(p) \/ SecondPassLocked(p) \/ SecondPassBlocked(p)
    \/ SecondPassEnd(p) \/ LockWaitDone(p) \/ GiveUpLock(p) \/ Relock(p) \/ CycleFound(p)

BuildStep(p) ==
    \/ BuildLock(p) \/ BuildUnlocked(p) \/ BuildPool(p) \/ BuildStart(p) \/ BuildDone(p)

Step(p) ==
    /\ Live(p)
    /\ \/ IfchangeStep(p) \/ BuildStep(p)
       \/ WaitAllRelease(p) \/ WaitAllDone(p) \/ SelfCheckFails(p)
       \/ SpawnNext(p) \/ Spawn(p) \/ OobSecond(p) \/ CommandEnd(p)
       \/ ReadToken(p) \/ \E C \in SUBSET Finished(p) : Reap(p, C)

Ended == \A p \in DOMAIN ps : ~Live(p)

Next == /\ \/ \E p \in DOMAIN ps : Step(p)
           \/ Ended /\ UNCHANGED vars
        /\ UNCHANGED graph

Spec == Init /\ [][Next]_<<vars, graph>>

(* Every path a process of one of the graphs can have: below the toplevel  *)
(* command and below redo-unlocked a target may follow itself.             *)
Path ==
    LET Follows(g, q, i) ==
          IF i = 1 THEN Range(g.roots)
          ELSE Range(g.args[q[i-1]])
               \cup (IF i = 2 \/ g.oobDeps[q[i-1]] # {} THEN {q[i-1]} ELSE {})
    IN  {q \in BoundedSeq(Target, Cardinality(Target) + 2) :
            \E n \in DOMAIN Graphs : \A i \in 1..Len(q) : q[i] \in Follows(Graphs[n], q, i)}

(* Every process keeps running.  A command that polls for a pool slot      *)
(* sleeps between two attempts and holds no token then, so it does not     *)
(* keep the tokens from the others for ever.  Two commands that wait for   *)
(* the same lock could for ever catch each other's short hold of it; the   *)
(* growing sleep before each attempt lets one of them through its last two *)
(* steps (token, trylock) while the other sleeps.                          *)
Undisturbed(p) == ps[p].pc = "relock" /\ owner[ps[p].cur] = None

Fairness ==
    /\ \A p \in Path : WF_vars(p \in DOMAIN ps /\ Step(p))
    /\ SF_vars(\E p \in DOMAIN ps : ps[p].blocked = <<>> /\ Live(p) /\ ReadToken(p))
    /\ SF_vars(\E p \in DOMAIN ps : Undisturbed(p) /\ ReadToken(p))
    /\ SF_vars(\E p \in DOMAIN ps : Undisturbed(p) /\ Relock(p))

FairSpec == Spec /\ Fairness

-----------------------------------------------------------------------------
Verdicts == {"dirty", "ok", "failed"}

TypeOK ==
    /\ pipe \in 0..MaxJobs
    /\ owner \in [Target -> (DOMAIN ps) \cup {None}]
    /\ slot \subseteq (DOMAIN ps) \X Pooled
    /\ st \in [Target -> Verdicts]
    /\ starts \in [Target -> Nat]
    /\ \A p \in DOMAIN ps :
         /\ ps[p].cmd \in {"ifchange", "redo", "unlocked", "spawn"}
         /\ ps[p].my \in {-1, 0, 1}
         /\ ps[p].rc \in 0..2
         /\ ps[p].cyc \subseteq Target
         /\ Range(ps[p].todo) \cup Range(ps[p].locked) \cup Range(ps[p].blocked) \subseteq Target

(* The script of p runs, and no command above it has returned early: one   *)
(* that meets a cyclic dependency leaves its jobs running and drops their  *)
(* locks and pool slots (CycleFound).                                      *)
Attended(p) == /\ ps[p].job = "do"
               /\ \A q \in DOMAIN ps : IsPrefix(q, p) => Live(q)

(* Never do two scripts for the same target run at the same time, whichever *)
(* processes started them: what the target locks, the handing over of the   *)
(* lock to redo-unlocked and the done callbacks are for.                    *)
MutualExclusion ==
    \A p, q \in DOMAIN ps :
       p # q /\ Attended(p) /\ Attended(q) => ps[p].tgt # ps[q].tgt

(* A target that only redo-ifchange asks for is not started again once it    *)
(* was built in this run, however many commands find it locked, wait for it  *)
(* and look at it again.  (After a failure it is.)                           *)
Forced == Range(Roots) \cup UNION {Range(Args[t]) : t \in UsesRedo}
BuiltOnce ==
    [][\A t \in Target \ Forced : starts'[t] > starts[t] => st[t] # "ok"]_vars

(* What is recorded as built was built from built dependencies: a failure   *)
(* in any process, waited for or met by chance, reaches every target above. *)
(* (A redo that is forced on a finished target may still fail afterwards.)  *)
DepsFirst ==
    \A t \in Target :
       st[t] = "ok" => \A d \in Range(Args[t]) \ Forced : st[d] = "ok"

(* If the toplevel command reports success, everything it was asked for is *)
(* built.                                                                  *)
SuccessMeansBuilt ==
    ~Live(Top) /\ ps[Top].rc = 0 => \A t \in Range(Roots) : st[t] = "ok"

(* At most Depth scripts of the pool run at a time. *)
PoolLimit ==
    Cardinality({p \in DOMAIN ps : Attended(p) /\ ps[p].tgt \in Pooled}) <= Depth

(* p is blocked in fcntl on the lock of t. *)
BlockedOn(p, t) ==
    /\ Live(p)
    /\ owner[t] # None
    /\ \/ ps[p].pc = "lockwait" /\ ps[p].cur = t
       \/ /\ ps[p].cmd = "redo" /\ ps[p].pc = "next" /\ ps[p].todo # <<>>
          /\ ~Stop(p) /\ t = Head(ps[p].todo) /\ t \notin ps[p].cyc

(* Nobody waits for the target it is itself being built for: the ancestor  *)
(* that holds that lock waits for it.  REDO_CYCLES must name the target.   *)
NoAncestorWait ==
    \A p \in DOMAIN ps, t \in Target :
       BlockedOn(p, t) => ~IsPrefix(Append(owner[t], t), p)

(* A process that blocks on a lock holds no lock and no pool slot itself,  *)
(* so the processes that wait for each other's locks form no ring.         *)
NoHoldAndWait ==
    \A p \in DOMAIN ps, t \in Target :
       BlockedOn(p, t) => p \notin Range(owner) \cup {s[1] : s \in slot}

(* Of a set of targets each of which needs another of the set, none is ever *)
(* built: a run that meets a cycle fails, however the cycle is spread over  *)
(* processes, and so does everything above the cycle.                       *)
Knots == [n \in DOMAIN Graphs |->
    {K \in SUBSET Target : \A t \in K : Range(Graphs[n].args[t]) \cap K # {}}]
CyclesFail == \A K \in Knots[graph] : \A t \in K : st[t] # "ok"

(* The run ends: nobody waits for ever for a lock, a token, a slot or a    *)
(* job.                                                                    *)
Termination == <>(~Live(Top))
=============================================================================
