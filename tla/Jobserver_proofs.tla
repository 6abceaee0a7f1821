-------------------------- MODULE Jobserver_proofs --------------------------
(***************************************************************************)
(* Proofs about Jobserver, for every set of processes and every -j: first  *)
(* for builds in which no process cheats and none leaves run_ifchange      *)
(* early, then for all.                                                    *)
(***************************************************************************)
EXTENDS Jobserver, TLAPS, FiniteSetTheorems

Reliable == Logged = {} /\ Failing = {}

Gone == {"absent", "reaped"}

(* Where a process may owe the pipe a token. *)
Owing == {"blocked", "depblocked", "ensure", "depensure"}
USE DEF Ensuring, Owing

(* Which tokens a process can have at each point of its command. *)
TokensAt(p) ==
    /\ cheats[p] = 0
    /\ pc[p] \in Gone => mytokens[p] = 0
    /\ pc[p] \in {"script", "exited", "try"} => mytokens[p] = 1
    /\ pc[p] \in {"blocked", "depblocked"} => mytokens[p] <= 0
    /\ mytokens[p] < 0 => p = Top /\ pc[p] \in Owing /\ Kids(p) = {}
    /\ p # Top =>
         /\ pc[p] = "dep" => mytokens[p] = 1
         /\ pc[p] = "next" /\ mode[p] = "build" => mytokens[p] = 1
         /\ pc[p] = "next" /\ mode[p] = "ifchange" =>
                mytokens[p] = 1 \/ Kids(p) # {} \/ backlog[p] > 0
         /\ pc[p] = "waitall" /\ mode[p] = "build" => mytokens[p] = 1 \/ Kids(p) # {}
         /\ pc[p] = "depwait" => mytokens[p] = 1 \/ Kids(p) # {}

(* Which commands a process can be running, and where they have no jobs. *)
CommandAt(p) ==
    /\ p = Top => pc[p] \in Redo \cup {"done"}
    /\ p # Top => pc[p] \notin {"done", "mismatch"}
    /\ p # Top /\ pc[p] \in Redo => mode[p] # "spawn"
    /\ pc[p] \in {"self", "dep", "depwait", "depensure", "depblocked"} => mode[p] = "ifchange"
    /\ pc[p] = "blocked" => mode[p] # "spawn"
    /\ pc[p] \notin Redo => Kids(p) = {}
    /\ pc[p] \in {"self", "dep"} => Kids(p) = {}
    /\ mode[p] = "build" /\ pc[p] # "waitall" => Kids(p) = {}
    /\ mode[p] = "spawn" /\ pc[p] \in {"next", "ensure", "try"} /\ pass[p] = 2 =>
         pc[p] = "next" /\ Kids(p) = {}

(* The processes form a tree under Top, and line lists the ancestors. *)
Tree ==
    /\ line[Top] = {}
    /\ \A c \in Proc : pc[c] = "absent" => parent[c] = NoProc
    /\ \A c \in Proc \ {Top} : pc[c] # "absent" =>
         parent[c] \in Proc /\ line[c] = line[parent[c]] \cup {parent[c]}
    /\ \A c \in Proc : parent[c] \in Proc => pc[parent[c]] # "absent"

(* Every job that is alive is, or descends from, a job Top waits for. *)
Rooted ==
    \A c \in Proc \ {Top} : pc[c] \notin Gone =>
        \E k \in Kids(Top) : k = c \/ k \in line[c]

(* The inductive invariant. *)
IInv ==
    /\ TypeOK
    /\ \A p \in Proc : TokensAt(p)
    /\ \A p \in Proc : CommandAt(p)
    /\ Tree
    /\ Rooted
    /\ TokenConservation

(* A step that neither forks nor reaps: the tree of live processes stays.  *)
Quiet ==
    /\ UNCHANGED <<parent, line>>
    /\ \A q \in Proc : /\ pc[q] = "absent" <=> pc'[q] = "absent"
                       /\ pc[q] \in Gone <=> pc'[q] \in Gone

-----------------------------------------------------------------------------
(* Counting. *)

(* Holders and Debtors are finite, so their cardinalities are numbers. *)
LEMMA FiniteCounts ==
    /\ IsFiniteSet(Holders) /\ Cardinality(Holders) \in Nat
    /\ IsFiniteSet(Debtors) /\ Cardinality(Debtors) \in Nat
<1>1. Holders \subseteq Proc /\ Debtors \subseteq Proc
  BY DEF Holders, Debtors
<1>2. IsFiniteSet(Holders) /\ IsFiniteSet(Debtors)
  BY <1>1, JobserverAssumption, FS_Subset
<1> QED BY <1>2, FS_CardinalityType

(* release(1) of a process without cheats conserves the tokens, even when  *)
(* the process has none and goes into debt.                                *)
LEMMA ReleaseConserves ==
    ASSUME NEW p \in Proc, TypeOK, TokenConservation, cheats[p] = 0,
           mytokens[p] \in {0, 1}, Release(p)
    PROVE  TokenConservation'
<1>1. /\ pipe' = pipe + 1 /\ pipe \in Nat
      /\ mytokens' = [mytokens EXCEPT ![p] = mytokens[p] - 1]
      /\ mytokens \in [Proc -> {-1, 0, 1}]
  BY DEF Release, TypeOK
<1>2. CASE mytokens[p] = 1
  <2>1. p \in Holders /\ Holders' = Holders \ {p} /\ Debtors' = Debtors
    BY <1>1, <1>2 DEF Holders, Debtors
  <2>2. Cardinality(Holders') = Cardinality(Holders) - 1
    BY <2>1, FiniteCounts, FS_RemoveElement
  <2> QED BY <1>1, <2>1, <2>2, FiniteCounts, JobserverAssumption DEF TokenConservation
<1>3. CASE mytokens[p] = 0
  <2>1. p \notin Debtors /\ Debtors' = Debtors \cup {p} /\ Holders' = Holders
    BY <1>1, <1>3 DEF Holders, Debtors
  <2>2. Cardinality(Debtors') = Cardinality(Debtors) + 1
    BY <2>1, FiniteCounts, FS_AddElement
  <2> QED BY <1>1, <2>1, <2>2, FiniteCounts, JobserverAssumption DEF TokenConservation
<1> QED BY <1>2, <1>3

(* The tokens stay where they are. *)
LEMMA SameTokens ==
    ASSUME TokenConservation, mytokens' = mytokens, pipe' = pipe
    PROVE  TokenConservation'
BY DEF TokenConservation, Holders, Debtors

-----------------------------------------------------------------------------
(* The tree. *)

(* A quiet step changes nobody's jobs and keeps the tree rooted in Top. *)
LEMMA QuietTree ==
    ASSUME Tree, Rooted, Quiet
    PROVE  Tree' /\ Rooted' /\ \A q : Kids(q)' = Kids(q)
<1>1. \A q : Kids(q)' = Kids(q)
  BY DEF Quiet, Kids, Gone
<1>2. Tree'
  BY JobserverAssumption DEF Quiet, Tree
<1>3. Rooted'
  BY <1>1, JobserverAssumption DEF Quiet, Rooted
<1> QED BY <1>1, <1>2, <1>3

(* When Top waits for nothing, no job of the build is alive. *)
LEMMA NobodyElse ==
    ASSUME IInv, Kids(Top) = {}
    PROVE  \A c \in Proc \ {Top} : pc[c] \in Gone /\ mytokens[c] = 0
BY DEF IInv, Rooted, TokensAt

-----------------------------------------------------------------------------
(* One lemma for each group of actions. *)

(* ensure_token_or_cheat keeps the invariant. *)
LEMMA EnsureStep ==
    ASSUME Reliable, IInv, NEW p \in Proc, Ensure(p)
    PROVE  IInv'
<1> USE DEF IInv
<1>1. CASE ReadToken(p)
  <2>1. Quiet
    BY <1>1 DEF ReadToken, Quiet, treevars
  <2>2. TypeOK'
    BY <1>1 DEF ReadToken, TypeOK, loopvars, treevars
  <2>3. TokenConservation'
    <3>1. /\ mytokens' = [mytokens EXCEPT ![p] = mytokens[p] + 1]
          /\ mytokens \in [Proc -> {-1, 0, 1}]
          /\ mytokens[p] < 1 /\ pipe' = pipe - 1 /\ pipe \in Nat
      BY <1>1 DEF ReadToken, TypeOK
    <3>2. CASE mytokens[p] = 0
      <4>1. p \notin Holders /\ Holders' = Holders \cup {p} /\ Debtors' = Debtors
        BY <3>1, <3>2 DEF Holders, Debtors
      <4>2. Cardinality(Holders') = Cardinality(Holders) + 1
        BY <4>1, FiniteCounts, FS_AddElement
      <4> QED BY <3>1, <4>1, <4>2, FiniteCounts, JobserverAssumption DEF TokenConservation
    <3>3. CASE mytokens[p] = -1
      <4>1. p \in Debtors /\ Debtors' = Debtors \ {p} /\ Holders' = Holders
        BY <3>1, <3>3 DEF Holders, Debtors
      <4>2. Cardinality(Debtors') = Cardinality(Debtors) - 1
        BY <4>1, FiniteCounts, FS_RemoveElement
      <4> QED BY <3>1, <4>1, <4>2, FiniteCounts, JobserverAssumption DEF TokenConservation
    <3> QED BY <3>1, <3>2, <3>3
  <2>4. \A q \in Proc : TokensAt(q)'
    BY <1>1, <2>1, QuietTree DEF ReadToken, TokensAt, TypeOK, loopvars, Gone
  <2>5. \A q \in Proc : CommandAt(q)'
    BY <1>1, <2>1, QuietTree DEF ReadToken, CommandAt, loopvars
  <2> QED BY <2>1, <2>2, <2>3, <2>4, <2>5, QuietTree
<1>2. CASE EnsureDone(p)
  <2>1. Quiet
    BY <1>2 DEF EnsureDone, Goto, Quiet, treevars, TypeOK, Gone
  <2>2. TypeOK'
    BY <1>2 DEF EnsureDone, Goto, TypeOK, tokenvars, treevars, State, Redo
  <2>3. TokenConservation'
    BY <1>2, SameTokens DEF EnsureDone, tokenvars
  <2>4. \A q \in Proc : TokensAt(q)'
    BY <1>2, <2>1, QuietTree DEF EnsureDone, Goto, TokensAt, TypeOK, tokenvars, Gone
  <2>5. \A q \in Proc : CommandAt(q)'
    BY <1>2, <2>1, QuietTree DEF EnsureDone, Goto, CommandAt, TypeOK, Redo
  <2> QED BY <2>1, <2>2, <2>3, <2>4, <2>5, QuietTree
<1>3. ~Cheat(p)
  BY DEF Cheat, Reliable
<1> QED BY <1>1, <1>2, <1>3 DEF Ensure

(* The loops over the targets keep the invariant. *)
LEMMA LoopStep ==
    ASSUME Reliable, IInv, NEW p \in Proc, Loop(p)
    PROVE  IInv'
<1> USE DEF IInv
<1>1. CASE NextTarget(p)
  <2>1. Quiet
    BY <1>1 DEF NextTarget, Goto, Quiet, treevars, TypeOK, CommandAt, Gone, Redo
  <2>2. TypeOK'
    BY <1>1 DEF NextTarget, Goto, TypeOK, tokenvars, treevars, loopvars, State, Redo
  <2>3. TokenConservation'
    BY <1>1, SameTokens DEF NextTarget, Goto, tokenvars
  <2>4. \A q \in Proc : TokensAt(q)'
    BY <1>1, <2>1, QuietTree DEF NextTarget, Goto, TokensAt, CommandAt, TypeOK, tokenvars, loopvars, Gone
  <2>5. \A q \in Proc : CommandAt(q)'
    BY <1>1, <2>1, QuietTree DEF NextTarget, Goto, CommandAt, TypeOK, loopvars, Redo
  <2> QED BY <2>1, <2>2, <2>3, <2>4, <2>5, QuietTree
<1>2. CASE EndPass1(p)
  <2>1. Quiet
    BY <1>2 DEF EndPass1, Goto, Quiet, treevars, TypeOK, CommandAt, Gone, Redo
  <2>2. TypeOK'
    BY <1>2 DEF EndPass1, Goto, TypeOK, tokenvars, treevars, loopvars, State, Redo
  <2>3. TokenConservation'
    BY <1>2, SameTokens DEF EndPass1, Goto, tokenvars
  <2>4. \A q \in Proc : TokensAt(q)'
    BY <1>2, <2>1, QuietTree DEF EndPass1, Goto, TokensAt, CommandAt, TypeOK, tokenvars, loopvars, Gone
  <2>5. \A q \in Proc : CommandAt(q)'
    BY <1>2, <2>1, QuietTree DEF EndPass1, Goto, CommandAt, TypeOK, loopvars, Redo
  <2> QED BY <2>1, <2>2, <2>3, <2>4, <2>5, QuietTree
<1>3. CASE Pass2(p)
  <2>1. Quiet
    BY <1>3 DEF Pass2, Goto, Quiet, treevars, TypeOK, CommandAt, Gone, Redo
  <2>2. TypeOK'
    BY <1>3 DEF Pass2, Goto, TypeOK, tokenvars, treevars, loopvars, State, Redo
  <2>3. TokenConservation'
    BY <1>3, SameTokens DEF Pass2, Goto, tokenvars
  <2>4. \A q \in Proc : TokensAt(q)'
    BY <1>3, <2>1, QuietTree DEF Pass2, Goto, TokensAt, CommandAt, TypeOK, tokenvars, loopvars, Gone
  <2>5. \A q \in Proc : CommandAt(q)'
    BY <1>3, <2>1, QuietTree DEF Pass2, Goto, CommandAt, TypeOK, loopvars, Redo
  <2> QED BY <2>1, <2>2, <2>3, <2>4, <2>5, QuietTree
<1>4. CASE Skip(p)
  <2>1. Quiet
    BY <1>4 DEF Skip, Goto, Quiet, treevars, TypeOK, CommandAt, Gone, Redo
  <2>2. TypeOK'
    BY <1>4 DEF Skip, Goto, TypeOK, tokenvars, treevars, loopvars, State, Redo
  <2>3. TokenConservation'
    BY <1>4, SameTokens DEF Skip, Goto, tokenvars
  <2>4. \A q \in Proc : TokensAt(q)'
    BY <1>4, <2>1, QuietTree DEF Skip, Goto, TokensAt, CommandAt, TypeOK, tokenvars, loopvars, Gone
  <2>5. \A q \in Proc : CommandAt(q)'
    BY <1>4, <2>1, QuietTree DEF Skip, Goto, CommandAt, TypeOK, loopvars, Redo
  <2> QED BY <2>1, <2>2, <2>3, <2>4, <2>5, QuietTree
<1>5. CASE PushLocked(p)
  <2>1. Quiet
    BY <1>5 DEF PushLocked, Goto, Quiet, treevars, TypeOK, CommandAt, Gone, Redo
  <2>2. TypeOK'
    BY <1>5 DEF PushLocked, Goto, TypeOK, tokenvars, treevars, loopvars, State, Redo
  <2>3. TokenConservation'
    BY <1>5, SameTokens DEF PushLocked, Goto, tokenvars
  <2>4. \A q \in Proc : TokensAt(q)'
    BY <1>5, <2>1, QuietTree DEF PushLocked, Goto, TokensAt, CommandAt, TypeOK, tokenvars, loopvars, Gone
  <2>5. \A q \in Proc : CommandAt(q)'
    BY <1>5, <2>1, QuietTree DEF PushLocked, Goto, CommandAt, TypeOK, loopvars, Redo
  <2> QED BY <2>1, <2>2, <2>3, <2>4, <2>5, QuietTree
<1> QED BY <1>1, <1>2, <1>3, <1>4, <1>5 DEF Loop

(* Giving the token up while waiting keeps the invariant. *)
LEMMA WaitStep ==
    ASSUME Reliable, IInv, NEW p \in Proc, Wait(p)
    PROVE  IInv'
<1> USE DEF IInv
<1>1. CASE DeferPool(p)
  <2>1. Quiet
    BY <1>1 DEF DeferPool, Goto, Quiet, treevars, TypeOK, Gone
  <2>2. mytokens[p] \in {0, 1} /\ cheats[p] = 0 /\ Release(p)
    BY <1>1 DEF DeferPool, TokensAt, TypeOK
  <2>3. TypeOK'
    BY <1>1, <2>2 DEF DeferPool, Goto, Release, TypeOK, treevars, loopvars, State, Redo
  <2>4. TokenConservation'
    BY <2>2, ReleaseConserves
  <2>5. \A q \in Proc : TokensAt(q)'
    BY <1>1, <2>1, <2>2, QuietTree DEF DeferPool, Goto, Release, TokensAt, CommandAt, TypeOK, loopvars, Gone
  <2>6. \A q \in Proc : CommandAt(q)'
    BY <1>1, <2>1, QuietTree DEF DeferPool, Goto, CommandAt, TypeOK, loopvars, Redo
  <2> QED BY <2>1, <2>3, <2>4, <2>5, <2>6, QuietTree
<1>2. CASE LockWait(p)
  <2>1. Quiet
    BY <1>2 DEF LockWait, Goto, Quiet, treevars, TypeOK, Gone
  <2>2. mytokens[p] \in {0, 1} /\ cheats[p] = 0 /\ Release(p)
    BY <1>2 DEF LockWait, TokensAt, TypeOK
  <2>3. TypeOK'
    BY <1>2, <2>2 DEF LockWait, Goto, Release, TypeOK, treevars, loopvars, State, Redo
  <2>4. TokenConservation'
    BY <2>2, ReleaseConserves
  <2>5. \A q \in Proc : TokensAt(q)'
    BY <1>2, <2>1, <2>2, QuietTree DEF LockWait, Goto, Release, TokensAt, CommandAt, TypeOK, loopvars, Gone
  <2>6. \A q \in Proc : CommandAt(q)'
    BY <1>2, <2>1, QuietTree DEF LockWait, Goto, CommandAt, TypeOK, loopvars, Redo
  <2> QED BY <2>1, <2>3, <2>4, <2>5, <2>6, QuietTree
<1>3. CASE DepPoolWait(p)
  <2>1. Quiet
    BY <1>3 DEF DepPoolWait, Goto, Quiet, treevars, TypeOK, Gone
  <2>2. mytokens[p] \in {0, 1} /\ cheats[p] = 0 /\ Release(p)
    BY <1>3 DEF DepPoolWait, TokensAt, TypeOK
  <2>3. TypeOK'
    BY <1>3, <2>2 DEF DepPoolWait, Goto, Release, TypeOK, treevars, loopvars, State, Redo
  <2>4. TokenConservation'
    BY <2>2, ReleaseConserves
  <2>5. \A q \in Proc : TokensAt(q)'
    BY <1>3, <2>1, <2>2, QuietTree DEF DepPoolWait, Goto, Release, TokensAt, CommandAt, TypeOK, loopvars, Gone
  <2>6. \A q \in Proc : CommandAt(q)'
    BY <1>3, <2>1, QuietTree DEF DepPoolWait, Goto, CommandAt, TypeOK, loopvars, Redo
  <2> QED BY <2>1, <2>3, <2>4, <2>5, <2>6, QuietTree
<1>4. CASE Unblock(p)
  <2>1. Quiet
    BY <1>4 DEF Unblock, Goto, Quiet, treevars, TypeOK, CommandAt, Gone, Redo
  <2>2. TypeOK'
    BY <1>4 DEF Unblock, Goto, TypeOK, tokenvars, treevars, loopvars, State, Redo
  <2>3. TokenConservation'
    BY <1>4, SameTokens DEF Unblock, Goto, tokenvars
  <2>4. \A q \in Proc : TokensAt(q)'
    BY <1>4, <2>1, QuietTree DEF Unblock, Goto, TokensAt, CommandAt, TypeOK, tokenvars, loopvars, Gone
  <2>5. \A q \in Proc : CommandAt(q)'
    BY <1>4, <2>1, QuietTree DEF Unblock, Goto, CommandAt, TypeOK, loopvars, Redo
  <2> QED BY <2>1, <2>2, <2>3, <2>4, <2>5, QuietTree
<1> QED BY <1>1, <1>2, <1>3, <1>4 DEF Wait

(* build_one up to its job keeps the invariant. *)
LEMMA BuildStep ==
    ASSUME Reliable, IInv, NEW p \in Proc, Build(p)
    PROVE  IInv'
<1> USE DEF IInv
<1>1. CASE BuildSkip(p)
  <2>1. Quiet
    BY <1>1 DEF BuildSkip, Quiet, treevars, TypeOK, CommandAt, Gone, Redo
  <2>2. TypeOK'
    BY <1>1 DEF BuildSkip, TypeOK, tokenvars, treevars, loopvars, State, Redo
  <2>3. TokenConservation'
    BY <1>1, SameTokens DEF BuildSkip, tokenvars
  <2>4. \A q \in Proc : TokensAt(q)'
    BY <1>1, <2>1, QuietTree DEF BuildSkip, TokensAt, CommandAt, TypeOK, tokenvars, loopvars, Gone
  <2>5. \A q \in Proc : CommandAt(q)'
    BY <1>1, <2>1, QuietTree DEF BuildSkip, CommandAt, TypeOK, loopvars, Redo
  <2> QED BY <2>1, <2>2, <2>3, <2>4, <2>5, QuietTree
<1>2. CASE BuildOne(p)
  <2>1. Quiet
    BY <1>2 DEF BuildOne, Goto, Quiet, treevars, TypeOK, CommandAt, Gone, Redo
  <2>2. TypeOK'
    BY <1>2 DEF BuildOne, Goto, TypeOK, tokenvars, treevars, loopvars, State, Redo
  <2>3. TokenConservation'
    BY <1>2, SameTokens DEF BuildOne, Goto, tokenvars
  <2>4. \A q \in Proc : TokensAt(q)'
    BY <1>2, <2>1, QuietTree DEF BuildOne, Goto, TokensAt, CommandAt, TypeOK, tokenvars, loopvars, Gone
  <2>5. \A q \in Proc : CommandAt(q)'
    BY <1>2, <2>1, QuietTree DEF BuildOne, Goto, CommandAt, TypeOK, loopvars, Redo
  <2> QED BY <2>1, <2>2, <2>3, <2>4, <2>5, QuietTree
<1>3. CASE BuildPoolWait(p)
  <2>1. Quiet
    BY <1>3 DEF BuildPoolWait, Goto, Quiet, treevars, TypeOK, Gone
  <2>2. mytokens[p] \in {0, 1} /\ cheats[p] = 0 /\ Release(p)
    BY <1>3 DEF BuildPoolWait, TokensAt, TypeOK
  <2>3. TypeOK'
    BY <1>3, <2>2 DEF BuildPoolWait, Goto, Release, TypeOK, treevars, loopvars, State, Redo
  <2>4. TokenConservation'
    BY <2>2, ReleaseConserves
  <2>5. \A q \in Proc : TokensAt(q)'
    BY <1>3, <2>1, <2>2, QuietTree DEF BuildPoolWait, Goto, Release, TokensAt, CommandAt, TypeOK, loopvars, Gone
  <2>6. \A q \in Proc : CommandAt(q)'
    BY <1>3, <2>1, QuietTree DEF BuildPoolWait, Goto, CommandAt, TypeOK, loopvars, Redo
  <2> QED BY <2>1, <2>3, <2>4, <2>5, <2>6, QuietTree
<1> QED BY <1>1, <1>2, <1>3 DEF Build

(* wait_all keeps the invariant (the self-check apart). *)
LEMMA WaitAllStep ==
    ASSUME Reliable, IInv, NEW p \in Proc, WaitAll(p)
    PROVE  IInv'
<1> USE DEF IInv
<1>1. CASE WaitAllRelease(p)
  <2>1. Quiet
    BY <1>1 DEF WaitAllRelease, Quiet, treevars, TypeOK, Gone
  <2>2. mytokens[p] \in {0, 1} /\ cheats[p] = 0 /\ Release(p)
    BY <1>1 DEF WaitAllRelease, TokensAt, TypeOK
  <2>3. TypeOK'
    BY <1>1, <2>2 DEF WaitAllRelease, Release, TypeOK, treevars, loopvars, State, Redo
  <2>4. TokenConservation'
    BY <2>2, ReleaseConserves
  <2>5. \A q \in Proc : TokensAt(q)'
    BY <1>1, <2>1, <2>2, QuietTree DEF WaitAllRelease, Release, TokensAt, CommandAt, TypeOK, loopvars, Gone
  <2>6. \A q \in Proc : CommandAt(q)'
    BY <1>1, <2>1, QuietTree DEF WaitAllRelease, CommandAt, TypeOK, loopvars, Redo
  <2> QED BY <2>1, <2>3, <2>4, <2>5, <2>6, QuietTree
<1>2. CASE WaitAllDone(p)
  <2>1. Quiet
    BY <1>2 DEF WaitAllDone, Goto, AfterWaitAll, Quiet, treevars, TypeOK, CommandAt, Gone, Redo
  <2>2. TypeOK'
    BY <1>2 DEF WaitAllDone, Goto, AfterWaitAll, TypeOK, tokenvars, treevars, loopvars, State, Redo
  <2>3. TokenConservation'
    BY <1>2, SameTokens DEF WaitAllDone, Goto, AfterWaitAll, tokenvars
  <2>4. \A q \in Proc : TokensAt(q)'
    BY <1>2, <2>1, QuietTree DEF WaitAllDone, Goto, AfterWaitAll, TokensAt, CommandAt, TypeOK, tokenvars, loopvars, Gone
  <2>5. \A q \in Proc : CommandAt(q)'
    BY <1>2, <2>1, QuietTree DEF WaitAllDone, Goto, AfterWaitAll, CommandAt, TypeOK, loopvars, Redo
  <2> QED BY <2>1, <2>2, <2>3, <2>4, <2>5, QuietTree
<1>3. CASE DepDone(p)
  <2>1. Quiet
    BY <1>3 DEF DepDone, Goto, Quiet, treevars, TypeOK, CommandAt, Gone, Redo
  <2>2. TypeOK'
    BY <1>3 DEF DepDone, Goto, TypeOK, tokenvars, treevars, loopvars, State, Redo
  <2>3. TokenConservation'
    BY <1>3, SameTokens DEF DepDone, Goto, tokenvars
  <2>4. \A q \in Proc : TokensAt(q)'
    BY <1>3, <2>1, QuietTree DEF DepDone, Goto, TokensAt, CommandAt, TypeOK, tokenvars, loopvars, Gone
  <2>5. \A q \in Proc : CommandAt(q)'
    BY <1>3, <2>1, QuietTree DEF DepDone, Goto, CommandAt, TypeOK, loopvars, Redo
  <2> QED BY <2>1, <2>2, <2>3, <2>4, <2>5, QuietTree
<1> QED BY <1>1, <1>2, <1>3 DEF WaitAll

(* The end of a command and the life of a script keep the invariant. *)
LEMMA LifeStep ==
    ASSUME Reliable, IInv, NEW p \in Proc, Life(p)
    PROVE  IInv'
<1> USE DEF IInv
<1>1. CASE Return(p)
  <2>1. Quiet
    BY <1>1 DEF Return, EndCommand, Goto, Quiet, treevars, TypeOK, CommandAt, Gone, Redo
  <2>2. TypeOK'
    BY <1>1 DEF Return, EndCommand, Goto, TypeOK, tokenvars, treevars, loopvars, State, Redo
  <2>3. TokenConservation'
    BY <1>1, SameTokens DEF Return, EndCommand, Goto, tokenvars
  <2>4. \A q \in Proc : TokensAt(q)'
    BY <1>1, <2>1, QuietTree DEF Return, EndCommand, Goto, TokensAt, CommandAt, TypeOK, loopvars, Gone, Redo
  <2>5. \A q \in Proc : CommandAt(q)'
    BY <1>1, <2>1, QuietTree DEF Return, EndCommand, Goto, CommandAt, TypeOK, loopvars, Redo
  <2> QED BY <2>1, <2>2, <2>3, <2>4, <2>5, QuietTree
<1>2. CASE RunCommand(p)
  <2>1. Quiet
    BY <1>2 DEF RunCommand, Goto, Mode, Quiet, treevars, TypeOK, CommandAt, Gone, Redo
  <2>2. TypeOK'
    BY <1>2 DEF RunCommand, Goto, Mode, TypeOK, tokenvars, treevars, loopvars, State, Redo
  <2>3. TokenConservation'
    <3>1. mytokens' = mytokens
      BY <1>2 DEF RunCommand, TokensAt, TypeOK
    <3> QED BY <1>2, <3>1, SameTokens DEF RunCommand
  <2>4. \A q \in Proc : TokensAt(q)'
    BY <1>2, <2>1, QuietTree DEF RunCommand, Goto, Mode, TokensAt, CommandAt, TypeOK, tokenvars, loopvars, Gone
  <2>5. \A q \in Proc : CommandAt(q)'
    BY <1>2, <2>1, QuietTree DEF RunCommand, Goto, Mode, CommandAt, TypeOK, loopvars, Redo
  <2> QED BY <2>1, <2>2, <2>3, <2>4, <2>5, QuietTree
<1>3. CASE ExitJob(p)
  <2>1. Quiet
    BY <1>3 DEF ExitJob, Goto, Quiet, treevars, TypeOK, CommandAt, Gone, Redo
  <2>2. TypeOK'
    BY <1>3 DEF ExitJob, Goto, TypeOK, tokenvars, treevars, loopvars, State, Redo
  <2>3. TokenConservation'
    BY <1>3, SameTokens DEF ExitJob, Goto, tokenvars
  <2>4. \A q \in Proc : TokensAt(q)'
    BY <1>3, <2>1, QuietTree DEF ExitJob, Goto, TokensAt, CommandAt, TypeOK, tokenvars, loopvars, Gone
  <2>5. \A q \in Proc : CommandAt(q)'
    BY <1>3, <2>1, QuietTree DEF ExitJob, Goto, CommandAt, TypeOK, loopvars, Redo
  <2> QED BY <2>1, <2>2, <2>3, <2>4, <2>5, QuietTree
<1>4. ~EarlyReturn(p)
  BY DEF EarlyReturn, Reliable
<1> QED BY <1>1, <1>2, <1>3, <1>4 DEF Life

(* jobserver::start hands the token of p to the job c. *)
LEMMA ForkStep ==
    ASSUME IInv, NEW p \in Proc, NEW c \in Proc, NEW l \in {"next", "waitall", "depwait"},
           Fork(p, c, l),
           l = "waitall" <=> mode[p] = "build",
           l = "depwait" => mode[p] = "ifchange"
    PROVE  IInv'
<1> USE DEF IInv
<1>1. /\ p # c /\ c # Top
      /\ pc[p] = "try" /\ pc[c] = "absent"
      /\ mytokens[p] = 1 /\ mytokens[c] = 0
  BY DEF Fork, CommandAt, TokensAt, Gone, Redo
<1>2. /\ pc' = [pc EXCEPT ![p] = l, ![c] = "script"]
      /\ parent' = [parent EXCEPT ![c] = p]
      /\ line' = [line EXCEPT ![c] = line[p] \cup {p}]
      /\ mytokens' = [mytokens EXCEPT ![p] = 0, ![c] = 1]
      /\ UNCHANGED <<pipe, cheats, mode, pass, todo, backlog, calls>>
  BY <1>1 DEF Fork, TypeOK, loopvars
<1>3. TypeOK'
  BY <1>2 DEF TypeOK, State, Redo
<1>4. Kids(p)' = Kids(p) \cup {c} /\ \A q \in Proc \ {p} : Kids(q)' = Kids(q)
  BY <1>1, <1>2, JobserverAssumption DEF Kids, TypeOK, Tree
<1>5. Tree'
  BY <1>1, <1>2, JobserverAssumption DEF Tree, TypeOK
<1>6. Rooted'
  <2> SUFFICES ASSUME NEW d \in Proc \ {Top}, pc'[d] \notin Gone
               PROVE  \E k \in Kids(Top)' : k = d \/ k \in line'[d]
    BY DEF Rooted, Gone
  <2>1. Kids(Top) \subseteq Kids(Top)'
    BY <1>4, JobserverAssumption
  <2>2. CASE d # c
    <3>1. pc[d] \notin Gone /\ line'[d] = line[d]
      BY <1>1, <1>2, <2>2 DEF TypeOK, Gone
    <3> QED BY <2>1, <3>1 DEF Rooted
  <2>3. CASE d = c /\ p = Top
    BY <1>4, <2>3
  <2>4. CASE d = c /\ p # Top
    <3>1. line'[c] = line[p] \cup {p}
      BY <1>2 DEF TypeOK
    <3>2. \E k \in Kids(Top) : k = p \/ k \in line[p]
      BY <1>1, <2>4 DEF Rooted, Gone
    <3> QED BY <2>1, <2>4, <3>1, <3>2
  <2> QED BY <2>2, <2>3, <2>4
<1>7. \A q \in Proc : TokensAt(q)'
  <2> SUFFICES ASSUME NEW q \in Proc PROVE TokensAt(q)'
    OBVIOUS
  <2>1. CASE q = p
    <3>1. Kids(q)' # {} /\ mytokens'[q] = 0 /\ cheats'[q] = 0 /\ pc'[q] = l /\ mode' = mode
      BY <1>1, <1>2, <1>4, <2>1 DEF TypeOK, TokensAt
    <3> QED BY <1>1, <2>1, <3>1 DEF TokensAt, Gone
  <2>2. CASE q = c
    <3>1. mytokens'[q] = 1 /\ cheats'[q] = 0 /\ pc'[q] = "script"
      BY <1>1, <1>2, <2>2 DEF TypeOK, TokensAt
    <3> QED BY <1>1, <2>2, <3>1 DEF TokensAt, Gone
  <2>3. CASE q # p /\ q # c
    BY <1>2, <1>4, <2>3 DEF TokensAt, TypeOK
  <2> QED BY <2>1, <2>2, <2>3
<1>8. \A q \in Proc : CommandAt(q)'
  <2> SUFFICES ASSUME NEW q \in Proc PROVE CommandAt(q)'
    OBVIOUS
  <2>1. CASE q = p
    BY <1>1, <1>2, <2>1 DEF CommandAt, TypeOK, Redo, Fork
  <2>2. CASE q = c
    BY <1>1, <1>2, <1>4, <2>2 DEF CommandAt, TypeOK, Redo
  <2>3. CASE q # p /\ q # c
    BY <1>2, <1>4, <2>3 DEF CommandAt, TypeOK
  <2> QED BY <2>1, <2>2, <2>3
<1>9. TokenConservation'
  <2>1. /\ p \in Holders /\ c \notin Holders \ {p}
        /\ Holders' = (Holders \ {p}) \cup {c} /\ Debtors' = Debtors
    BY <1>1, <1>2 DEF Holders, Debtors, TypeOK
  <2>2. IsFiniteSet(Holders \ {p}) /\ Cardinality(Holders \ {p}) = Cardinality(Holders) - 1
    BY <2>1, FiniteCounts, FS_RemoveElement
  <2>3. Cardinality(Holders') = Cardinality(Holders \ {p}) + 1
    BY <2>1, <2>2, FS_AddElement
  <2> QED BY <1>2, <2>1, <2>2, <2>3, FiniteCounts DEF TokenConservation
<1> QED BY <1>3, <1>5, <1>6, <1>7, <1>8, <1>9

(* wait() turns the token of the ended job c into a token of p. *)
LEMMA ReapStep ==
    ASSUME IInv, NEW p \in Proc, NEW c \in Proc, Reap(p, c)
    PROVE  IInv'
<1> USE DEF IInv
<1>1. /\ p # c /\ c # Top /\ c \in Kids(p)
      /\ pc[c] = "exited" /\ parent[c] = p /\ mytokens[c] = 1
      /\ mytokens[p] \in {0, 1} /\ cheats[p] = 0
      /\ pc[p] \in {"ensure", "depensure", "waitall", "depwait"}
  BY DEF Reap, Kids, CommandAt, TokensAt, TypeOK, Redo
<1>2. /\ pc' = [pc EXCEPT ![c] = "reaped"]
      /\ mytokens' = [mytokens EXCEPT ![c] = 0, ![p] = 1]
      /\ pipe' = IF mytokens[p] = 1 THEN pipe + 1 ELSE pipe
      /\ UNCHANGED <<cheats, mode, pass, todo, backlog, calls, parent, line>>
  BY <1>1 DEF Reap, Goto, TypeOK, loopvars, treevars
<1>3. TypeOK'
  BY <1>2 DEF TypeOK, State
<1>4. Kids(p)' = Kids(p) \ {c} /\ \A q \in Proc \ {p} : Kids(q)' = Kids(q)
  BY <1>1, <1>2 DEF Kids, TypeOK
<1>5. Tree'
  BY <1>1, <1>2, JobserverAssumption DEF Tree, TypeOK
<1>6. Rooted'
  <2> SUFFICES ASSUME NEW d \in Proc \ {Top}, pc'[d] \notin Gone
               PROVE  \E k \in Kids(Top)' : k = d \/ k \in line'[d]
    BY DEF Rooted, Gone
  <2>1. d # c /\ pc[d] \notin Gone /\ line' = line
    BY <1>1, <1>2 DEF TypeOK, Gone
  <2>2. PICK k \in Kids(Top) : k = d \/ k \in line[d]
    BY <2>1 DEF Rooted
  <2>3. k # c
    <3> SUFFICES ASSUME k = c PROVE FALSE
      OBVIOUS
    <3>1. c \in line[d]
      BY <2>1, <2>2
    <3>2. pc[d] = "exited"
      BY <2>1, <3>1 DEF Reap, Gone
    <3>3. parent[d] \in Proc /\ line[d] = line[parent[d]] \cup {parent[d]}
      BY <2>1 DEF Tree, Gone
    <3>4. d \in Kids(parent[d])
      BY <2>1 DEF Kids, Gone
    <3>5. pc[parent[d]] \in Redo
      BY <3>3, <3>4 DEF CommandAt
    <3>6. parent[d] # c /\ c \notin line[parent[d]]
      BY <1>1, <3>3, <3>5 DEF Reap, Redo
    <3> QED BY <3>1, <3>3, <3>6
  <2> QED BY <1>4, <2>1, <2>2, <2>3, JobserverAssumption
<1>7. \A q \in Proc : TokensAt(q)'
  <2> SUFFICES ASSUME NEW q \in Proc PROVE TokensAt(q)'
    OBVIOUS
  <2>1. CASE q = p
    BY <1>1, <1>2, <2>1 DEF TokensAt, TypeOK, Gone
  <2>2. CASE q = c
    BY <1>1, <1>2, <2>2 DEF TokensAt, TypeOK, Gone
  <2>3. CASE q # p /\ q # c
    BY <1>1, <1>2, <1>4, <2>3 DEF TokensAt, TypeOK, Gone
  <2> QED BY <2>1, <2>2, <2>3
<1>8. \A q \in Proc : CommandAt(q)'
  <2> SUFFICES ASSUME NEW q \in Proc PROVE CommandAt(q)'
    OBVIOUS
  <2>1. CASE q = p
    BY <1>1, <1>2, <1>4, <2>1 DEF CommandAt, TypeOK, Redo
  <2>2. CASE q = c
    BY <1>1, <1>2, <1>4, <2>2 DEF CommandAt, TypeOK, Redo
  <2>3. CASE q # p /\ q # c
    BY <1>2, <1>4, <2>3 DEF CommandAt, TypeOK
  <2> QED BY <2>1, <2>2, <2>3
<1>9. TokenConservation'
  <2>1. c \in Holders /\ Debtors' = Debtors
    BY <1>1, <1>2 DEF Holders, Debtors, TypeOK
  <2>2. IsFiniteSet(Holders \ {c}) /\ Cardinality(Holders \ {c}) = Cardinality(Holders) - 1
    BY <2>1, FiniteCounts, FS_RemoveElement
  <2>3. CASE mytokens[p] = 1
    <3>1. Holders' = Holders \ {c}
      BY <1>1, <1>2, <2>3 DEF Holders, TypeOK
    <3> QED BY <1>2, <2>1, <2>2, <2>3, <3>1, FiniteCounts, JobserverAssumption
            DEF TokenConservation, TypeOK
  <2>4. CASE mytokens[p] = 0
    <3>1. p \notin Holders \ {c} /\ Holders' = (Holders \ {c}) \cup {p}
      BY <1>1, <1>2, <2>4 DEF Holders, TypeOK
    <3>2. Cardinality(Holders') = Cardinality(Holders \ {c}) + 1
      BY <2>2, <3>1, FS_AddElement
    <3> QED BY <1>2, <2>1, <2>2, <2>4, <3>2, FiniteCounts, JobserverAssumption
            DEF TokenConservation, TypeOK
  <2> QED BY <1>1, <2>3, <2>4
<1> QED BY <1>3, <1>5, <1>6, <1>7, <1>8, <1>9

(* The bound on Proc keeps the invariant. *)
LEMMA QuickJobStep ==
    ASSUME IInv, NEW p \in Proc, QuickJob(p)
    PROVE  IInv'
<1> USE DEF IInv
<1>1. Quiet
  BY DEF QuickJob, Goto, Quiet, treevars, TypeOK, Gone
<1>2. TypeOK'
  BY DEF QuickJob, Goto, TypeOK, tokenvars, treevars, loopvars, State, Redo
<1>3. TokenConservation'
  BY SameTokens DEF QuickJob, tokenvars
<1>4. \A q \in Proc : TokensAt(q)'
  BY <1>1, QuietTree DEF QuickJob, Goto, TokensAt, TypeOK, tokenvars, loopvars, Gone
<1>5. \A q \in Proc : CommandAt(q)'
  BY <1>1, QuietTree DEF QuickJob, Goto, CommandAt, TypeOK, loopvars, Redo
<1> QED BY <1>1, <1>2, <1>3, <1>4, <1>5, QuietTree

(* When the toplevel command checks its tokens, it finds all of them. *)
LEMMA SelfCheckStep ==
    ASSUME IInv, SelfCheck
    PROVE  IInv' /\ pipe' = MaxJobs
<1> USE DEF IInv
<1>1. /\ Top \in Proc /\ pc[Top] \in {"waitall", "depwait"} /\ Kids(Top) = {}
      /\ mytokens[Top] \in {0, 1} /\ cheats[Top] = 0
  BY JobserverAssumption DEF SelfCheck, TokensAt, TypeOK
<1>2. \A c \in Proc \ {Top} : mytokens[c] = 0
  BY <1>1, NobodyElse
<1>3. TokenConservation'
  BY <1>1, ReleaseConserves, SameTokens DEF SelfCheck, tokenvars
<1>4. mytokens' = [mytokens EXCEPT ![Top] = 0] /\ cheats' = cheats /\ pipe' \in Nat
  BY <1>1 DEF SelfCheck, Release, tokenvars, TypeOK
<1>5. Holders' = {} /\ Debtors' = {}
  BY <1>1, <1>2, <1>4 DEF Holders, Debtors, TypeOK
<1>6. pipe' = MaxJobs
  BY <1>3, <1>4, <1>5, FS_EmptySet, JobserverAssumption DEF TokenConservation
<1>7. pc' = [pc EXCEPT ![Top] = AfterWaitAll(Top)]
  BY <1>6 DEF SelfCheck, Goto
<1>8. Quiet
  BY <1>1, <1>7 DEF SelfCheck, Quiet, AfterWaitAll, treevars, TypeOK, Gone
<1>9. TypeOK'
  BY <1>4, <1>7 DEF SelfCheck, AfterWaitAll, TypeOK, treevars, loopvars, State, Redo
<1>10. \A q \in Proc : TokensAt(q)'
  BY <1>1, <1>4, <1>7, <1>8, QuietTree
     DEF SelfCheck, AfterWaitAll, TokensAt, TypeOK, loopvars, Gone
<1>11. \A q \in Proc : CommandAt(q)'
  BY <1>1, <1>7, <1>8, QuietTree DEF SelfCheck, AfterWaitAll, CommandAt, TypeOK, loopvars, Redo
<1> QED BY <1>3, <1>6, <1>8, <1>9, <1>10, <1>11, QuietTree

-----------------------------------------------------------------------------
(* setup() establishes the invariant. *)
LEMMA InitInv == Init => IInv
<1> SUFFICES ASSUME Init PROVE IInv
  OBVIOUS
<1> USE JobserverAssumption DEF Init
<1>1. TypeOK
  BY DEF TypeOK, State, Redo, Mode
<1>2. \A q : q \in Proc => Kids(q) = {}
  BY DEF Kids
<1>3. \A q \in Proc : TokensAt(q)
  BY <1>2 DEF TokensAt, Gone
<1>4. \A q \in Proc : CommandAt(q)
  BY <1>2 DEF CommandAt, Redo
<1>5. Tree /\ Rooted
  BY DEF Tree, Rooted, Gone
<1>6. TokenConservation
  <2>1. Holders = {Top} /\ Debtors = {}
    BY DEF Holders, Debtors
  <2>2. Cardinality({Top}) = 1 /\ Cardinality({}) = 0
    BY FS_Singleton, FS_EmptySet
  <2> QED BY <2>1, <2>2 DEF TokenConservation
<1> QED BY <1>1, <1>3, <1>4, <1>5, <1>6 DEF IInv

(* Every step of a reliable build keeps the invariant. *)
LEMMA NextInv ==
    ASSUME Reliable, IInv, [Next]_vars
    PROVE  IInv'
<1>1. ASSUME NEW p \in Proc, Step(p) PROVE IInv'
  <2>1. ASSUME NEW c \in Proc, Start(p, c) PROVE IInv'
    <3> DEFINE l == IF mode[p] = "build" THEN "waitall" ELSE "next"
    <3>1. Fork(p, c, l) /\ l \in {"next", "waitall", "depwait"} /\ l # "depwait"
      BY <2>1 DEF Start
    <3>2. l = "waitall" <=> mode[p] = "build"
      OBVIOUS
    <3> HIDE DEF l
    <3> QED BY <3>1, <3>2, ForkStep
  <2>2. ASSUME NEW c \in Proc, StartDep(p, c) PROVE IInv'
    BY <2>2, ForkStep DEF StartDep
  <2>3. ASSUME NEW c \in Proc, Reap(p, c) PROVE IInv'
    BY <2>3, ReapStep
  <2> QED BY <1>1, <2>1, <2>2, <2>3, EnsureStep, LoopStep, WaitStep, BuildStep,
             WaitAllStep, LifeStep, QuickJobStep DEF Step
<1>2. CASE SelfCheck
  BY <1>2, SelfCheckStep
<1>3. CASE UNCHANGED vars
  <2>1. Quiet
    BY <1>3 DEF vars, Quiet
  <2>2. \A q \in Proc : Kids(q)' = Kids(q)
    BY <2>1, QuietTree DEF IInv
  <2>3. TypeOK' /\ Tree' /\ Rooted' /\ TokenConservation'
    BY <1>3, <2>1, QuietTree, SameTokens DEF vars, IInv, TypeOK
  <2>4. \A q \in Proc : TokensAt(q)' /\ CommandAt(q)'
    BY <1>3, <2>2 DEF vars, IInv, TokensAt, CommandAt
  <2> QED BY <2>3, <2>4 DEF IInv
<1> QED BY <1>1, <1>2, <1>3 DEF Next

(* The inductive invariant holds in every state of a reliable build. *)
THEOREM Invariance == ASSUME Reliable PROVE Spec => []IInv
<1>1. IInv /\ [Next]_vars => IInv'
  BY NextInv
<1> QED BY InitInv, <1>1, PTL DEF Spec

(* release, wait, start and wait_all neither create nor destroy a token. *)
THEOREM Conservation == ASSUME Reliable PROVE Spec => []TokenConservation
<1>1. IInv => TokenConservation
  BY DEF IInv
<1> QED BY <1>1, Invariance, PTL

(* wait_all's self-check in the toplevel command never fails. *)
THEOREM Accounting == ASSUME Reliable PROVE Spec => []AccountingHolds
<1>1. IInv => AccountingHolds
  BY JobserverAssumption DEF IInv, CommandAt, AccountingHolds, Redo
<1> QED BY <1>1, Invariance, PTL

(* A process with a negative MYTOKENS is the toplevel command, alone. *)
THEOREM Debt == ASSUME Reliable PROVE Spec => []DebtOnlyWhenAlone
<1>1. IInv => DebtOnlyWhenAlone
  BY NobodyElse DEF IInv, TokensAt, DebtOnlyWhenAlone, Gone
<1> QED BY <1>1, Invariance, PTL

(* With the invariant, whoever owes a token is alone, so it is never the   *)
(* case that a debt covers for another process's work.                     *)
LEMMA DebtOrWork ==
    ASSUME IInv, Debtors # {}
    PROVE  Debtors = {Top} /\ Holders = {}
<1>1. PICK p \in Proc : mytokens[p] = -1
  BY DEF Debtors
<1>2. p = Top /\ Kids(Top) = {}
  BY <1>1 DEF IInv, TokensAt
<1> QED BY <1>1, <1>2, NobodyElse, JobserverAssumption DEF Debtors, Holders

(* At most -j processes of a build work at any time. *)
THEOREM ParallelismBound == ASSUME Reliable PROVE Spec => []WorkBound
<1>1. ASSUME IInv PROVE WorkBound
  <2>1. pipe \in Nat /\ TokenConservation
    BY <1>1 DEF IInv, TypeOK
  <2>2. CASE Debtors = {}
    BY <2>1, <2>2, FiniteCounts, FS_EmptySet, JobserverAssumption
       DEF TokenConservation, WorkBound
  <2>3. CASE Debtors # {}
    BY <1>1, <2>3, DebtOrWork, FS_EmptySet, JobserverAssumption DEF WorkBound
  <2> QED BY <2>2, <2>3
<1> QED BY <1>1, Invariance, PTL

-----------------------------------------------------------------------------
(* The jobserver implements TokenPool: a read of the pipe is Enter, a      *)
(* write Leave, a fork or a reap HandOver, and all else stutters.          *)

(* release(1) gives a permit back, or (from 0 to -1) none. *)
LEMMA ReleaseLeaves ==
    ASSUME TypeOK, NEW p \in Proc, mytokens[p] \in {0, 1}, Release(p)
    PROVE  Pool!Next \/ Holders' = Holders
<1>1. mytokens' = [mytokens EXCEPT ![p] = mytokens[p] - 1]
  BY DEF Release
<1>2. CASE mytokens[p] = 1
  <2>1. p \in Holders /\ Holders' = Holders \ {p}
    BY <1>1, <1>2 DEF Holders, TypeOK
  <2> QED BY <2>1 DEF Pool!Next, Pool!Leave
<1>3. CASE mytokens[p] = 0
  BY <1>1, <1>3 DEF Holders, TypeOK
<1> QED BY <1>2, <1>3

(* TokenPool counts with its own copy of Cardinality. *)
LEMMA SameCount == Pool!Cardinality(Holders) = Cardinality(Holders)
BY DEF Pool!Cardinality, Cardinality, Pool!IsFiniteSet, IsFiniteSet

(* A read of the pipe finds fewer than -j processes working. *)
LEMMA ReadEnters ==
    ASSUME IInv, NEW p \in Proc, ReadToken(p)
    PROVE  Pool!Next \/ Holders' = Holders
<1>1. /\ mytokens' = [mytokens EXCEPT ![p] = mytokens[p] + 1] /\ pipe > 0
      /\ pc[p] \in Ensuring /\ mytokens[p] \in {-1, 0} /\ pipe \in Nat
  BY DEF ReadToken, IInv, TypeOK
<1>2. CASE mytokens[p] = -1
  BY <1>1, <1>2 DEF Holders, IInv, TypeOK
<1>3. CASE mytokens[p] = 0
  <2>1. p \notin Holders /\ Holders' = Holders \cup {p}
    BY <1>1, <1>3 DEF Holders, IInv, TypeOK
  <2>2. Debtors = {}
    <3> SUFFICES ASSUME Debtors # {} PROVE FALSE
      OBVIOUS
    <3>1. Top \in Debtors /\ mytokens[Top] = -1
      BY DebtOrWork DEF Debtors
    <3>2. Kids(Top) = {} /\ p # Top
      BY <1>3, <3>1, JobserverAssumption DEF IInv, TokensAt
    <3> QED BY <1>1, <3>2, NobodyElse DEF Gone
  <2>3. Cardinality(Holders) < MaxJobs
    BY <1>1, <2>2, FiniteCounts, FS_EmptySet, JobserverAssumption DEF IInv, TokenConservation
  <2> QED BY <2>1, <2>3, SameCount DEF Pool!Next, Pool!Enter
<1> QED BY <1>1, <1>2, <1>3

(* A fork hands the permit of p to c. *)
LEMMA ForkHandsOver ==
    ASSUME IInv, NEW p \in Proc, NEW c \in Proc, NEW l, Fork(p, c, l)
    PROVE  Pool!Next
<1>1. p # c /\ mytokens[p] = 1 /\ mytokens[c] = 0
  BY DEF Fork, IInv, TokensAt, Gone
<1>2. p \in Holders /\ c \notin Holders /\ Holders' = (Holders \ {p}) \cup {c}
  BY <1>1 DEF Fork, Holders, IInv, TypeOK
<1> QED BY <1>2 DEF Pool!Next, Pool!HandOver

(* A reap hands the permit of c to p, or gives it back if p has one. *)
LEMMA ReapHandsOver ==
    ASSUME IInv, NEW p \in Proc, NEW c \in Proc, Reap(p, c)
    PROVE  Pool!Next
<1>1. /\ p # c /\ mytokens[c] = 1 /\ mytokens[p] \in {0, 1} /\ cheats[p] = 0
  BY DEF Reap, Kids, IInv, TokensAt, TypeOK
<1>2. mytokens' = [mytokens EXCEPT ![c] = 0, ![p] = 1]
  BY <1>1 DEF Reap, IInv, TypeOK
<1>3. CASE mytokens[p] = 1
  <2>1. c \in Holders /\ Holders' = Holders \ {c}
    BY <1>1, <1>2, <1>3 DEF Holders, IInv, TypeOK
  <2> QED BY <2>1 DEF Pool!Next, Pool!Leave
<1>4. CASE mytokens[p] = 0
  <2>1. c \in Holders /\ p \notin Holders /\ Holders' = (Holders \ {c}) \cup {p}
    BY <1>1, <1>2, <1>4 DEF Holders, IInv, TypeOK
  <2> QED BY <2>1 DEF Pool!Next, Pool!HandOver
<1> QED BY <1>1, <1>3, <1>4

(* Every step of a reliable build is a step of the pool or a stutter. *)
LEMMA PoolStep ==
    ASSUME Reliable, IInv, [Next]_vars
    PROVE  Pool!Next \/ Holders' = Holders
<1>1. ASSUME mytokens' = mytokens PROVE Holders' = Holders
  BY <1>1 DEF Holders
<1>2. ASSUME NEW p \in Proc, Step(p) PROVE Pool!Next \/ Holders' = Holders
  <2>1. CASE Ensure(p)
    BY <1>1, <2>1, ReadEnters DEF Ensure, Cheat, Reliable, EnsureDone, tokenvars
  <2>2. CASE Loop(p) \/ QuickJob(p)
    BY <1>1, <2>2 DEF Loop, NextTarget, EndPass1, Pass2, Skip, PushLocked, QuickJob, tokenvars
  <2>3. CASE Wait(p)
    <3>1. CASE Unblock(p)
      BY <1>1, <3>1 DEF Unblock, tokenvars
    <3>2. CASE DeferPool(p) \/ LockWait(p) \/ DepPoolWait(p)
      <4>1. Release(p) /\ pc[p] \in {"try", "dep"}
        BY <3>2 DEF DeferPool, LockWait, DepPoolWait
      <4>2. TypeOK /\ mytokens[p] \in {0, 1}
        BY <4>1 DEF IInv, TokensAt, TypeOK
      <4> QED BY <4>1, <4>2, ReleaseLeaves
    <3> QED BY <2>3, <3>1, <3>2 DEF Wait
  <2>4. CASE Build(p)
    <3>1. CASE BuildSkip(p) \/ BuildOne(p)
      BY <1>1, <3>1 DEF BuildSkip, BuildOne, tokenvars
    <3>2. CASE BuildPoolWait(p)
      <4>1. TypeOK /\ mytokens[p] \in {0, 1} /\ Release(p)
        BY <3>2 DEF BuildPoolWait, IInv, TokensAt, TypeOK
      <4> QED BY <4>1, ReleaseLeaves
    <3> QED BY <2>4, <3>1, <3>2 DEF Build
  <2>5. CASE WaitAll(p)
    <3>1. CASE WaitAllDone(p) \/ DepDone(p)
      BY <1>1, <3>1 DEF WaitAllDone, DepDone, tokenvars
    <3>2. CASE WaitAllRelease(p)
      <4>1. TypeOK /\ mytokens[p] \in {0, 1} /\ Release(p)
        BY <3>2 DEF WaitAllRelease, IInv, TypeOK
      <4> QED BY <4>1, ReleaseLeaves
    <3> QED BY <2>5, <3>1, <3>2 DEF WaitAll
  <2>6. CASE Life(p)
    <3>1. mytokens' = mytokens
      BY <2>6 DEF Life, Return, EarlyReturn, EndCommand, RunCommand, ExitJob, Reliable,
                  IInv, TokensAt, TypeOK, tokenvars
    <3> QED BY <1>1, <3>1
  <2>7. ASSUME NEW c \in Proc, Reap(p, c) \/ Start(p, c) \/ StartDep(p, c) PROVE Pool!Next
    BY <2>7, ReapHandsOver, ForkHandsOver DEF Start, StartDep
  <2> QED BY <1>2, <2>1, <2>2, <2>3, <2>4, <2>5, <2>6, <2>7 DEF Step
<1>3. CASE SelfCheck
  <2>1. CASE Release(Top) /\ mytokens[Top] >= 1
    BY <2>1, ReleaseLeaves, JobserverAssumption DEF IInv, TypeOK
  <2>2. CASE UNCHANGED tokenvars
    BY <1>1, <2>2 DEF tokenvars
  <2> QED BY <1>3, <2>1, <2>2 DEF SelfCheck
<1>4. CASE UNCHANGED vars
  BY <1>1, <1>4 DEF vars
<1> QED BY <1>2, <1>3, <1>4 DEF Next

(* The jobserver refines the pool of MaxJobs permits. *)
THEOREM PoolRefinement == ASSUME Reliable PROVE Spec => ImplementsPool
<1>1. Init => Pool!Init
  <2> SUFFICES ASSUME Init PROVE Holders = {Top}
    BY JobserverAssumption DEF Pool!Init
  <2> QED BY JobserverAssumption DEF Init, Holders
<1>2. IInv /\ [Next]_vars => [Pool!Next]_Holders
  BY PoolStep
<1> QED BY <1>1, <1>2, Invariance, PTL DEF Spec, ImplementsPool, Pool!Spec

-----------------------------------------------------------------------------
(***************************************************************************)
(* Builds in which processes cheat and run_ifchange returns early.         *)
(***************************************************************************)

(* How many processes have x of something, and the tokens held, less those *)
(* owed to the pipe.                                                       *)
Count(v, x) == Cardinality({p \in Proc : v[p] = x})
Held(v) == Count(v, 1) - Count(v, -1)

(* Which tokens a process can have when it may cheat or return early. *)
Standing(p) ==
    /\ pc[p] = "absent" => mytokens[p] = 0
    /\ pc[p] \in Gone \cup {"script", "exited"} => cheats[p] = 0
    /\ pc[p] = "try" => mytokens[p] = 1
    /\ mytokens[p] < 0 => pc[p] \in Owing
    /\ cheats[p] = 1 /\ mytokens[p] <= 0 => Kids(p) # {}

(* The tokens cover -j and everybody's cheats. *)
Solvent == pipe + Held(mytokens) >= MaxJobs + Count(cheats, 1)

FaultInv == TypeOK /\ (\A p \in Proc : Standing(p)) /\ Solvent

(* One process changes what it has. *)
LEMMA CountChanges ==
    ASSUME NEW v, NEW w, NEW p \in Proc, NEW x, \A q \in Proc \ {p} : w[q] = v[q]
    PROVE  /\ Count(v, x) \in Nat
           /\ (v[p] = x <=> w[p] = x) => Count(w, x) = Count(v, x)
           /\ v[p] # x /\ w[p] = x => Count(w, x) = Count(v, x) + 1
           /\ v[p] = x /\ w[p] # x => Count(w, x) = Count(v, x) - 1
<1>1. PICK S \in SUBSET Proc : S = {q \in Proc : v[q] = x}
  OBVIOUS
<1>2. PICK T \in SUBSET Proc : T = {q \in Proc : w[q] = x}
  OBVIOUS
<1>3. IsFiniteSet(S) /\ Cardinality(S) \in Nat
  BY JobserverAssumption, FS_Subset, FS_CardinalityType
<1>4. Count(v, x) = Cardinality(S) /\ Count(w, x) = Cardinality(T)
  BY <1>1, <1>2 DEF Count
<1>5. CASE v[p] = x <=> w[p] = x
  <2>1. T = S
    BY <1>1, <1>2, <1>5
  <2> QED BY <1>3, <1>4, <1>5, <2>1
<1>6. CASE v[p] # x /\ w[p] = x
  <2>1. p \notin S /\ T = S \cup {p}
    BY <1>1, <1>2, <1>6
  <2>2. Cardinality(T) = Cardinality(S) + 1
    BY <1>3, <2>1, FS_AddElement
  <2> QED BY <1>3, <1>4, <1>6, <2>2
<1>7. CASE v[p] = x /\ w[p] # x
  <2>1. p \in S /\ T = S \ {p}
    BY <1>1, <1>2, <1>7
  <2>2. Cardinality(T) = Cardinality(S) - 1
    BY <1>3, <2>1, FS_RemoveElement
  <2> QED BY <1>3, <1>4, <1>7, <2>2
<1> QED BY <1>5, <1>6, <1>7

LEMMA HeldChanges ==
    ASSUME NEW v, NEW w, NEW p \in Proc, \A q \in Proc \ {p} : w[q] = v[q],
           v[p] \in {-1, 0, 1}, w[p] \in {-1, 0, 1}
    PROVE  Held(v) \in Int /\ Held(w) = Held(v) + w[p] - v[p]
<1>1. /\ Count(v, 1) \in Nat
      /\ (v[p] = 1 <=> w[p] = 1) => Count(w, 1) = Count(v, 1)
      /\ v[p] # 1 /\ w[p] = 1 => Count(w, 1) = Count(v, 1) + 1
      /\ v[p] = 1 /\ w[p] # 1 => Count(w, 1) = Count(v, 1) - 1
  BY CountChanges
<1>2. /\ Count(v, -1) \in Nat
      /\ (v[p] = -1 <=> w[p] = -1) => Count(w, -1) = Count(v, -1)
      /\ v[p] # -1 /\ w[p] = -1 => Count(w, -1) = Count(v, -1) + 1
      /\ v[p] = -1 /\ w[p] # -1 => Count(w, -1) = Count(v, -1) - 1
  BY CountChanges
<1> QED BY <1>1, <1>2 DEF Held

LEMMA CheatsChange ==
    ASSUME NEW v, NEW w, NEW p \in Proc, \A q \in Proc \ {p} : w[q] = v[q],
           v[p] \in {0, 1}, w[p] \in {0, 1}
    PROVE  Count(v, 1) \in Nat /\ Count(w, 1) = Count(v, 1) + w[p] - v[p]
<1>1. /\ Count(v, 1) \in Nat
      /\ (v[p] = 1 <=> w[p] = 1) => Count(w, 1) = Count(v, 1)
      /\ v[p] # 1 /\ w[p] = 1 => Count(w, 1) = Count(v, 1) + 1
      /\ v[p] = 1 /\ w[p] # 1 => Count(w, 1) = Count(v, 1) - 1
  BY CountChanges
<1> QED BY <1>1

(* The tokens of a state are still enough when nothing is lost on balance. *)
LEMMA StillSolvent ==
    ASSUME TypeOK, TypeOK', Solvent, NEW p \in Proc,
           \A q \in Proc \ {p} : mytokens'[q] = mytokens[q] /\ cheats'[q] = cheats[q],
           pipe' + mytokens'[p] - cheats'[p] >= pipe + mytokens[p] - cheats[p]
    PROVE  Solvent'
<1>1. /\ mytokens[p] \in {-1, 0, 1} /\ mytokens'[p] \in {-1, 0, 1}
      /\ cheats[p] \in {0, 1} /\ cheats'[p] \in {0, 1}
      /\ pipe \in Nat /\ pipe' \in Nat
  BY DEF TypeOK
<1>2. Held(mytokens) \in Int /\ Held(mytokens') = Held(mytokens) + mytokens'[p] - mytokens[p]
  BY <1>1, HeldChanges
<1>3. /\ Count(cheats, 1) \in Nat
      /\ Count(cheats', 1) = Count(cheats, 1) + cheats'[p] - cheats[p]
  BY <1>1, CheatsChange
<1>4. pipe + Held(mytokens) >= MaxJobs + Count(cheats, 1)
  BY DEF Solvent
<1>5. pipe' + Held(mytokens') >= MaxJobs + Count(cheats', 1)
  BY <1>1, <1>2, <1>3, <1>4, JobserverAssumption
<1>6. Held(mytokens)' = Held(mytokens') /\ Count(cheats, 1)' = Count(cheats', 1)
  BY DEF Held, Count
<1> QED BY <1>5, <1>6 DEF Solvent

(* The same when a token goes from one process to another. *)
LEMMA PairSolvent ==
    ASSUME TypeOK, TypeOK', Solvent, NEW p \in Proc, NEW c \in Proc \ {p},
           \A q \in Proc \ {p, c} : mytokens'[q] = mytokens[q],
           \A q \in Proc \ {p} : cheats'[q] = cheats[q],
           pipe' + mytokens'[p] + mytokens'[c] - cheats'[p]
             >= pipe + mytokens[p] + mytokens[c] - cheats[p]
    PROVE  Solvent'
<1>1. /\ mytokens[p] \in {-1, 0, 1} /\ mytokens'[p] \in {-1, 0, 1}
      /\ mytokens[c] \in {-1, 0, 1} /\ mytokens'[c] \in {-1, 0, 1}
      /\ cheats[p] \in {0, 1} /\ cheats'[p] \in {0, 1}
      /\ pipe \in Nat /\ pipe' \in Nat
  BY DEF TypeOK
<1>2. PICK w : w = [q \in Proc |-> IF q = p THEN mytokens'[p] ELSE mytokens[q]]
  OBVIOUS
<1>3. /\ w[p] = mytokens'[p] /\ w[c] = mytokens[c]
      /\ \A q \in Proc \ {p} : w[q] = mytokens[q]
      /\ \A q \in Proc \ {c} : mytokens'[q] = w[q]
  BY <1>2
<1>4. Held(mytokens) \in Int /\ Held(w) = Held(mytokens) + w[p] - mytokens[p]
  BY <1>1, <1>3, HeldChanges
<1>5. Held(w) \in Int /\ Held(mytokens') = Held(w) + mytokens'[c] - w[c]
  BY <1>1, <1>3, HeldChanges
<1>6. /\ Count(cheats, 1) \in Nat
      /\ Count(cheats', 1) = Count(cheats, 1) + cheats'[p] - cheats[p]
  BY <1>1, CheatsChange
<1>7. pipe + Held(mytokens) >= MaxJobs + Count(cheats, 1)
  BY DEF Solvent
<1>8. pipe' + Held(mytokens') >= MaxJobs + Count(cheats', 1)
  BY <1>1, <1>3, <1>4, <1>5, <1>6, <1>7, JobserverAssumption
<1>9. Held(mytokens)' = Held(mytokens') /\ Count(cheats, 1)' = Count(cheats', 1)
  BY DEF Held, Count
<1> QED BY <1>8, <1>9 DEF Solvent

(* A step that leaves the tokens and everybody's jobs alone. *)
LEMMA FaultMove ==
    ASSUME FaultInv, TypeOK', UNCHANGED tokenvars, parent' = parent,
           NEW p \in Proc, NEW l, pc' = [pc EXCEPT ![p] = l],
           pc[p] \notin Gone, l \notin Gone,
           l \in {"script", "exited"} => cheats[p] = 0,
           l = "try" => mytokens[p] = 1,
           mytokens[p] < 0 => l \in Owing
    PROVE  FaultInv'
<1>1. Solvent'
  BY DEF FaultInv, Solvent, Held, Count, tokenvars
<1>2. ASSUME NEW q \in Proc PROVE Standing(q)'
  <2>1. Kids(q)' = Kids(q)
    BY DEF FaultInv, TypeOK, Kids, Gone
  <2> QED BY <2>1 DEF FaultInv, TypeOK, Standing, tokenvars, Gone
<1> QED BY <1>1, <1>2 DEF FaultInv

(* A step that calls release(1). *)
LEMMA FaultRelease ==
    ASSUME FaultInv, NEW p \in Proc, Release(p), mytokens[p] \in {0, 1},
           UNCHANGED <<mode, pass, calls, parent, line>>,
           todo' \in [Proc -> Nat], backlog' \in [Proc -> Nat],
           NEW l \in State, pc' = [pc EXCEPT ![p] = l],
           pc[p] \notin Gone, l \notin Gone, l # "try",
           l \in {"blocked", "depblocked"} \/ mytokens[p] = 1
    PROVE  FaultInv'
<1>0. cheats[p] \in {0, 1} /\ pipe \in Nat
  BY DEF FaultInv, TypeOK
<1>1. /\ mytokens' = [mytokens EXCEPT ![p] = mytokens[p] - 1]
      /\ cheats' = [cheats EXCEPT ![p] = 0]
      /\ pipe' = IF cheats[p] = 1 THEN pipe ELSE pipe + 1
  <2>1. CASE cheats[p] = 1
    BY <2>1 DEF Release
  <2>2. CASE cheats[p] = 0
    BY <2>2 DEF Release
  <2> QED BY <1>0, <2>1, <2>2
<1>2. TypeOK'
  BY <1>0, <1>1 DEF FaultInv, TypeOK
<1>3. Solvent'
  <2>1. mytokens'[p] = mytokens[p] - 1 /\ cheats'[p] = 0
    BY <1>1 DEF FaultInv, TypeOK
  <2>2. pipe' + mytokens'[p] - cheats'[p] >= pipe + mytokens[p] - cheats[p]
    BY <1>0, <1>1, <2>1
  <2>3. \A q \in Proc \ {p} : mytokens'[q] = mytokens[q] /\ cheats'[q] = cheats[q]
    BY <1>1 DEF FaultInv, TypeOK
  <2> QED BY <1>2, <2>2, <2>3, StillSolvent DEF FaultInv
<1>4. ASSUME NEW q \in Proc PROVE Standing(q)'
  <2>1. Kids(q)' = Kids(q)
    BY DEF FaultInv, TypeOK, Kids, Gone
  <2> QED BY <1>1, <2>1 DEF FaultInv, TypeOK, Standing, Gone
<1> QED BY <1>2, <1>3, <1>4 DEF FaultInv

(* The actions that only look at the token, or ask for one, or end a pass. *)
LEMMA FaultMoves ==
    ASSUME FaultInv, NEW p \in Proc,
           \/ EnsureDone(p) \/ NextTarget(p) \/ EndPass1(p) \/ Pass2(p) \/ Skip(p)
           \/ PushLocked(p) \/ Unblock(p) \/ BuildSkip(p) \/ BuildOne(p)
           \/ WaitAllDone(p) \/ DepDone(p) \/ ExitJob(p) \/ QuickJob(p)
    PROVE  FaultInv'
<1>1. TypeOK /\ Standing(p)
  BY DEF FaultInv
<1>2. CASE EnsureDone(p)
  <2>1. PICK l \in State : l = IF pc[p] = "self" /\ backlog[p] = 0 THEN "next" ELSE "try"
    BY <1>1, <1>2 DEF EnsureDone, TypeOK, State, Redo
  <2>2. UNCHANGED tokenvars /\ parent' = parent /\ pc' = [pc EXCEPT ![p] = l]
    BY <1>1, <1>2, <2>1 DEF EnsureDone, Goto, TypeOK, treevars
  <2>3. TypeOK'
    BY <1>1, <1>2, <2>1, <2>2 DEF EnsureDone, TypeOK, tokenvars, treevars, loopvars
  <2>4. /\ pc[p] \notin Gone /\ l \notin Gone
        /\ l \in {"script", "exited"} => cheats[p] = 0
        /\ l = "try" => mytokens[p] = 1
        /\ mytokens[p] < 0 => l \in Owing
    BY <1>1, <1>2, <2>1 DEF EnsureDone, Standing, TypeOK, Gone
  <2> QED BY <2>2, <2>3, <2>4, FaultMove
<1>3. CASE NextTarget(p)
  <2>1. PICK l \in State : l = "ensure"
    BY <1>1, <1>3 DEF NextTarget, TypeOK, State, Redo
  <2>2. UNCHANGED tokenvars /\ parent' = parent /\ pc' = [pc EXCEPT ![p] = l]
    BY <1>1, <1>3, <2>1 DEF NextTarget, Goto, TypeOK, treevars
  <2>3. TypeOK'
    BY <1>1, <1>3, <2>1, <2>2 DEF NextTarget, TypeOK, tokenvars, treevars, loopvars
  <2>4. /\ pc[p] \notin Gone /\ l \notin Gone
        /\ l \in {"script", "exited"} => cheats[p] = 0
        /\ l = "try" => mytokens[p] = 1
        /\ mytokens[p] < 0 => l \in Owing
    BY <1>1, <1>3, <2>1 DEF NextTarget, Standing, TypeOK, Gone
  <2> QED BY <2>2, <2>3, <2>4, FaultMove
<1>4. CASE EndPass1(p)
  <2>1. PICK l \in State : l = IF mode[p] = "spawn" THEN "waitall" ELSE "next"
    BY <1>1, <1>4 DEF EndPass1, TypeOK, State, Redo
  <2>2. UNCHANGED tokenvars /\ parent' = parent /\ pc' = [pc EXCEPT ![p] = l]
    BY <1>1, <1>4, <2>1 DEF EndPass1, Goto, TypeOK, treevars
  <2>3. TypeOK'
    BY <1>1, <1>4, <2>1, <2>2 DEF EndPass1, TypeOK, tokenvars, treevars, loopvars
  <2>4. /\ pc[p] \notin Gone /\ l \notin Gone
        /\ l \in {"script", "exited"} => cheats[p] = 0
        /\ l = "try" => mytokens[p] = 1
        /\ mytokens[p] < 0 => l \in Owing
    BY <1>1, <1>4, <2>1 DEF EndPass1, Standing, TypeOK, Gone
  <2> QED BY <2>2, <2>3, <2>4, FaultMove
<1>5. CASE Pass2(p)
  <2>1. PICK l \in State : l = "waitall"
    BY <1>1, <1>5 DEF Pass2, TypeOK, State, Redo
  <2>2. UNCHANGED tokenvars /\ parent' = parent /\ pc' = [pc EXCEPT ![p] = l]
    BY <1>1, <1>5, <2>1 DEF Pass2, Goto, TypeOK, treevars
  <2>3. TypeOK'
    BY <1>1, <1>5, <2>1, <2>2 DEF Pass2, TypeOK, tokenvars, treevars, loopvars
  <2>4. /\ pc[p] \notin Gone /\ l \notin Gone
        /\ l \in {"script", "exited"} => cheats[p] = 0
        /\ l = "try" => mytokens[p] = 1
        /\ mytokens[p] < 0 => l \in Owing
    BY <1>1, <1>5, <2>1 DEF Pass2, Standing, TypeOK, Gone
  <2> QED BY <2>2, <2>3, <2>4, FaultMove
<1>6. CASE Skip(p)
  <2>1. PICK l \in State : l = "next"
    BY <1>1, <1>6 DEF Skip, TypeOK, State, Redo
  <2>2. UNCHANGED tokenvars /\ parent' = parent /\ pc' = [pc EXCEPT ![p] = l]
    BY <1>1, <1>6, <2>1 DEF Skip, Goto, TypeOK, treevars
  <2>3. TypeOK'
    BY <1>1, <1>6, <2>1, <2>2 DEF Skip, TypeOK, tokenvars, treevars, loopvars
  <2>4. /\ pc[p] \notin Gone /\ l \notin Gone
        /\ l \in {"script", "exited"} => cheats[p] = 0
        /\ l = "try" => mytokens[p] = 1
        /\ mytokens[p] < 0 => l \in Owing
    BY <1>1, <1>6, <2>1 DEF Skip, Standing, TypeOK, Gone
  <2> QED BY <2>2, <2>3, <2>4, FaultMove
<1>7. CASE PushLocked(p)
  <2>1. PICK l \in State : l = "next"
    BY <1>1, <1>7 DEF PushLocked, TypeOK, State, Redo
  <2>2. UNCHANGED tokenvars /\ parent' = parent /\ pc' = [pc EXCEPT ![p] = l]
    BY <1>1, <1>7, <2>1 DEF PushLocked, Goto, TypeOK, treevars
  <2>3. TypeOK'
    BY <1>1, <1>7, <2>1, <2>2 DEF PushLocked, TypeOK, tokenvars, treevars, loopvars
  <2>4. /\ pc[p] \notin Gone /\ l \notin Gone
        /\ l \in {"script", "exited"} => cheats[p] = 0
        /\ l = "try" => mytokens[p] = 1
        /\ mytokens[p] < 0 => l \in Owing
    BY <1>1, <1>7, <2>1 DEF PushLocked, Standing, TypeOK, Gone
  <2> QED BY <2>2, <2>3, <2>4, FaultMove
<1>8. CASE Unblock(p)
  <2>1. PICK l \in State : l = IF pc[p] = "blocked" THEN "ensure" ELSE "depensure"
    BY <1>1, <1>8 DEF Unblock, TypeOK, State, Redo
  <2>2. UNCHANGED tokenvars /\ parent' = parent /\ pc' = [pc EXCEPT ![p] = l]
    BY <1>1, <1>8, <2>1 DEF Unblock, Goto, TypeOK, treevars
  <2>3. TypeOK'
    BY <1>1, <1>8, <2>1, <2>2 DEF Unblock, TypeOK, tokenvars, treevars, loopvars
  <2>4. /\ pc[p] \notin Gone /\ l \notin Gone
        /\ l \in {"script", "exited"} => cheats[p] = 0
        /\ l = "try" => mytokens[p] = 1
        /\ mytokens[p] < 0 => l \in Owing
    BY <1>1, <1>8, <2>1 DEF Unblock, Standing, TypeOK, Gone
  <2> QED BY <2>2, <2>3, <2>4, FaultMove
<1>9. CASE BuildSkip(p)
  <2>1. PICK l \in State : l = pc[p]
    BY <1>1, <1>9 DEF BuildSkip, TypeOK, State, Redo
  <2>2. UNCHANGED tokenvars /\ parent' = parent /\ pc' = [pc EXCEPT ![p] = l]
    BY <1>1, <1>9, <2>1 DEF BuildSkip, Goto, TypeOK, treevars
  <2>3. TypeOK'
    BY <1>1, <1>9, <2>1, <2>2 DEF BuildSkip, TypeOK, tokenvars, treevars, loopvars
  <2>4. /\ pc[p] \notin Gone /\ l \notin Gone
        /\ l \in {"script", "exited"} => cheats[p] = 0
        /\ l = "try" => mytokens[p] = 1
        /\ mytokens[p] < 0 => l \in Owing
    BY <1>1, <1>9, <2>1 DEF BuildSkip, Standing, TypeOK, Gone
  <2> QED BY <2>2, <2>3, <2>4, FaultMove
<1>10. CASE BuildOne(p)
  <2>1. PICK l \in State : l = "ensure"
    BY <1>1, <1>10 DEF BuildOne, TypeOK, State, Redo
  <2>2. UNCHANGED tokenvars /\ parent' = parent /\ pc' = [pc EXCEPT ![p] = l]
    BY <1>1, <1>10, <2>1 DEF BuildOne, Goto, TypeOK, treevars
  <2>3. TypeOK'
    BY <1>1, <1>10, <2>1, <2>2 DEF BuildOne, TypeOK, tokenvars, treevars, loopvars
  <2>4. /\ pc[p] \notin Gone /\ l \notin Gone
        /\ l \in {"script", "exited"} => cheats[p] = 0
        /\ l = "try" => mytokens[p] = 1
        /\ mytokens[p] < 0 => l \in Owing
    BY <1>1, <1>10, <2>1 DEF BuildOne, Standing, TypeOK, Gone
  <2> QED BY <2>2, <2>3, <2>4, FaultMove
<1>11. CASE WaitAllDone(p)
  <2>1. PICK l \in State : l = AfterWaitAll(p)
    BY <1>1, <1>11 DEF WaitAllDone, AfterWaitAll, TypeOK, State, Redo
  <2>2. UNCHANGED tokenvars /\ parent' = parent /\ pc' = [pc EXCEPT ![p] = l]
    BY <1>1, <1>11, <2>1 DEF WaitAllDone, Goto, TypeOK, treevars
  <2>3. TypeOK'
    BY <1>1, <1>11, <2>1, <2>2 DEF WaitAllDone, TypeOK, tokenvars, treevars, loopvars
  <2>4. /\ pc[p] \notin Gone /\ l \notin Gone
        /\ l \in {"script", "exited"} => cheats[p] = 0
        /\ l = "try" => mytokens[p] = 1
        /\ mytokens[p] < 0 => l \in Owing
    BY <1>1, <1>11, <2>1 DEF WaitAllDone, AfterWaitAll, Standing, TypeOK, Gone
  <2> QED BY <2>2, <2>3, <2>4, FaultMove
<1>12. CASE ExitJob(p)
  <2>1. PICK l \in State : l = "exited"
    BY <1>1, <1>12 DEF ExitJob, TypeOK, State, Redo
  <2>2. UNCHANGED tokenvars /\ parent' = parent /\ pc' = [pc EXCEPT ![p] = l]
    BY <1>1, <1>12, <2>1 DEF ExitJob, Goto, TypeOK, treevars
  <2>3. TypeOK'
    BY <1>1, <1>12, <2>1, <2>2 DEF ExitJob, TypeOK, tokenvars, treevars, loopvars
  <2>4. /\ pc[p] \notin Gone /\ l \notin Gone
        /\ l \in {"script", "exited"} => cheats[p] = 0
        /\ l = "try" => mytokens[p] = 1
        /\ mytokens[p] < 0 => l \in Owing
    BY <1>1, <1>12, <2>1 DEF ExitJob, Standing, TypeOK, Gone
  <2> QED BY <2>2, <2>3, <2>4, FaultMove
<1>13. CASE QuickJob(p)
  <2>1. PICK l \in State : l = IF mode[p] = "build" THEN "waitall" ELSE "next"
    BY <1>1, <1>13 DEF QuickJob, TypeOK, State, Redo
  <2>2. UNCHANGED tokenvars /\ parent' = parent /\ pc' = [pc EXCEPT ![p] = l]
    BY <1>1, <1>13, <2>1 DEF QuickJob, Goto, TypeOK, treevars
  <2>3. TypeOK'
    BY <1>1, <1>13, <2>1, <2>2 DEF QuickJob, TypeOK, tokenvars, treevars, loopvars
  <2>4. /\ pc[p] \notin Gone /\ l \notin Gone
        /\ l \in {"script", "exited"} => cheats[p] = 0
        /\ l = "try" => mytokens[p] = 1
        /\ mytokens[p] < 0 => l \in Owing
    BY <1>1, <1>13, <2>1 DEF QuickJob, Standing, TypeOK, Gone
  <2> QED BY <2>2, <2>3, <2>4, FaultMove
<1>14. CASE DepDone(p)
  <2>1. PICK l \in {"depensure", "next"} : pc' = [pc EXCEPT ![p] = l]
    BY <1>14 DEF DepDone, Goto
  <2>2. UNCHANGED tokenvars /\ parent' = parent /\ pc[p] \notin Gone
    BY <1>14 DEF DepDone, treevars, Gone
  <2>3. TypeOK'
    BY <1>1, <1>14, <2>1 DEF DepDone, TypeOK, tokenvars, treevars, loopvars, State, Redo
  <2>4. ~(mytokens[p] < 0)
    BY <1>1, <1>14 DEF DepDone, Standing
  <2> QED BY <2>1, <2>2, <2>3, <2>4, FaultMove DEF Gone
<1> QED BY <1>2, <1>3, <1>4, <1>5, <1>6, <1>7, <1>8, <1>9, <1>10, <1>11, <1>12, <1>13, <1>14

(* The actions that call release(1) before they wait. *)
LEMMA FaultReleases ==
    ASSUME FaultInv, NEW p \in Proc,
           \/ DeferPool(p) \/ LockWait(p) \/ DepPoolWait(p) \/ BuildPoolWait(p)
           \/ WaitAllRelease(p)
    PROVE  FaultInv'
<1>1. TypeOK /\ Standing(p) /\ mytokens[p] \in {-1, 0, 1}
  BY DEF FaultInv, TypeOK
<1>2. CASE DeferPool(p)
  <2>1. PICK l \in State : l = "next"
    BY <1>1 DEF TypeOK, State, Redo
  <2>2. /\ Release(p) /\ pc' = [pc EXCEPT ![p] = l]
        /\ UNCHANGED <<mode, pass, calls, parent, line>>
    BY <1>1, <1>2, <2>1 DEF DeferPool, Goto, TypeOK, treevars, loopvars
  <2>3. todo' \in [Proc -> Nat] /\ backlog' \in [Proc -> Nat]
    BY <1>1, <1>2 DEF DeferPool, TypeOK, loopvars
  <2>4. /\ pc[p] \notin Gone /\ l \notin Gone /\ l # "try"
        /\ mytokens[p] \in {0, 1} /\ (l \in {"blocked", "depblocked"} \/ mytokens[p] = 1)
    BY <1>1, <1>2, <2>1 DEF DeferPool, Standing, Gone
  <2> QED BY <2>2, <2>3, <2>4, FaultRelease
<1>3. CASE LockWait(p)
  <2>1. PICK l \in State : l = "blocked"
    BY <1>1 DEF TypeOK, State, Redo
  <2>2. /\ Release(p) /\ pc' = [pc EXCEPT ![p] = l]
        /\ UNCHANGED <<mode, pass, calls, parent, line>>
    BY <1>1, <1>3, <2>1 DEF LockWait, Goto, TypeOK, treevars, loopvars
  <2>3. todo' \in [Proc -> Nat] /\ backlog' \in [Proc -> Nat]
    BY <1>1, <1>3 DEF LockWait, TypeOK, loopvars
  <2>4. /\ pc[p] \notin Gone /\ l \notin Gone /\ l # "try"
        /\ mytokens[p] \in {0, 1} /\ (l \in {"blocked", "depblocked"} \/ mytokens[p] = 1)
    BY <1>1, <1>3, <2>1 DEF LockWait, Standing, Gone
  <2> QED BY <2>2, <2>3, <2>4, FaultRelease
<1>4. CASE DepPoolWait(p)
  <2>1. PICK l \in State : l = "depblocked"
    BY <1>1 DEF TypeOK, State, Redo
  <2>2. /\ Release(p) /\ pc' = [pc EXCEPT ![p] = l]
        /\ UNCHANGED <<mode, pass, calls, parent, line>>
    BY <1>1, <1>4, <2>1 DEF DepPoolWait, Goto, TypeOK, treevars, loopvars
  <2>3. todo' \in [Proc -> Nat] /\ backlog' \in [Proc -> Nat]
    BY <1>1, <1>4 DEF DepPoolWait, TypeOK, loopvars
  <2>4. /\ pc[p] \notin Gone /\ l \notin Gone /\ l # "try"
        /\ mytokens[p] \in {0, 1} /\ (l \in {"blocked", "depblocked"} \/ mytokens[p] = 1)
    BY <1>1, <1>4, <2>1 DEF DepPoolWait, Standing, Gone
  <2> QED BY <2>2, <2>3, <2>4, FaultRelease
<1>5. CASE BuildPoolWait(p)
  <2>1. PICK l \in State : l = "blocked"
    BY <1>1 DEF TypeOK, State, Redo
  <2>2. /\ Release(p) /\ pc' = [pc EXCEPT ![p] = l]
        /\ UNCHANGED <<mode, pass, calls, parent, line>>
    BY <1>1, <1>5, <2>1 DEF BuildPoolWait, Goto, TypeOK, treevars, loopvars
  <2>3. todo' \in [Proc -> Nat] /\ backlog' \in [Proc -> Nat]
    BY <1>1, <1>5 DEF BuildPoolWait, TypeOK, loopvars
  <2>4. /\ pc[p] \notin Gone /\ l \notin Gone /\ l # "try"
        /\ mytokens[p] \in {0, 1} /\ (l \in {"blocked", "depblocked"} \/ mytokens[p] = 1)
    BY <1>1, <1>5, <2>1 DEF BuildPoolWait, Standing, Gone
  <2> QED BY <2>2, <2>3, <2>4, FaultRelease
<1>6. CASE WaitAllRelease(p)
  <2>1. PICK l \in State : l = pc[p]
    BY <1>1 DEF TypeOK, State, Redo
  <2>2. /\ Release(p) /\ pc' = [pc EXCEPT ![p] = l]
        /\ UNCHANGED <<mode, pass, calls, parent, line>>
    BY <1>1, <1>6, <2>1 DEF WaitAllRelease, Goto, TypeOK, treevars, loopvars
  <2>3. todo' \in [Proc -> Nat] /\ backlog' \in [Proc -> Nat]
    BY <1>1, <1>6 DEF WaitAllRelease, TypeOK, loopvars
  <2>4. /\ pc[p] \notin Gone /\ l \notin Gone /\ l # "try"
        /\ mytokens[p] \in {0, 1} /\ (l \in {"blocked", "depblocked"} \/ mytokens[p] = 1)
    BY <1>1, <1>6, <2>1 DEF WaitAllRelease, Standing, Gone
  <2> QED BY <2>2, <2>3, <2>4, FaultRelease
<1> QED BY <1>2, <1>3, <1>4, <1>5, <1>6

(* wait_all's self-check of the toplevel command. *)
LEMMA FaultSelfCheck ==
    ASSUME FaultInv, SelfCheck
    PROVE  FaultInv'
<1>1. TypeOK /\ Standing(Top) /\ Top \in Proc /\ mytokens[Top] \in {-1, 0, 1}
  BY JobserverAssumption DEF FaultInv, TypeOK
<1>2. PICK l \in {"dep", "self", "next", "mismatch"} : pc' = [pc EXCEPT ![Top] = l]
  BY DEF SelfCheck, Goto, AfterWaitAll
<1>3. /\ UNCHANGED <<mode, pass, calls, todo, backlog, parent, line>>
      /\ pc[Top] \in {"waitall", "depwait"}
      /\ l \in State /\ l \notin Gone /\ l # "try"
  BY <1>2 DEF SelfCheck, loopvars, treevars, State, Redo, Gone
<1>4. CASE mytokens[Top] >= 1
  <2>1. Release(Top) /\ mytokens[Top] = 1
    BY <1>1, <1>4 DEF SelfCheck
  <2> QED BY <1>1, <1>2, <1>3, <2>1, FaultRelease DEF Gone, TypeOK
<1>5. CASE ~(mytokens[Top] >= 1)
  <2>1. UNCHANGED tokenvars
    BY <1>5 DEF SelfCheck
  <2>2. TypeOK'
    BY <1>1, <1>2, <1>3, <2>1 DEF TypeOK, tokenvars
  <2> QED BY <1>1, <1>2, <1>3, <2>1, <2>2, FaultMove DEF Standing, Gone
<1> QED BY <1>4, <1>5

(* ensure_token_or_cheat gets a token, or makes one up. *)
LEMMA FaultGets ==
    ASSUME FaultInv, NEW p \in Proc, ReadToken(p) \/ Cheat(p)
    PROVE  FaultInv'
<1>1. /\ TypeOK /\ Solvent /\ pc[p] \in Ensuring /\ mytokens[p] \in {-1, 0}
      /\ cheats[p] \in {0, 1} /\ pipe \in Nat
      /\ UNCHANGED <<pc, mode, pass, todo, backlog, calls, parent, line>>
      /\ mytokens' = [mytokens EXCEPT ![p] = mytokens[p] + 1]
  BY DEF FaultInv, TypeOK, ReadToken, Cheat, loopvars, treevars
<1>2. \A q : Kids(q)' = Kids(q)
  BY <1>1 DEF Kids
<1>3. CASE ReadToken(p)
  <2>1. pipe' = pipe - 1 /\ pipe > 0 /\ cheats' = cheats
    BY <1>3 DEF ReadToken
  <2>2. TypeOK'
    BY <1>1, <2>1 DEF TypeOK
  <2>3. mytokens'[p] = mytokens[p] + 1 /\ \A q \in Proc \ {p} : mytokens'[q] = mytokens[q]
    BY <1>1 DEF TypeOK
  <2>4. pipe' + mytokens'[p] - cheats'[p] >= pipe + mytokens[p] - cheats[p]
    BY <1>1, <2>1, <2>3
  <2>5. Solvent'
    BY <1>1, <2>1, <2>2, <2>3, <2>4, StillSolvent
  <2>6. \A q \in Proc : Standing(q)'
    BY <1>1, <1>2, <2>1 DEF FaultInv, Standing, TypeOK
  <2> QED BY <2>2, <2>5, <2>6 DEF FaultInv
<1>4. CASE Cheat(p)
  <2>1. mytokens[p] = 0 /\ Kids(p) = {} /\ pipe' = pipe
    BY <1>4 DEF Cheat
  <2>2. cheats[p] = 0
    BY <1>1, <2>1 DEF FaultInv, Standing
  <2>3. cheats' = [cheats EXCEPT ![p] = 1]
    BY <1>4, <2>2 DEF Cheat
  <2>4. TypeOK'
    BY <1>1, <2>1, <2>3 DEF TypeOK
  <2>5. /\ mytokens'[p] = 1 /\ cheats'[p] = 1
        /\ \A q \in Proc \ {p} : mytokens'[q] = mytokens[q] /\ cheats'[q] = cheats[q]
    BY <1>1, <2>1, <2>3 DEF TypeOK
  <2>6. pipe' + mytokens'[p] - cheats'[p] >= pipe + mytokens[p] - cheats[p]
    BY <1>1, <2>1, <2>2, <2>5
  <2>7. Solvent'
    BY <1>1, <2>4, <2>5, <2>6, StillSolvent
  <2>8. \A q \in Proc : Standing(q)'
    BY <1>1, <1>2, <2>1, <2>3 DEF FaultInv, Standing, TypeOK, Gone
  <2> QED BY <2>4, <2>7, <2>8 DEF FaultInv
<1> QED BY <1>3, <1>4

(* A command ends, well or early, and its CHEATS with it; jobs that an     *)
(* early return leaves behind are nobody's.                                *)
LEMMA FaultEnds ==
    ASSUME FaultInv, NEW p \in Proc, Return(p) \/ EarlyReturn(p)
    PROVE  FaultInv'
<1>1. PICK l \in {"done", "script"} : pc' = [pc EXCEPT ![p] = l]
  BY DEF Return, EarlyReturn, EndCommand, Goto
<1>2. /\ TypeOK /\ Solvent /\ cheats[p] \in {0, 1} /\ pipe \in Nat /\ mytokens[p] \in Int
      /\ cheats' = [cheats EXCEPT ![p] = 0]
      /\ UNCHANGED <<pipe, mytokens, mode, pass, todo, backlog, calls, line>>
      /\ pc[p] \in {"next", "self", "try"}
  BY DEF FaultInv, TypeOK, Return, EarlyReturn, EndCommand, loopvars
<1>3. /\ parent' \in [Proc -> Proc \cup {NoProc}]
      /\ \A c \in Proc : parent'[c] = parent[c] \/ (parent[c] = p /\ parent'[c] = NoProc)
  BY <1>2 DEF Return, EarlyReturn, TypeOK
<1>4. TypeOK'
  BY <1>1, <1>2, <1>3 DEF TypeOK, State, Redo
<1>5. Solvent'
  <2>1. cheats'[p] = 0 /\ \A q \in Proc \ {p} : mytokens'[q] = mytokens[q] /\ cheats'[q] = cheats[q]
    BY <1>2 DEF TypeOK
  <2>2. pipe' + mytokens'[p] - cheats'[p] >= pipe + mytokens[p] - cheats[p]
    BY <1>2, <2>1
  <2> QED BY <1>2, <1>4, <2>1, <2>2, StillSolvent
<1>6. ASSUME NEW q \in Proc PROVE Standing(q)'
  <2>1. CASE q = p
    <3>1. ~(mytokens[p] < 0)
      BY <1>2 DEF FaultInv, Standing
    <3> QED BY <1>1, <1>2, <2>1, <3>1 DEF Standing, TypeOK, Gone
  <2>2. CASE q # p
    <3>1. Kids(q) \subseteq Kids(q)'
      BY <1>1, <1>2, <1>3, <2>2 DEF Kids, TypeOK
    <3> QED BY <1>1, <1>2, <2>2, <3>1 DEF FaultInv, Standing, TypeOK, Gone
  <2> QED BY <2>1, <2>2
<1> QED BY <1>4, <1>5, <1>6 DEF FaultInv

(* A script runs a command, which takes itself to have a token. *)
LEMMA FaultRuns ==
    ASSUME FaultInv, NEW p \in Proc, RunCommand(p)
    PROVE  FaultInv'
<1>1. /\ TypeOK /\ Solvent /\ pipe \in Nat /\ mytokens[p] \in {-1, 0, 1} /\ cheats[p] \in {0, 1}
      /\ mytokens' = [mytokens EXCEPT ![p] = 1]
      /\ UNCHANGED <<pipe, cheats, parent, line>>
      /\ pc[p] = "script" /\ pc' = [pc EXCEPT ![p] = "next"]
  BY DEF FaultInv, TypeOK, RunCommand, Goto, treevars
<1>2. TypeOK'
  BY <1>1 DEF RunCommand, TypeOK, State, Redo, Mode
<1>3. Solvent'
  <2>1. mytokens'[p] = 1 /\ \A q \in Proc \ {p} : mytokens'[q] = mytokens[q] /\ cheats'[q] = cheats[q]
    BY <1>1 DEF TypeOK
  <2>2. pipe' + mytokens'[p] - cheats'[p] >= pipe + mytokens[p] - cheats[p]
    BY <1>1, <2>1
  <2> QED BY <1>1, <1>2, <2>1, <2>2, StillSolvent
<1>4. ASSUME NEW q \in Proc PROVE Standing(q)'
  <2>1. Kids(q)' = Kids(q)
    BY <1>1 DEF Kids, TypeOK
  <2> QED BY <1>1, <2>1 DEF FaultInv, Standing, TypeOK, Gone
<1> QED BY <1>2, <1>3, <1>4 DEF FaultInv

(* jobserver::start. *)
LEMMA FaultForks ==
    ASSUME FaultInv, NEW p \in Proc, NEW c \in Proc, NEW l \in {"next", "waitall", "depwait"},
           Fork(p, c, l)
    PROVE  FaultInv'
<1>1. /\ TypeOK /\ Solvent /\ p # c /\ pc[p] = "try" /\ pc[c] = "absent"
      /\ mytokens[p] = 1 /\ mytokens[c] = 0 /\ pipe \in Nat /\ cheats[p] \in {0, 1}
  BY DEF FaultInv, Fork, Standing, TypeOK
<1>2. /\ mytokens' = [mytokens EXCEPT ![p] = 0, ![c] = 1]
      /\ pc' = [pc EXCEPT ![p] = l, ![c] = "script"]
      /\ parent' = [parent EXCEPT ![c] = p]
      /\ line' = [line EXCEPT ![c] = line[p] \cup {p}]
      /\ UNCHANGED <<pipe, cheats, mode, pass, todo, backlog, calls>>
  BY <1>1 DEF Fork, loopvars
<1>3. TypeOK'
  BY <1>1, <1>2 DEF TypeOK, State, Redo
<1>4. Solvent'
  <2>1. mytokens'[p] = 0 /\ mytokens'[c] = 1 /\ \A q \in Proc \ {p, c} : mytokens'[q] = mytokens[q]
    BY <1>1, <1>2 DEF TypeOK
  <2>2. pipe' + mytokens'[p] + mytokens'[c] - cheats'[p] >= pipe + mytokens[p] + mytokens[c] - cheats[p]
    BY <1>1, <1>2, <2>1
  <2> QED BY <1>1, <1>2, <1>3, <2>1, <2>2, PairSolvent
<1>5. c \in Kids(p)' /\ \A q \in Proc \ {p} : Kids(q)' = Kids(q)
  BY <1>1, <1>2 DEF Kids, TypeOK
<1>6. ASSUME NEW q \in Proc PROVE Standing(q)'
  <2>1. CASE q = p
    <3>1. pc'[p] = l /\ mytokens'[p] = 0 /\ Kids(q)' # {}
      BY <1>1, <1>2, <1>5, <2>1 DEF TypeOK
    <3> QED BY <2>1, <3>1 DEF Standing, Gone
  <2>2. CASE q = c
    <3>1. cheats[c] = 0
      BY <1>1 DEF FaultInv, Standing, Gone
    <3>2. pc'[c] = "script" /\ mytokens'[c] = 1 /\ cheats'[c] = 0
      BY <1>1, <1>2, <3>1 DEF TypeOK
    <3> QED BY <2>2, <3>2 DEF Standing
  <2>3. CASE q # p /\ q # c
    BY <1>1, <1>2, <1>5, <2>3 DEF FaultInv, Standing, TypeOK, Gone
  <2> QED BY <2>1, <2>2, <2>3
<1> QED BY <1>3, <1>4, <1>6 DEF FaultInv

(* wait(): whatever token the job had left, its parent creates one, or is  *)
(* rid of a cheat.                                                         *)
LEMMA FaultReaps ==
    ASSUME FaultInv, NEW p \in Proc, NEW c \in Proc, Reap(p, c)
    PROVE  FaultInv'
<1>1. /\ TypeOK /\ Solvent /\ p # c /\ parent[c] = p /\ pipe \in Nat
      /\ pc[p] \in Ensuring \cup {"waitall", "depwait"} /\ pc[c] = "exited"
      /\ pc' = [pc EXCEPT ![c] = "reaped"]
      /\ mytokens[p] \in {-1, 0, 1} /\ mytokens[c] \in {0, 1} /\ cheats[p] \in {0, 1}
      /\ UNCHANGED <<mode, pass, todo, backlog, calls, parent, line>>
  BY DEF FaultInv, Reap, Goto, Standing, TypeOK, loopvars, treevars
<1>2. /\ mytokens' \in [Proc -> {-1, 0, 1}] /\ cheats' \in [Proc -> {0, 1}] /\ pipe' \in Nat
      /\ mytokens'[c] = 0 /\ cheats'[p] = 0
      /\ \A q \in Proc \ {p, c} : mytokens'[q] = mytokens[q]
      /\ \A q \in Proc \ {p} : cheats'[q] = cheats[q]
      /\ pipe' + mytokens'[p] >= pipe + mytokens[p] - cheats[p] + 1
      /\ mytokens'[p] < 0 => mytokens[p] < 0
  <2>1. CASE cheats[p] = 1
    BY <1>1, <2>1 DEF Reap, TypeOK
  <2>2. CASE cheats[p] = 0 /\ mytokens[p] = 1
    BY <1>1, <2>2 DEF Reap, TypeOK
  <2>3. CASE cheats[p] = 0 /\ mytokens[p] # 1
    <3>1. /\ mytokens' = [mytokens EXCEPT ![c] = 0, ![p] = mytokens[p] + 1]
          /\ cheats' = cheats /\ pipe' = pipe
      BY <1>1, <2>3 DEF Reap, TypeOK
    <3>2. PICK n \in {-1, 0, 1} : n = mytokens[p] + 1
      BY <1>1, <2>3
    <3>3. mytokens' = [mytokens EXCEPT ![c] = 0, ![p] = n]
      BY <3>1, <3>2
    <3> QED BY <1>1, <2>3, <3>1, <3>2, <3>3 DEF TypeOK
  <2> QED BY <1>1, <2>1, <2>2, <2>3
<1>3. TypeOK'
  BY <1>1, <1>2 DEF TypeOK, State
<1>5. Solvent'
  <2>1. pipe' + mytokens'[p] + mytokens'[c] - cheats'[p] >= pipe + mytokens[p] + mytokens[c] - cheats[p]
    BY <1>1, <1>2
  <2> QED BY <1>1, <1>2, <1>3, <2>1, PairSolvent
<1>6. \A q \in Proc \ {p} : Kids(q)' = Kids(q)
  BY <1>1 DEF Kids, TypeOK
<1>7. ASSUME NEW q \in Proc PROVE Standing(q)'
  <2>1. CASE q = p
    <3>1. mytokens'[p] < 0 => pc[p] \in {"ensure", "depensure"}
      BY <1>1, <1>2 DEF FaultInv, Standing
    <3>2. pc'[p] = pc[p] /\ cheats'[p] = 0
      BY <1>1, <1>2 DEF TypeOK
    <3> QED BY <1>1, <2>1, <3>1, <3>2 DEF Standing, Gone
  <2>2. CASE q = c
    <3>1. cheats[c] = 0
      BY <1>1 DEF FaultInv, Standing, Gone
    <3>2. pc'[c] = "reaped" /\ mytokens'[c] = 0 /\ cheats'[c] = 0
      BY <1>1, <1>2, <3>1 DEF TypeOK
    <3> QED BY <2>2, <3>2 DEF Standing
  <2>3. CASE q # p /\ q # c
    BY <1>1, <1>2, <1>6, <2>3 DEF FaultInv, Standing, TypeOK, Gone
  <2> QED BY <2>1, <2>2, <2>3
<1> QED BY <1>3, <1>5, <1>7 DEF FaultInv

LEMMA FaultInit == Init => FaultInv
<1> SUFFICES ASSUME Init PROVE FaultInv
  OBVIOUS
<1>1. TypeOK
  BY JobserverAssumption DEF Init, TypeOK, State, Redo, Mode
<1>2. \A p \in Proc : Standing(p)
  BY JobserverAssumption DEF Init, Standing, Gone
<1>3. Solvent
  <2>1. /\ {p \in Proc : mytokens[p] = 1} = {Top}
        /\ {p \in Proc : mytokens[p] = -1} = {}
        /\ {p \in Proc : cheats[p] = 1} = {}
    BY JobserverAssumption DEF Init
  <2>2. Count(mytokens, 1) = 1 /\ Count(mytokens, -1) = 0 /\ Count(cheats, 1) = 0
    BY <2>1, FS_Singleton, FS_EmptySet DEF Count
  <2>3. pipe = MaxJobs - 1
    BY DEF Init
  <2> QED BY <2>2, <2>3, JobserverAssumption DEF Solvent, Held
<1> QED BY <1>1, <1>2, <1>3 DEF FaultInv

LEMMA FaultNext == FaultInv /\ [Next]_vars => FaultInv'
<1> SUFFICES ASSUME FaultInv, [Next]_vars PROVE FaultInv'
  OBVIOUS
<1>1. ASSUME NEW p \in Proc, Step(p) PROVE FaultInv'
  <2>1. CASE \/ EnsureDone(p) \/ NextTarget(p) \/ EndPass1(p) \/ Pass2(p) \/ Skip(p)
             \/ PushLocked(p) \/ Unblock(p) \/ BuildSkip(p) \/ BuildOne(p)
             \/ WaitAllDone(p) \/ DepDone(p) \/ ExitJob(p) \/ QuickJob(p)
    BY <2>1, FaultMoves
  <2>2. CASE \/ DeferPool(p) \/ LockWait(p) \/ DepPoolWait(p) \/ BuildPoolWait(p)
             \/ WaitAllRelease(p)
    BY <2>2, FaultReleases
  <2>3. CASE ReadToken(p) \/ Cheat(p)
    BY <2>3, FaultGets
  <2>4. CASE Return(p) \/ EarlyReturn(p)
    BY <2>4, FaultEnds
  <2>5. CASE RunCommand(p)
    BY <2>5, FaultRuns
  <2>6. ASSUME NEW c \in Proc, Start(p, c) \/ StartDep(p, c) PROVE FaultInv'
    <3>1. PICK l \in {"next", "waitall", "depwait"} : Fork(p, c, l)
      BY <2>6 DEF Start, StartDep
    <3> QED BY <3>1, FaultForks
  <2>7. ASSUME NEW c \in Proc, Reap(p, c) PROVE FaultInv'
    BY <2>7, FaultReaps
  <2> QED BY <1>1, <2>1, <2>2, <2>3, <2>4, <2>5, <2>6, <2>7
          DEF Step, Ensure, Loop, Wait, Build, WaitAll, Life
<1>2. CASE SelfCheck
  BY <1>2, FaultSelfCheck
<1>3. CASE UNCHANGED vars
  <2>1. TypeOK'
    BY <1>3 DEF FaultInv, TypeOK, vars
  <2>2. Solvent'
    BY <1>3 DEF FaultInv, Solvent, Held, Count, vars
  <2>3. \A q \in Proc : Standing(q)'
    BY <1>3 DEF FaultInv, Standing, Kids, vars
  <2> QED BY <2>1, <2>2, <2>3 DEF FaultInv
<1> QED BY <1>1, <1>2, <1>3 DEF Next

(* Whatever cheats and early returns there are, MYTOKENS stays within      *)
(* -1..1 and CHEATS within 0..1.                                           *)
THEOREM TypeCorrect == Spec => []TypeOK
<1>1. FaultInv => TypeOK
  BY DEF FaultInv
<1> QED BY <1>1, FaultInit, FaultNext, PTL DEF Spec

(* No cheat and no error return of run_ifchange ever costs a token.        *)
THEOREM CheatsCostNothing == Spec => []NoTokenLost
<1>1. FaultInv => NoTokenLost
  <2> SUFFICES ASSUME FaultInv PROVE NoTokenLost
    OBVIOUS
  <2>1. Cardinality(Holders) = Count(mytokens, 1) /\ Cardinality(Debtors) = Count(mytokens, -1)
    BY DEF Holders, Debtors, Count
  <2>2. Cardinality(Cheaters) = Count(cheats, 1)
    BY DEF Cheaters, Count
  <2>3. pipe \in Nat /\ Count(mytokens, 1) \in Nat /\ Count(mytokens, -1) \in Nat
    BY <2>1, FiniteCounts DEF FaultInv, TypeOK
  <2>4. Cheaters \subseteq Proc
    BY DEF Cheaters
  <2>5. Count(cheats, 1) \in Nat
    BY <2>2, <2>4, FS_Subset, FS_CardinalityType, JobserverAssumption
  <2>6. pipe + (Count(mytokens, 1) - Count(mytokens, -1)) >= MaxJobs + Count(cheats, 1)
    BY DEF FaultInv, Solvent, Held
  <2> QED BY <2>1, <2>2, <2>3, <2>5, <2>6, JobserverAssumption DEF NoTokenLost
<1> QED BY <1>1, FaultInit, FaultNext, PTL DEF Spec

=============================================================================
