-------------------------- MODULE Scheduler_proofs --------------------------
(***************************************************************************)
(* Proofs about the target locks, pool slots and results of one run of     *)
(* redo, for every source tree, every -j and every interleaving.           *)
(***************************************************************************)
EXTENDS Scheduler, FiniteSetTheorems, SequenceTheorems, TLAPS

-----------------------------------------------------------------------------
(* Paths. *)
LEMMA AppendFacts ==
    ASSUME NEW p \in Seq(Target), NEW t \in Target
    PROVE  /\ Append(p, t) \in Seq(Target)
           /\ Append(p, t) # p /\ Append(p, t) # Top
           /\ Len(Append(p, t)) = Len(p) + 1
           /\ \A q \in Seq(Target), u \in Target : Append(p, t) = Append(q, u) => p = q /\ t = u
<1>1. /\ Append(p, t) \in Seq(Target) /\ Len(Append(p, t)) = Len(p) + 1
      /\ \A i \in 1..Len(p) : Append(p, t)[i] = p[i]
      /\ Append(p, t)[Len(p) + 1] = t
  OBVIOUS
<1>2. Append(p, t) # p /\ Append(p, t) # Top
  BY <1>1 DEF Top
<1>3. ASSUME NEW q \in Seq(Target), NEW u \in Target, Append(p, t) = Append(q, u)
      PROVE  p = q /\ t = u
  <2>1. /\ Len(Append(q, u)) = Len(q) + 1
        /\ \A i \in 1..Len(q) : Append(q, u)[i] = q[i]
        /\ Append(q, u)[Len(q) + 1] = u
    OBVIOUS
  <2>2. Len(p) = Len(q)
    BY <1>1, <1>3, <2>1
  <2>3. \A i \in 1..Len(p) : p[i] = q[i]
    BY <1>1, <1>3, <2>1, <2>2
  <2> QED BY <1>1, <1>3, <2>1, <2>2, <2>3, SeqEqual
<1> QED BY <1>1, <1>2, <1>3

LEMMA PathsDiffer ==
    \A p, q \in Seq(Target), t, u \in Target : Append(p, t) = Append(q, u) => p = q /\ t = u
BY AppendFacts

(* What it is to be a prefix, position by position. *)
LEMMA PrefixFacts ==
    ASSUME NEW p \in Seq(Target), NEW q \in Seq(Target)
    PROVE  IsPrefix(p, q) <=> Len(p) <= Len(q) /\ \A i \in 1..Len(p) : p[i] = q[i]
<1>1. SubSeq(p, 1, Len(p)) = p
  BY SubSeqFull
<1>2. ASSUME Len(p) <= Len(q)
      PROVE  /\ SubSeq(q, 1, Len(p)) \in Seq(Target) /\ Len(SubSeq(q, 1, Len(p))) = Len(p)
             /\ \A i \in 1..Len(p) : SubSeq(q, 1, Len(p))[i] = q[i]
  <2>1. \A i \in 1..Len(p) : q[i] \in Target
    BY <1>2
  <2>2. Len(p) \in Nat
    OBVIOUS
  <2>3. /\ SubSeq(q, 1, Len(p)) \in Seq(Target)
        /\ Len(SubSeq(q, 1, Len(p))) = IF 1 <= Len(p) THEN Len(p) - 1 + 1 ELSE 0
        /\ \A i \in 1..(Len(p) - 1 + 1) : SubSeq(q, 1, Len(p))[i] = q[1 + i - 1]
    BY <2>1, <2>2, SubSeqProperties
  <2> QED BY <2>2, <2>3
<1>3. ASSUME Len(p) <= Len(q), \A i \in 1..Len(p) : p[i] = q[i] PROVE SubSeq(q, 1, Len(p)) = p
  BY <1>2, <1>3, SeqEqual
<1> QED BY <1>1, <1>2, <1>3 DEF IsPrefix

(* The prefixes of a path and of its parent. *)
LEMMA PrefixAppend ==
    ASSUME NEW p \in Seq(Target), NEW q \in Seq(Target), NEW t \in Target
    PROVE  /\ IsPrefix(p, p)
           /\ IsPrefix(p, Append(q, t)) <=> IsPrefix(p, q) \/ p = Append(q, t)
           /\ ~IsPrefix(Append(p, t), p)
           /\ IsPrefix(p, q) /\ Len(q) = Len(p) + 1 => \E u \in Target : q = Append(p, u)
<1>1. IsPrefix(p, p)
  BY PrefixFacts
<1>2. ~IsPrefix(Append(p, t), p)
  <2>1. Append(p, t) \in Seq(Target) /\ Len(Append(p, t)) = Len(p) + 1 /\ Len(p) \in Nat
    OBVIOUS
  <2>2. IsPrefix(Append(p, t), p) => Len(Append(p, t)) <= Len(p)
    BY DEF IsPrefix
  <2> QED BY <2>1, <2>2
<1>a. /\ Append(q, t) \in Seq(Target) /\ Len(Append(q, t)) = Len(q) + 1
      /\ \A i \in 1..Len(q) : Append(q, t)[i] = q[i]
  OBVIOUS
<1>3. ASSUME IsPrefix(p, q) \/ p = Append(q, t) PROVE IsPrefix(p, Append(q, t))
  <2>1. CASE IsPrefix(p, q)
    <3>1. Len(p) <= Len(q) /\ \A i \in 1..Len(p) : p[i] = q[i]
      BY <2>1, PrefixFacts
    <3>2. Len(p) <= Len(Append(q, t)) /\ \A i \in 1..Len(p) : p[i] = Append(q, t)[i]
      BY <3>1, <1>a
    <3> QED BY <3>2, <1>a, PrefixFacts
  <2>2. CASE p = Append(q, t)
    BY <1>1, <2>2
  <2> QED BY <1>3, <2>1, <2>2
<1>4. ASSUME IsPrefix(p, Append(q, t)) PROVE IsPrefix(p, q) \/ p = Append(q, t)
  <2>1. Len(p) <= Len(q) + 1 /\ \A i \in 1..Len(p) : p[i] = Append(q, t)[i]
    BY <1>4, <1>a, PrefixFacts
  <2>2. CASE Len(p) = Len(q) + 1
    BY <2>1, <2>2, <1>a, SeqEqual
  <2>3. CASE Len(p) # Len(q) + 1
    BY <2>1, <2>3, <1>a, PrefixFacts
  <2> QED BY <2>2, <2>3
<1>5. ASSUME IsPrefix(p, q), Len(q) = Len(p) + 1 PROVE \E u \in Target : q = Append(p, u)
  <2>1. \A i \in 1..Len(p) : p[i] = q[i]
    BY <1>5, PrefixFacts
  <2> DEFINE u == q[Len(q)]
  <2>2. u \in Target
    BY <1>5
  <2>3. /\ Append(p, u) \in Seq(Target) /\ Len(Append(p, u)) = Len(p) + 1
        /\ \A i \in 1..Len(p) : Append(p, u)[i] = p[i]
        /\ Append(p, u)[Len(p) + 1] = u
    BY <2>2
  <2>4. \A i \in 1..Len(q) : q[i] = Append(p, u)[i]
    BY <1>5, <2>1, <2>3
  <2>5. q = Append(p, u)
    BY <1>5, <2>3, <2>4, SeqEqual
  <2> QED BY <2>2, <2>5
<1> QED BY <1>1, <1>2, <1>3, <1>4, <1>5

(* Every path but the toplevel command's is a job's. *)
LEMMA PathParent ==
    ASSUME NEW q \in Seq(Target), q # Top
    PROVE  \E p \in Seq(Target), t \in Target : q = Append(p, t)
<1>1. Len(q) \in Nat \ {0}
  <2>1. Len(q) = 0 => q = <<>>
    BY EmptySeq
  <2> QED BY <2>1 DEF Top
<1>2. PICK n \in Nat : Len(q) = n + 1
  <2>1. Len(q) - 1 \in Nat /\ Len(q) = (Len(q) - 1) + 1
    BY <1>1
  <2> QED BY <2>1
<1>3. \A i \in 1..n : q[i] \in Target
  BY <1>2
<1>4. /\ SubSeq(q, 1, n) \in Seq(Target)
      /\ Len(SubSeq(q, 1, n)) = IF 1 <= n THEN n - 1 + 1 ELSE 0
      /\ \A i \in 1..(n - 1 + 1) : SubSeq(q, 1, n)[i] = q[1 + i - 1]
  BY <1>2, <1>3, SubSeqProperties
<1>5. PICK p \in Seq(Target) : p = SubSeq(q, 1, n)
  BY <1>4
<1>6. Len(p) = n
  BY <1>4, <1>5
<1>7. \A i \in 1..Len(p) : p[i] = q[i]
  BY <1>4, <1>5, <1>6
<1>8. IsPrefix(p, q) /\ Len(q) = Len(p) + 1
  BY <1>2, <1>6, <1>7, PrefixFacts
<1>9. q[1] \in Target
  BY <1>1
<1> QED BY <1>8, <1>9, PrefixAppend

(* redo-unlocked's list is a sequence of the targets it is made from. *)
LEMMA SetToSeqFacts ==
    ASSUME NEW S \in SUBSET Target
    PROVE  SetToSeq(S) \in Seq(S) /\ Range(SetToSeq(S)) = S /\ IsInjective(SetToSeq(S))
<1>1. IsFiniteSet(S)
  BY SchedulerAssumption, FS_Subset
<1>2. Cardinality(S) \in Nat /\ ExistsBijection(1..Cardinality(S), S)
  BY <1>1, FS_CardinalityType
<1>3. PICK f \in [1..Cardinality(S) -> S] : IsInjective(f)
  BY <1>2 DEF ExistsBijection, Bijection, Injection
<1>4. SetToSeq(S) \in [1..Cardinality(S) -> S] /\ IsInjective(SetToSeq(S))
  BY <1>3 DEF SetToSeq
<1>5. SetToSeq(S) \in Seq(S)
  BY <1>2, <1>4, SeqDef
<1>6. Range(SetToSeq(S)) = S
  <2>1. SetToSeq(S) \in Injection(1..Cardinality(S), S)
    BY <1>4 DEF Injection
  <2>2. IsFiniteSet(1..Cardinality(S)) /\ Cardinality(1..Cardinality(S)) = Cardinality(S)
    BY <1>2, FS_Interval
  <2>3. SetToSeq(S) \in Surjection(1..Cardinality(S), S)
    BY <1>1, <2>1, <2>2, FS_Injection
  <2> QED BY <1>4, <2>3 DEF Surjection, Range
<1> QED BY <1>4, <1>5, <1>6

-----------------------------------------------------------------------------
(* The records of processes, and the jobs below a process. *)
Proc == [job : {"top", "redo", "do", "oob"}, tgt : Target \cup {None},
         cmd : {"ifchange", "redo", "unlocked", "spawn"},
         pc : {"next", "loop", "waitall", "self", "lockwait", "gotlock", "relock",
               "spawn", "end", "own", "poolwait", "bstart", "exited"},
         todo : Seq(Target), locked : Seq(Target), blocked : Seq(Target),
         cur : Target \cup {None}, my : Int, rc : 0..2, got : 0..1, cyc : SUBSET Target]

Jobs(p) == {t \in Target : Append(p, t) \in DOMAIN ps}
Scripts(p) == {t \in Jobs(p) : ps[Append(p, t)].job = "do"}

(* The processes form a tree below the toplevel command. *)
Tree ==
    /\ DOMAIN ps \subseteq Seq(Target) /\ ps \in [DOMAIN ps -> Proc]
    /\ Top \in DOMAIN ps /\ ps[Top].job = "top"
    /\ \A p \in Seq(Target), t \in Target : Append(p, t) \in DOMAIN ps => p \in DOMAIN ps

(* Everything else that steps change. *)
Shared ==
    /\ graph \in DOMAIN Graphs
    /\ pipe \in Int
    /\ owner \in [Target -> (DOMAIN ps) \cup {None}]
    /\ slot \subseteq (DOMAIN ps) \X Pooled
    /\ IsFiniteSet(slot) /\ Cardinality(slot) <= Depth
    /\ st \in [Target -> Verdicts]
    /\ starts \in [Target -> Nat]

(* Which steps a command takes, and what it keeps. *)
Shape(r) ==
    /\ r.pc \in {"loop", "self", "lockwait", "gotlock", "relock"} => r.cmd = "ifchange"
    /\ r.pc \in {"own", "poolwait", "bstart"} => r.cmd \in {"redo", "unlocked"} /\ r.todo # <<>>
    /\ r.pc = "waitall" /\ r.cmd \in {"redo", "unlocked"} => r.todo # <<>>
    /\ r.pc = "end" => r.cmd \in {"ifchange", "spawn"}
    /\ r.pc = "spawn" => r.cmd = "spawn" /\ r.todo # <<>>
    /\ r.pc \in {"lockwait", "gotlock", "relock"} => r.cur \in Target
    /\ r.cmd = "spawn" => r.job = "top"
    /\ r.cmd = "unlocked" => r.job = "oob" /\ (r.todo # <<>> => r.todo = <<r.tgt>>)
    /\ r.job = "oob" => r.cmd \in {"ifchange", "unlocked"}
    /\ r.cmd \in {"ifchange", "spawn"} => IsInjective(r.todo)
    /\ r.cmd = "ifchange" /\ r.pc \notin {"next", "exited"} => r.todo = <<>>

(* A command in a state r that has jobs for the targets J.  It has none    *)
(* while it blocks, and one at most if it is redo; only an early return    *)
(* leaves jobs behind.                                                     *)
Quiet(r) == \/ r.pc \in {"self", "lockwait", "gotlock", "relock", "end", "own", "poolwait", "bstart"}
            \/ r.cmd \in {"redo", "unlocked"} /\ r.pc = "next"
Fits(r, J) ==
    /\ Quiet(r) => J = {}
    /\ r.cmd \in {"redo", "unlocked"} => \A t \in J : t = Head(r.todo)
    /\ r.cmd \in {"ifchange", "spawn"} /\ r.pc \in {"next", "spawn"} => Range(r.todo) \cap J = {}
    /\ r.pc = "exited" /\ J # {} => r.cmd = "ifchange" /\ r.rc # 0

(* The jobs that a command forks. *)
Kinds(cmd) == IF cmd = "spawn" THEN {"redo"} ELSE IF cmd = "ifchange" THEN {"do", "oob"} ELSE {"do"}
KidsOK(p) == \A t \in Jobs(p) : /\ ps[Append(p, t)].tgt = t
                                /\ ps[Append(p, t)].job \in Kinds(ps[p].cmd)

(* The locks and slots a command in state r holds, with jobs for J, of     *)
(* which D are scripts.                                                    *)
Owns(r, J, t) ==
    /\ r.pc # "exited"
    /\ \/ r.cmd = "ifchange" /\ (t \in J \/ (r.pc = "gotlock" /\ r.cur = t))
       \/ r.cmd = "redo" /\ r.pc \in {"own", "poolwait", "bstart", "waitall"} /\ t = Head(r.todo)
Uses(r, D, t) ==
    /\ r.pc # "exited"
    /\ \/ r.cmd = "ifchange" /\ t \in D
       \/ r.cmd \in {"redo", "unlocked"} /\ r.pc \in {"bstart", "waitall"} /\ t = Head(r.todo)

LocksOK(p) == \A t \in Target : owner[t] = p <=> Owns(ps[p], Jobs(p), t)
SlotsOK(p) == \A t \in Pooled : <<p, t>> \in slot <=> Uses(ps[p], Scripts(p), t)

ProcOK(p) == Shape(ps[p]) /\ Fits(ps[p], Jobs(p)) /\ KidsOK(p) /\ LocksOK(p) /\ SlotsOK(p)

TreeInv == Tree /\ Shared /\ \A p \in DOMAIN ps : ProcOK(p)


-----------------------------------------------------------------------------
(* The graph's parts have their types. *)
LEMMA GraphTypes ==
    ASSUME graph \in DOMAIN Graphs
    PROVE  /\ Roots \in Seq(Target) /\ IsInjective(Roots)
           /\ Args \in [Target -> Seq(Target)]
           /\ \A t \in Target \ UsesRedo : IsInjective(Args[t])
           /\ Pooled \subseteq Target /\ Depth \in Nat \ {0}
           /\ \A t \in Target : OobDeps[t] \in {{}, Range(Args[t])}
BY SchedulerAssumption DEF Roots, Args, UsesRedo, Pooled, Depth, OobDeps

LEMMA NoneFresh == None \notin Target /\ None \notin Seq(Target)
BY SchedulerAssumption

(* The jobs of a process, by path and by target. *)
LEMMA KidsAre ==
    ASSUME Tree, NEW p \in DOMAIN ps
    PROVE  /\ Kids(p) = {Append(p, t) : t \in Jobs(p)}
           /\ Kids(p) = {} <=> Jobs(p) = {}
<1>1. p \in Seq(Target) /\ DOMAIN ps \subseteq Seq(Target)
  BY DEF Tree
<1>2. ASSUME NEW q \in Kids(p) PROVE \E t \in Jobs(p) : q = Append(p, t)
  <2>1. q \in Seq(Target) /\ q \in DOMAIN ps /\ IsPrefix(p, q) /\ Len(q) = Len(p) + 1
    BY <1>1 DEF Kids
  <2>2. PICK u \in Seq(Target), v \in Target : q = Append(u, v)
    <3>1. Len(p) \in Nat /\ Len(Top) = 0
      BY <1>1 DEF Top
    <3>2. q # Top
      BY <2>1, <3>1
    <3> QED BY <2>1, <3>2, PathParent
  <2>3. \E t \in Target : q = Append(p, t)
    BY <1>1, <2>1, <2>2, PrefixAppend
  <2> QED BY <2>1, <2>3 DEF Jobs
<1>3. ASSUME NEW t \in Jobs(p) PROVE Append(p, t) \in Kids(p)
  <2>1. t \in Target /\ Append(p, t) \in DOMAIN ps
    BY DEF Jobs
  <2>2. Len(Append(p, t)) = Len(p) + 1 /\ IsPrefix(p, Append(p, t))
    BY <1>1, <2>1, AppendFacts, PrefixAppend
  <2> QED BY <2>1, <2>2 DEF Kids
<1> QED BY <1>2, <1>3

(* A step that changes one process, and locks and slots of that process.   *)
LEMMA PutStep ==
    ASSUME TreeInv, Shared', graph' = graph,
           NEW p \in DOMAIN ps, NEW r \in Proc, Put(p, r),
           r.job = ps[p].job, r.tgt = ps[p].tgt, r.cmd = ps[p].cmd \/ Jobs(p) = {},
           Shape(r), Fits(r, Jobs(p)),
           \A t \in Target : owner'[t] = p <=> Owns(r, Jobs(p), t),
           \A t \in Target, q \in DOMAIN ps : q # p => (owner'[t] = q <=> owner[t] = q),
           \A t \in Pooled : <<p, t>> \in slot' <=> Uses(r, Scripts(p), t),
           \A t \in Pooled, q \in DOMAIN ps : q # p => (<<q, t>> \in slot' <=> <<q, t>> \in slot)
    PROVE  TreeInv'
<1>1. DOMAIN ps' = DOMAIN ps /\ ps'[p] = r /\ \A q \in DOMAIN ps : q # p => ps'[q] = ps[q]
  BY DEF Put
<1>2. Tree'
  BY <1>1 DEF TreeInv, Tree, Put
<1>3. Pooled' = Pooled
  BY DEF Pooled
<1>4. \A q \in DOMAIN ps : Jobs(q)' = Jobs(q)
  BY <1>1 DEF Jobs
<1>5. \A q \in DOMAIN ps : ps'[q].job = ps[q].job /\ ps'[q].tgt = ps[q].tgt
  BY <1>1
<1>6. \A q \in DOMAIN ps : Scripts(q)' = Scripts(q)
  BY <1>4, <1>5 DEF Scripts, Jobs
<1>7. ASSUME NEW q \in DOMAIN ps PROVE KidsOK(q)'
  <2>1. KidsOK(q)
    BY DEF TreeInv, ProcOK
  <2>2. Jobs(q)' = {} \/ ps'[q].cmd = ps[q].cmd
    BY <1>1, <1>4
  <2>3. ASSUME NEW t \in Jobs(q)
        PROVE  /\ Append(q, t) \in DOMAIN ps
               /\ ps'[Append(q, t)].job = ps[Append(q, t)].job
               /\ ps'[Append(q, t)].tgt = ps[Append(q, t)].tgt
    BY <1>5 DEF Jobs
  <2> QED BY <1>4, <2>1, <2>2, <2>3 DEF KidsOK
<1>8. ProcOK(p)'
  <2>1. Shape(ps[p])' /\ Fits(ps[p], Jobs(p))'
    BY <1>1, <1>4
  <2>2. LocksOK(p)' /\ SlotsOK(p)'
    BY <1>1, <1>3, <1>4, <1>6 DEF LocksOK, SlotsOK
  <2> QED BY <1>7, <2>1, <2>2 DEF ProcOK
<1>9. ASSUME NEW q \in DOMAIN ps, q # p PROVE ProcOK(q)'
  <2>1. ProcOK(q)
    BY DEF TreeInv
  <2>2. Shape(ps[q])' /\ Fits(ps[q], Jobs(q))'
    BY <1>1, <1>4, <1>9, <2>1 DEF ProcOK
  <2>3. LocksOK(q)' /\ SlotsOK(q)'
    BY <1>1, <1>3, <1>4, <1>6, <1>9, <2>1 DEF LocksOK, SlotsOK, ProcOK
  <2> QED BY <1>7, <2>2, <2>3 DEF ProcOK
<1> QED BY <1>1, <1>2, <1>8, <1>9 DEF TreeInv


(* A step that forks a job k for t, with a lock and a slot of p. *)
Forked(p, r, t, k) ==
    ps' = [q \in DOMAIN ps \cup {Append(p, t)} |->
             IF q = Append(p, t) THEN k ELSE IF q = p THEN r ELSE ps[q]]

LEMMA ForkStep ==
    ASSUME TreeInv, Shared', graph' = graph,
           NEW p \in DOMAIN ps, NEW r \in Proc, NEW t \in Target, NEW k \in Proc, t \notin Jobs(p),
           Forked(p, r, t, k),
           r.job = ps[p].job, r.tgt = ps[p].tgt, r.cmd = ps[p].cmd,
           Shape(r), Fits(r, Jobs(p) \cup {t}),
           k.tgt = t, k.job \in Kinds(r.cmd), k.pc = "next", Shape(k),
           \A u \in Target : owner'[u] \in DOMAIN ps \cup {None},
           \A u \in Target : owner'[u] = p <=> Owns(r, Jobs(p) \cup {t}, u),
           \A u \in Target, q \in DOMAIN ps : q # p => (owner'[u] = q <=> owner[u] = q),
           slot' \subseteq (DOMAIN ps) \X Pooled,
           \A u \in Pooled : <<p, u>> \in slot'
              <=> Uses(r, IF k.job = "do" THEN Scripts(p) \cup {t} ELSE Scripts(p), u),
           \A u \in Pooled, q \in DOMAIN ps : q # p => (<<q, u>> \in slot' <=> <<q, u>> \in slot)
    PROVE  TreeInv'
<1> DEFINE c == Append(p, t)
<1>0. /\ p \in Seq(Target) /\ DOMAIN ps \subseteq Seq(Target) /\ ps \in [DOMAIN ps -> Proc]
      /\ Top \in DOMAIN ps /\ ps[Top].job = "top"
      /\ \A q \in Seq(Target), u \in Target : Append(q, u) \in DOMAIN ps => q \in DOMAIN ps
  BY DEF TreeInv, Tree
<1>1. c \in Seq(Target) /\ c \notin DOMAIN ps /\ c # p /\ c # Top
  BY <1>0, AppendFacts DEF Jobs
<1>2. \A q \in Seq(Target), u \in Target : Append(q, u) = c => q = p /\ u = t
  <2>1. \A q \in Seq(Target), u \in Target : Append(p, t) = Append(q, u) => p = q /\ t = u
    BY <1>0, PathsDiffer
  <2> QED BY <2>1 DEF c
<1> HIDE DEF c
<1>3. /\ DOMAIN ps' = DOMAIN ps \cup {c} /\ ps'[c] = k /\ ps'[p] = r
      /\ \A q \in DOMAIN ps : q # p => ps'[q] = ps[q]
  BY <1>1 DEF Forked, c
<1>4. Tree'
  <2>1. ps' \in [DOMAIN ps' -> Proc]
    BY <1>0, <1>1, <1>3 DEF Forked, c
  <2>2. ps'[Top].job = "top"
    BY <1>0, <1>3
  <2>3. \A q \in Seq(Target), u \in Target : Append(q, u) \in DOMAIN ps' => q \in DOMAIN ps'
    <3>1. ASSUME NEW q \in Seq(Target), NEW u \in Target, Append(q, u) \in DOMAIN ps'
          PROVE  q \in DOMAIN ps'
      <4>1. CASE Append(q, u) = c
        BY <1>2, <1>3, <4>1
      <4>2. CASE Append(q, u) \in DOMAIN ps
        BY <1>0, <1>3, <4>2
      <4> QED BY <1>3, <3>1, <4>1, <4>2
    <3> QED BY <3>1
  <2> QED BY <1>0, <1>1, <1>3, <2>1, <2>2, <2>3 DEF Tree
<1>5. Pooled' = Pooled
  BY DEF Pooled
<1>6. /\ \A q \in DOMAIN ps : q # p => Jobs(q)' = Jobs(q)
      /\ Jobs(p)' = Jobs(p) \cup {t} /\ Jobs(c)' = {}
  <2>1. ASSUME NEW q \in DOMAIN ps, q # p PROVE Jobs(q)' = Jobs(q)
    <3>1. \A u \in Target : Append(q, u) # c
      <4>1. q \in Seq(Target)
        BY <1>0
      <4> QED BY <1>2, <2>1, <4>1, Zenon
    <3> QED BY <1>3, <3>1 DEF Jobs
  <2>2. Jobs(p)' = Jobs(p) \cup {t}
    BY <1>0, <1>2, <1>3 DEF Jobs, c
  <2>3. Jobs(c)' = {}
    BY <1>0, <1>1, <1>2, <1>3 DEF Jobs
  <2> QED BY <2>1, <2>2, <2>3
<1>7. \A q \in DOMAIN ps : ps'[q].job = ps[q].job /\ ps'[q].tgt = ps[q].tgt
  BY <1>3
<1>8. /\ \A q \in DOMAIN ps : q # p => Scripts(q)' = Scripts(q)
      /\ Scripts(p)' = IF k.job = "do" THEN Scripts(p) \cup {t} ELSE Scripts(p)
      /\ Scripts(c)' = {}
  <2>1. ASSUME NEW q \in DOMAIN ps, q # p PROVE Scripts(q)' = Scripts(q)
    <3>1. \A u \in Jobs(q) : Append(q, u) \in DOMAIN ps
      BY DEF Jobs
    <3>2. \A u \in Jobs(q) : ps'[Append(q, u)].job = ps[Append(q, u)].job
      BY <1>7, <3>1
    <3> QED BY <1>6, <2>1, <3>2 DEF Scripts
  <2>2. Scripts(p)' = IF k.job = "do" THEN Scripts(p) \cup {t} ELSE Scripts(p)
    <3>1. \A u \in Jobs(p) : Append(p, u) \in DOMAIN ps
      BY DEF Jobs
    <3>2. \A u \in Jobs(p) : ps'[Append(p, u)].job = ps[Append(p, u)].job
      BY <1>7, <3>1
    <3>3. ps'[Append(p, t)] = k
      BY <1>3 DEF c
    <3> QED BY <1>6, <3>2, <3>3 DEF Scripts
  <2>3. Scripts(c)' = {}
    BY <1>6 DEF Scripts
  <2> QED BY <2>1, <2>2, <2>3
<1>9. ASSUME NEW q \in DOMAIN ps PROVE KidsOK(q)'
  <2>1. KidsOK(q) /\ ps'[q].cmd = ps[q].cmd
    BY <1>3 DEF TreeInv, ProcOK
  <2>2. ASSUME NEW u \in Jobs(q)
        PROVE  ps'[Append(q, u)].tgt = u /\ ps'[Append(q, u)].job \in Kinds(ps'[q].cmd)
    <3>1. Append(q, u) \in DOMAIN ps
      BY DEF Jobs
    <3> QED BY <1>7, <2>1, <3>1 DEF KidsOK
  <2>3. ps'[Append(p, t)].tgt = t /\ ps'[Append(p, t)].job \in Kinds(ps'[p].cmd)
    BY <1>3 DEF c
  <2>4. CASE q = p
    BY <1>6, <2>2, <2>3, <2>4 DEF KidsOK
  <2>5. CASE q # p
    <3>1. Jobs(q)' = Jobs(q)
      BY <1>6, <2>5
    <3>2. \A u \in Jobs(q) : /\ ps'[Append(q, u)].tgt = u
                              /\ ps'[Append(q, u)].job \in Kinds(ps'[q].cmd)
      BY <2>2
    <3>3. \A u \in Jobs(q)' : /\ ps'[Append(q, u)].tgt = u
                               /\ ps'[Append(q, u)].job \in Kinds(ps'[q].cmd)
      <4>1. ASSUME NEW u \in Jobs(q)' PROVE u \in Jobs(q)
        BY <3>1
      <4> QED BY <4>1, <3>2
    <3> QED BY <3>3 DEF KidsOK
  <2> QED BY <2>4, <2>5
<1>10. ProcOK(p)'
  <2>1. Shape(ps[p])' /\ Fits(ps[p], Jobs(p))'
    BY <1>3, <1>6
  <2>2. LocksOK(p)'
    BY <1>3, <1>6 DEF LocksOK
  <2>3. SlotsOK(p)'
    <3>1. PICK D \in SUBSET Target : D = Scripts(p)'
      BY DEF Scripts, Jobs
    <3>2. \A u \in Pooled : <<p, u>> \in slot' <=> Uses(r, D, u)
      BY <1>8, <3>1
    <3> QED BY <1>3, <1>5, <3>1, <3>2 DEF SlotsOK
  <2> QED BY <1>9, <2>1, <2>2, <2>3 DEF ProcOK
<1>11. ASSUME NEW q \in DOMAIN ps, q # p PROVE ProcOK(q)'
  <2>1. ProcOK(q)
    BY DEF TreeInv
  <2>2. Shape(ps[q])' /\ Fits(ps[q], Jobs(q))'
    BY <1>3, <1>6, <1>11, <2>1 DEF ProcOK
  <2>3. LocksOK(q)' /\ SlotsOK(q)'
    BY <1>3, <1>5, <1>6, <1>8, <1>11, <2>1 DEF LocksOK, SlotsOK, ProcOK
  <2> QED BY <1>9, <2>2, <2>3 DEF ProcOK
<1>12. ProcOK(c)'
  <2>1. Shape(ps[c])'
    BY <1>3
  <2>2. Fits(ps[c], Jobs(c))'
    BY <1>3, <1>6 DEF Fits
  <2>3. KidsOK(c)'
    BY <1>6 DEF KidsOK
  <2>4. \A u \in Target : owner'[u] # c
    BY <1>1, NoneFresh
  <2>5. LocksOK(c)'
    BY <1>3, <1>6, <2>4 DEF LocksOK, Owns
  <2>6. \A u \in Pooled : <<c, u>> \notin slot'
    BY <1>1
  <2>7. SlotsOK(c)'
    BY <1>3, <1>5, <1>8, <2>6 DEF SlotsOK, Uses
  <2> QED BY <2>1, <2>2, <2>3, <2>5, <2>7 DEF ProcOK
<1> QED BY <1>3, <1>4, <1>10, <1>11, <1>12 DEF TreeInv


(* Reaping the jobs C of p: they are the jobs for a set T of targets; what *)
(* is removed with them has exited, and no other process loses a job.      *)
LEMMA ReapFacts ==
    ASSUME TreeInv, NEW p \in DOMAIN ps, NEW C \in SUBSET Finished(p), Reap(p, C)
    PROVE  \E T \in SUBSET Jobs(p), r \in Proc :
              /\ T # {} /\ C = {Append(p, t) : t \in T}
              /\ r = [ps[p] EXCEPT !.my = r.my, !.rc = Flag(p, C), !.got = Status(C)]
              /\ p \in DOMAIN ps' /\ DOMAIN ps' \subseteq DOMAIN ps /\ ps'[p] = r
              /\ \A q \in DOMAIN ps' : q # p => ps'[q] = ps[q]
              /\ \A q \in DOMAIN ps \ DOMAIN ps' :
                    ~Live(q) /\ \E t \in T : IsPrefix(Append(p, t), q)
              /\ \A q \in DOMAIN ps' : q # p => Jobs(q)' = Jobs(q)
              /\ Jobs(p)' = Jobs(p) \ T
              /\ Tree' /\ pipe' \in Int
<1>0. /\ p \in Seq(Target) /\ DOMAIN ps \subseteq Seq(Target) /\ ps \in [DOMAIN ps -> Proc]
      /\ Top \in DOMAIN ps /\ ps[Top].job = "top" /\ Tree /\ pipe \in Int
      /\ \A q \in Seq(Target), u \in Target : Append(q, u) \in DOMAIN ps => q \in DOMAIN ps
  BY DEF TreeInv, Tree, Shared
<1>1. Kids(p) = {Append(p, t) : t \in Jobs(p)}
  BY <1>0, KidsAre
<1>2. C \subseteq Kids(p) /\ C # {} /\ \A c \in C, q \in DOMAIN ps : IsPrefix(c, q) => ~Live(q)
  BY DEF Finished, Reap
<1>3. PICK T \in SUBSET Jobs(p) : T = {t \in Jobs(p) : Append(p, t) \in C}
  OBVIOUS
<1>4. C = {Append(p, t) : t \in T} /\ T # {}
  BY <1>1, <1>2, <1>3
<1>5. IsFiniteSet(C) /\ Cardinality(C) \in Nat
  <2>1. IsFiniteSet(T)
    BY <1>3, SchedulerAssumption, FS_Subset DEF Jobs
  <2>2. IsFiniteSet({Append(p, t) : t \in T})
    <3> DEFINE f == [t \in T |-> Append(p, t)]
    <3>1. f \in Surjection(T, {Append(p, t) : t \in T})
      BY DEF Surjection
    <3> HIDE DEF f
    <3> QED BY <2>1, <3>1, FS_Surjection
  <2> QED BY <1>4, <2>2, FS_CardinalityType
<1>6. PICK n \in Int : n = ps[p].my + Cardinality(C)
  BY <1>0, <1>5 DEF Proc
<1>7. PICK r : r = [ps[p] EXCEPT !.my = IF n > 1 THEN 1 ELSE n, !.rc = Flag(p, C), !.got = Status(C)]
  OBVIOUS
<1>8. /\ ps' = [q \in {q \in DOMAIN ps : \A c \in C : ~IsPrefix(c, q)} |-> IF q = p THEN r ELSE ps[q]]
      /\ pipe' = IF n > 1 THEN pipe + n - 1 ELSE pipe
  BY <1>6, <1>7 DEF Reap
<1>9. r \in Proc /\ r = [ps[p] EXCEPT !.my = r.my, !.rc = Flag(p, C), !.got = Status(C)]
  <2>1. ps[p] \in Proc
    BY <1>0
  <2>2. Status(C) \in 0..1 /\ Flag(p, C) \in 0..2
    BY <2>1 DEF Status, Flag, Proc
  <2>3. PICK m \in Int : m = IF n > 1 THEN 1 ELSE n
    OBVIOUS
  <2>4. PICK f \in 0..2, g \in 0..1 : f = Flag(p, C) /\ g = Status(C)
    BY <2>2
  <2>5. r = [ps[p] EXCEPT !.my = m, !.rc = f, !.got = g]
    BY <1>7, <2>3, <2>4
  <2> QED BY <2>1, <2>4, <2>5 DEF Proc
<1>10. \A t \in T : ~IsPrefix(Append(p, t), p)
  BY <1>0, PrefixAppend DEF Jobs
<1>11. \A q \in DOMAIN ps : q \in DOMAIN ps' <=> \A t \in T : ~IsPrefix(Append(p, t), q)
  BY <1>4, <1>8
<1>12. p \in DOMAIN ps' /\ DOMAIN ps' \subseteq DOMAIN ps /\ ps'[p] = r
  BY <1>8, <1>10, <1>11
<1>13. \A q \in DOMAIN ps' : q # p => ps'[q] = ps[q]
  BY <1>8
<1>14. \A q \in DOMAIN ps \ DOMAIN ps' : ~Live(q) /\ \E t \in T : IsPrefix(Append(p, t), q)
  BY <1>2, <1>4, <1>11
<1>15. ASSUME NEW q \in DOMAIN ps', NEW u \in Target, NEW t \in T
       PROVE  IsPrefix(Append(p, t), Append(q, u)) <=> q = p /\ u = t
  <2>0. q \in Seq(Target) /\ t \in Target /\ Append(p, t) \in Seq(Target)
    BY <1>0, <1>12, AppendFacts DEF Jobs
  <2>1. ~IsPrefix(Append(p, t), q)
    BY <1>11, <1>12
  <2>2. IsPrefix(Append(p, t), Append(q, u)) <=> IsPrefix(Append(p, t), q) \/ Append(p, t) = Append(q, u)
    <3>1. PICK c \in Seq(Target) : c = Append(p, t)
      BY <2>0
    <3>2. IsPrefix(c, Append(q, u)) <=> IsPrefix(c, q) \/ c = Append(q, u)
      BY <2>0, PrefixAppend
    <3> QED BY <3>1, <3>2
  <2>3. \A v \in Seq(Target), w \in Target : Append(p, t) = Append(v, w) => p = v /\ t = w
    BY <1>0, <2>0, AppendFacts
  <2> QED BY <2>0, <2>1, <2>2, <2>3
<1>16. \A q \in DOMAIN ps' : q # p => Jobs(q)' = Jobs(q)
  BY <1>11, <1>12, <1>15 DEF Jobs
<1>17. Jobs(p)' = Jobs(p) \ T
  BY <1>11, <1>12, <1>15 DEF Jobs
<1>18. ASSUME NEW q \in Seq(Target), NEW u \in Target, Append(q, u) \in DOMAIN ps'
       PROVE  q \in DOMAIN ps'
  <2>1. q \in DOMAIN ps
    BY <1>0, <1>12, <1>18
  <2>2. ASSUME NEW t \in T, IsPrefix(Append(p, t), q) PROVE FALSE
    <3>1. t \in Target /\ Append(p, t) \in Seq(Target)
      BY <1>0, AppendFacts DEF Jobs
    <3>2. IsPrefix(Append(p, t), Append(q, u))
      BY <2>2, <3>1, PrefixAppend
    <3> QED BY <1>11, <1>12, <1>18, <3>2
  <2> QED BY <1>11, <2>1, <2>2
<1>19. Tree'
  <2>1. ps' \in [DOMAIN ps' -> Proc]
    BY <1>0, <1>8, <1>9
  <2>2. Top \in DOMAIN ps'
    <3>1. ASSUME NEW t \in T PROVE ~IsPrefix(Append(p, t), Top)
      <4>1. Len(Append(p, t)) = Len(p) + 1 /\ Len(p) \in Nat /\ Len(Top) = 0
        BY <1>0, AppendFacts DEF Jobs, Top
      <4> QED BY <4>1 DEF IsPrefix
    <3> QED BY <1>0, <1>11, <3>1
  <2>3. ps'[Top].job = "top"
    <3>1. r.job = ps[p].job
      BY <1>0, <1>9 DEF Proc
    <3> QED BY <1>0, <1>12, <1>13, <2>2, <3>1
  <2> QED BY <1>0, <1>12, <1>18, <2>1, <2>2, <2>3 DEF Tree
<1>20. pipe' \in Int
  BY <1>0, <1>8
<1> QED BY <1>4, <1>9, <1>12, <1>13, <1>14, <1>16, <1>17, <1>19, <1>20


LEMMA ReapStep ==
    ASSUME TreeInv, graph' = graph, NEW p \in DOMAIN ps, Live(p),
           NEW C \in SUBSET Finished(p), Reap(p, C)
    PROVE  TreeInv'
<1>0. /\ p \in Seq(Target) /\ DOMAIN ps \subseteq Seq(Target) /\ ps \in [DOMAIN ps -> Proc]
      /\ Shared /\ Shape(ps[p]) /\ Fits(ps[p], Jobs(p)) /\ KidsOK(p) /\ LocksOK(p) /\ SlotsOK(p)
  BY DEF TreeInv, Tree, ProcOK
<1>1. PICK T \in SUBSET Jobs(p), r \in Proc :
              /\ T # {} /\ C = {Append(p, t) : t \in T}
              /\ r = [ps[p] EXCEPT !.my = r.my, !.rc = Flag(p, C), !.got = Status(C)]
              /\ p \in DOMAIN ps' /\ DOMAIN ps' \subseteq DOMAIN ps /\ ps'[p] = r
              /\ \A q \in DOMAIN ps' : q # p => ps'[q] = ps[q]
              /\ \A q \in DOMAIN ps \ DOMAIN ps' :
                    ~Live(q) /\ \E t \in T : IsPrefix(Append(p, t), q)
              /\ \A q \in DOMAIN ps' : q # p => Jobs(q)' = Jobs(q)
              /\ Jobs(p)' = Jobs(p) \ T
              /\ Tree' /\ pipe' \in Int
  BY ReapFacts
<1>2. /\ r.job = ps[p].job /\ r.tgt = ps[p].tgt /\ r.cmd = ps[p].cmd /\ r.pc = ps[p].pc
      /\ r.todo = ps[p].todo /\ r.locked = ps[p].locked /\ r.blocked = ps[p].blocked
      /\ r.cur = ps[p].cur /\ r.cyc = ps[p].cyc /\ r.pc # "exited"
  BY <1>0, <1>1 DEF Proc, Live
<1>3. Pooled' = Pooled /\ Depth' = Depth
  BY DEF Pooled, Depth
<1>4. PICK D : D = IF ps[p].cmd = "ifchange" THEN T ELSE {}
  OBVIOUS
<1>5. {ps[c].tgt : c \in C} = T
  <2>1. \A t \in T : ps[Append(p, t)].tgt = t
    BY <1>0 DEF KidsOK
  <2>2. ASSUME NEW c \in C PROVE ps[c].tgt \in T
    <3>1. C = {Append(p, t) : t \in T}
      BY <1>1
    <3>2. PICK t \in T : c = Append(p, t)
      BY <3>1
    <3> QED BY <2>1, <3>2
  <2>3. \A t \in T : \E c \in C : t = ps[c].tgt
    BY <1>1, <2>1
  <2> QED BY <2>2, <2>3
<1>6. /\ st' = [t \in Target |->
                    IF t \notin D \/ ps[Append(p, t)].job = "oob" THEN st[t]
                    ELSE IF ps[Append(p, t)].rc = 0 THEN "ok" ELSE "failed"]
      /\ owner' = [t \in Target |-> IF t \in D THEN None ELSE owner[t]]
      /\ slot' = slot \ ({p} \X D)
  BY <1>4, <1>5 DEF Reap, DoneCallbacks
<1>7. /\ graph \in DOMAIN Graphs /\ owner \in [Target -> (DOMAIN ps) \cup {None}]
      /\ slot \subseteq (DOMAIN ps) \X Pooled /\ IsFiniteSet(slot) /\ Cardinality(slot) <= Depth
      /\ st \in [Target -> Verdicts] /\ starts \in [Target -> Nat]
  BY <1>0 DEF Shared
<1>8. \A q \in DOMAIN ps : LocksOK(q) /\ SlotsOK(q)
  BY DEF TreeInv, ProcOK
<1>9. \A q \in DOMAIN ps \ DOMAIN ps' : ps[q].pc = "exited"
  BY <1>1 DEF Live
<1>10. Shared'
  <2>1. \A t \in Target : owner'[t] \in DOMAIN ps' \cup {None}
    <3>1. ASSUME NEW t \in Target, owner[t] \in DOMAIN ps \ DOMAIN ps' PROVE FALSE
      BY <1>8, <1>9, <3>1 DEF LocksOK, Owns
    <3> QED BY <1>6, <1>7, <3>1
  <2>2. slot' \subseteq (DOMAIN ps') \X Pooled
    <3>1. ASSUME NEW q \in DOMAIN ps \ DOMAIN ps', NEW t \in Pooled PROVE <<q, t>> \notin slot
      BY <1>8, <1>9 DEF SlotsOK, Uses
    <3> QED BY <1>6, <1>7, <3>1
  <2>3. IsFiniteSet(slot') /\ Cardinality(slot') <= Depth
    <3>1. slot' \subseteq slot
      BY <1>6
    <3>2. IsFiniteSet(slot') /\ Cardinality(slot') <= Cardinality(slot)
      BY <1>7, <3>1, FS_Subset
    <3>3. Cardinality(slot') \in Nat /\ Cardinality(slot) \in Nat /\ Depth \in Nat
      BY <1>7, <3>2, FS_CardinalityType, GraphTypes
    <3> QED BY <1>7, <3>2, <3>3
  <2>4. st' \in [Target -> Verdicts]
    BY <1>6, <1>7 DEF Verdicts
  <2>5. starts' \in [Target -> Nat]
    BY <1>7 DEF Reap
  <2>6. owner' \in [Target -> (DOMAIN ps') \cup {None}]
    BY <1>6, <2>1
  <2> QED BY <1>1, <1>3, <1>7, <2>2, <2>3, <2>4, <2>5, <2>6 DEF Shared
<1>11. \A q \in DOMAIN ps' : ps'[q].job = ps[q].job /\ ps'[q].tgt = ps[q].tgt /\ ps'[q].cmd = ps[q].cmd
  BY <1>1, <1>2
<1>12. \A q \in DOMAIN ps' : q # p => Scripts(q)' = Scripts(q)
  <2>1. ASSUME NEW q \in DOMAIN ps', q # p PROVE Scripts(q)' = Scripts(q)
    <3>1. \A u \in Jobs(q) : Append(q, u) \in DOMAIN ps'
      <4>1. \A u \in Jobs(q)' : Append(q, u) \in DOMAIN ps'
        BY DEF Jobs
      <4>2. Jobs(q)' = Jobs(q)
        BY <1>1, <2>1
      <4> QED BY <4>1, <4>2
    <3>2. \A u \in Jobs(q) : ps'[Append(q, u)].job = ps[Append(q, u)].job
      BY <1>11, <3>1
    <3>3. Jobs(q)' = Jobs(q)
      BY <1>1, <2>1
    <3> QED BY <3>2, <3>3 DEF Scripts
  <2> QED BY <2>1
<1>13. Scripts(p)' = Scripts(p) \ T
  <2>1. \A u \in Jobs(p) \ T : Append(p, u) \in DOMAIN ps'
    <3>1. \A u \in Jobs(p)' : Append(p, u) \in DOMAIN ps'
      BY DEF Jobs
    <3> QED BY <1>1, <3>1
  <2>2. \A u \in Jobs(p) \ T : ps'[Append(p, u)].job = ps[Append(p, u)].job
    BY <1>11, <2>1
  <2> QED BY <1>1, <2>2 DEF Scripts
<1>14. ASSUME NEW q \in DOMAIN ps' PROVE KidsOK(q)'
  <2>1. KidsOK(q)
    BY <1>1 DEF TreeInv, ProcOK
  <2>2. Jobs(q)' \subseteq Jobs(q)
    <3>1. CASE q = p
      BY <1>1, <3>1
    <3>2. CASE q # p
      BY <1>1, <3>2
    <3> QED BY <3>1, <3>2
  <2>3. \A u \in Jobs(q)' : Append(q, u) \in DOMAIN ps'
    BY DEF Jobs
  <2>4. ASSUME NEW u \in Jobs(q)'
        PROVE  ps'[Append(q, u)].tgt = u /\ ps'[Append(q, u)].job \in Kinds(ps'[q].cmd)
    <3>1. Append(q, u) \in DOMAIN ps' /\ u \in Jobs(q)
      BY <2>2, <2>3
    <3>2. ps[Append(q, u)].tgt = u /\ ps[Append(q, u)].job \in Kinds(ps[q].cmd)
      BY <2>1, <3>1 DEF KidsOK
    <3> QED BY <1>11, <3>1, <3>2
  <2> QED BY <2>4 DEF KidsOK
<1>15. ProcOK(p)'
  <2>1. Shape(r)
    BY <1>0, <1>2 DEF Shape
  <2>2. Fits(r, Jobs(p) \ T)
    BY <1>0, <1>2 DEF Fits, Quiet
  <2>3. ASSUME NEW t \in Target PROVE owner'[t] = p <=> Owns(r, Jobs(p) \ T, t)
    <3>0. p # None /\ owner'[t] = IF t \in D THEN None ELSE owner[t]
      BY <1>0, <1>6, NoneFresh
    <3>1. owner[t] = p <=> Owns(ps[p], Jobs(p), t)
      BY <1>0 DEF LocksOK
    <3>2. r.pc # "gotlock"
      BY <1>0, <1>1, <1>2 DEF Fits, Quiet
    <3> QED BY <1>2, <1>4, <3>0, <3>1, <3>2 DEF Owns
  <2>4. LocksOK(p)'
    <3>1. LocksOK(p)' <=> \A t \in Target : owner'[t] = p <=> Owns(r, Jobs(p) \ T, t)
      BY <1>1 DEF LocksOK
    <3> QED BY <2>3, <3>1
  <2>5. ASSUME NEW t \in Pooled PROVE <<p, t>> \in slot' <=> Uses(r, Scripts(p) \ T, t)
    <3>1. <<p, t>> \in slot <=> Uses(ps[p], Scripts(p), t)
      BY <1>0 DEF SlotsOK
    <3>2. <<p, t>> \in slot' <=> <<p, t>> \in slot /\ t \notin D
      BY <1>6
    <3> QED BY <1>2, <1>4, <3>1, <3>2 DEF Uses
  <2>6. SlotsOK(p)'
    BY <1>1, <1>3, <1>13, <2>5 DEF SlotsOK
  <2> QED BY <1>1, <1>14, <2>1, <2>2, <2>4, <2>6 DEF ProcOK
<1>16. ASSUME NEW q \in DOMAIN ps', q # p PROVE ProcOK(q)'
  <2>0. ps'[q] = ps[q] /\ Jobs(q)' = Jobs(q) /\ Scripts(q)' = Scripts(q) /\ q \in DOMAIN ps
    BY <1>1, <1>12, <1>16
  <2>1. ProcOK(q)
    BY <2>0 DEF TreeInv
  <2>2. Shape(ps[q])' /\ Fits(ps[q], Jobs(q))'
    BY <2>0, <2>1 DEF ProcOK
  <2>3. ASSUME NEW t \in Target PROVE owner'[t] = q <=> owner[t] = q
    <3>1. t \in D => owner[t] = p
      <4>1. ASSUME t \in D PROVE Owns(ps[p], Jobs(p), t)
        BY <1>2, <1>4, <4>1 DEF Owns
      <4> QED BY <1>0, <4>1 DEF LocksOK
    <3>2. q # None
      BY <1>0, <2>0, NoneFresh
    <3> QED BY <1>6, <1>16, <3>1, <3>2
  <2>4. LocksOK(q)'
    BY <2>0, <2>1, <2>3 DEF ProcOK, LocksOK
  <2>5. \A t \in Pooled : <<q, t>> \in slot' <=> <<q, t>> \in slot
    BY <1>6, <1>16
  <2>6. SlotsOK(q)'
    BY <1>3, <2>0, <2>1, <2>5 DEF ProcOK, SlotsOK
  <2> QED BY <1>14, <2>2, <2>4, <2>6 DEF ProcOK
<1> QED BY <1>1, <1>10, <1>15, <1>16 DEF TreeInv


-----------------------------------------------------------------------------
(* A step of p that leaves the locks and slots alone. *)
LEMMA PlainStep ==
    ASSUME TreeInv, graph' = graph, NEW p \in DOMAIN ps, NEW r \in Proc, Put(p, r),
           owner' = owner, slot' = slot, pipe' \in Int,
           st' \in [Target -> Verdicts], starts' \in [Target -> Nat],
           r.job = ps[p].job, r.tgt = ps[p].tgt, r.cmd = ps[p].cmd \/ Jobs(p) = {},
           Shape(r), Fits(r, Jobs(p)),
           \A t \in Target : Owns(r, Jobs(p), t) <=> Owns(ps[p], Jobs(p), t),
           \A t \in Target : Uses(r, Scripts(p), t) <=> Uses(ps[p], Scripts(p), t)
    PROVE  TreeInv'
<1>1. DOMAIN ps' = DOMAIN ps /\ Pooled' = Pooled /\ Depth' = Depth
  BY DEF Put, Pooled, Depth
<1>2. Shared'
  BY <1>1 DEF TreeInv, Shared
<1>3. LocksOK(p) /\ SlotsOK(p) /\ Pooled \subseteq Target
  BY GraphTypes DEF TreeInv, ProcOK, Shared
<1>4. \A t \in Target : owner'[t] = p <=> Owns(r, Jobs(p), t)
  BY <1>3 DEF LocksOK
<1>5. \A t \in Pooled : <<p, t>> \in slot' <=> Uses(r, Scripts(p), t)
  BY <1>3 DEF SlotsOK
<1>6. /\ \A t \in Target, q \in DOMAIN ps : q # p => (owner'[t] = q <=> owner[t] = q)
      /\ \A t \in Pooled, q \in DOMAIN ps : q # p => (<<q, t>> \in slot' <=> <<q, t>> \in slot)
  OBVIOUS
<1> QED BY <1>2, <1>4, <1>5, <1>6, PutStep

(* What is known of a process. *)
LEMMA ProcFacts ==
    ASSUME TreeInv, NEW p \in DOMAIN ps
    PROVE  /\ ps[p] \in Proc /\ Shape(ps[p]) /\ Fits(ps[p], Jobs(p))
           /\ KidsOK(p) /\ LocksOK(p) /\ SlotsOK(p)
           /\ p \in Seq(Target) /\ p # None /\ Shared /\ Tree
           /\ \A t \in Target : Append(p, t) # p
BY NoneFresh, AppendFacts DEF TreeInv, Tree, ProcOK

(* Taking a free slot keeps the pool within its depth. *)
LEMMA SlotTaken ==
    ASSUME Shared, NEW p \in DOMAIN ps, NEW t \in Target, SlotFree(t), TakeSlot(p, t)
    PROVE  /\ slot' \subseteq (DOMAIN ps) \X Pooled
           /\ IsFiniteSet(slot') /\ Cardinality(slot') <= Depth
           /\ t \in Pooled => slot' = slot \cup {<<p, t>>}
           /\ t \notin Pooled => slot' = slot
<1>1. /\ slot \subseteq (DOMAIN ps) \X Pooled /\ IsFiniteSet(slot) /\ Cardinality(slot) <= Depth
      /\ Depth \in Nat /\ Cardinality(slot) \in Nat
  BY GraphTypes, FS_CardinalityType DEF Shared
<1>2. CASE t \in Pooled
  <2>1. slot' = slot \cup {<<p, t>>} /\ Cardinality(slot) < Depth
    BY <1>2 DEF TakeSlot, SlotFree
  <2>2. /\ IsFiniteSet(slot')
        /\ Cardinality(slot') = IF <<p, t>> \in slot THEN Cardinality(slot) ELSE Cardinality(slot) + 1
    BY <1>1, <2>1, FS_AddElement
  <2> QED BY <1>1, <1>2, <2>1, <2>2
<1>3. CASE t \notin Pooled
  BY <1>1, <1>3 DEF TakeSlot
<1> QED BY <1>2, <1>3

(* A fresh job is well formed. *)
LEMMA FreshJob ==
    ASSUME NEW kind \in {"top", "redo", "do", "oob"}, NEW t \in Target \cup {None},
           NEW cmd \in {"ifchange", "redo", "unlocked", "spawn"}, NEW todo \in Seq(Target),
           NEW cyc \in SUBSET Target
    PROVE  /\ Job(kind, t, cmd, todo, cyc) \in Proc
           /\ Job(kind, t, cmd, todo, cyc).job = kind /\ Job(kind, t, cmd, todo, cyc).tgt = t
           /\ Job(kind, t, cmd, todo, cyc).cmd = cmd /\ Job(kind, t, cmd, todo, cyc).pc = "next"
           /\ Job(kind, t, cmd, todo, cyc).todo = todo /\ Job(kind, t, cmd, todo, cyc).rc = 0
           /\ Job(kind, t, cmd, todo, cyc).locked = <<>> /\ Job(kind, t, cmd, todo, cyc).blocked = <<>>
           /\ Job(kind, t, cmd, todo, cyc).cyc = cyc /\ Job(kind, t, cmd, todo, cyc).cur = None
           /\ Job(kind, t, cmd, todo, cyc).got = 0
BY DEF Job, Proc

LEMMA DoJobFacts ==
    ASSUME graph \in DOMAIN Graphs, NEW t \in Target, NEW cyc \in SUBSET Target
    PROVE  /\ DoJob(t, cyc) \in Proc /\ DoJob(t, cyc).job = "do" /\ DoJob(t, cyc).tgt = t
           /\ DoJob(t, cyc).pc = "next" /\ DoJob(t, cyc).todo = Args[t] /\ DoJob(t, cyc).rc = 0
           /\ DoJob(t, cyc).cyc = cyc \cup {t}
           /\ DoJob(t, cyc).cmd = IF t \in UsesRedo THEN "redo" ELSE "ifchange"
           /\ DoJob(t, cyc).locked = <<>> /\ DoJob(t, cyc).blocked = <<>> /\ DoJob(t, cyc).cur = None
           /\ Shape(DoJob(t, cyc))
<1>1. Args[t] \in Seq(Target) /\ (t \notin UsesRedo => IsInjective(Args[t]))
  BY GraphTypes
<1>2. PICK cmd \in {"ifchange", "redo", "unlocked", "spawn"} :
         cmd = IF t \in UsesRedo THEN "redo" ELSE "ifchange"
  OBVIOUS
<1>3. PICK j \in Proc : j = DoJob(t, cyc)
  BY <1>1, <1>2, FreshJob DEF DoJob
<1>4. /\ j.job = "do" /\ j.tgt = t /\ j.pc = "next" /\ j.todo = Args[t] /\ j.rc = 0
      /\ j.cyc = cyc \cup {t} /\ j.cmd = cmd
      /\ j.locked = <<>> /\ j.blocked = <<>> /\ j.cur = None
  BY <1>1, <1>2, <1>3, FreshJob DEF DoJob
<1>5. Shape(j)
  BY <1>1, <1>2, <1>4 DEF Shape
<1> QED BY <1>2, <1>3, <1>4, <1>5

LEMMA OobJobFacts ==
    ASSUME NEW t \in Target, NEW list \in SUBSET Target, NEW cyc \in SUBSET Target
    PROVE  /\ OobJob(t, list, cyc) \in Proc /\ OobJob(t, list, cyc).job = "oob"
           /\ OobJob(t, list, cyc).tgt = t /\ OobJob(t, list, cyc).pc = "next"
           /\ Range(OobJob(t, list, cyc).todo) = list /\ OobJob(t, list, cyc).rc = 0
           /\ OobJob(t, list, cyc).cyc = cyc /\ OobJob(t, list, cyc).cmd = "ifchange"
           /\ OobJob(t, list, cyc).locked = <<>> /\ OobJob(t, list, cyc).blocked = <<>>
           /\ OobJob(t, list, cyc).cur = None
           /\ Shape(OobJob(t, list, cyc))
<1>1. PICK s : s = SetToSeq(list)
  OBVIOUS
<1>2. s \in Seq(Target) /\ Range(s) = list /\ IsInjective(s)
  <2>1. s \in Seq(list) /\ Range(s) = list /\ IsInjective(s)
    BY <1>1, SetToSeqFacts
  <2> QED BY <2>1
<1>3. PICK j \in Proc : j = OobJob(t, list, cyc)
  BY <1>1, <1>2, FreshJob DEF OobJob
<1>4. /\ j.job = "oob" /\ j.tgt = t /\ j.pc = "next" /\ j.todo = s /\ j.rc = 0
      /\ j.cyc = cyc /\ j.cmd = "ifchange"
      /\ j.locked = <<>> /\ j.blocked = <<>> /\ j.cur = None
  BY <1>1, <1>2, <1>3, FreshJob DEF OobJob
<1>5. Shape(j)
  BY <1>2, <1>4 DEF Shape
<1> QED BY <1>2, <1>3, <1>4, <1>5


(* Counting tokens changes nothing else. *)
LEMMA TokenOnly ==
    ASSUME NEW r \in Proc, NEW s, s = [r EXCEPT !.my = @ - 1] \/ s = [r EXCEPT !.my = @ + 1]
    PROVE  /\ s \in Proc /\ s.job = r.job /\ s.tgt = r.tgt /\ s.cmd = r.cmd /\ s.pc = r.pc
           /\ s.todo = r.todo /\ s.locked = r.locked /\ s.blocked = r.blocked /\ s.cur = r.cur
           /\ s.rc = r.rc /\ s.got = r.got /\ s.cyc = r.cyc
           /\ Shape(r) => Shape(s)
           /\ \A J : Fits(r, J) => Fits(s, J)
           /\ \A J, t : Owns(s, J, t) <=> Owns(r, J, t)
           /\ \A D, t : Uses(s, D, t) <=> Uses(r, D, t)
<1>1. /\ s \in Proc /\ s.job = r.job /\ s.tgt = r.tgt /\ s.cmd = r.cmd /\ s.pc = r.pc
      /\ s.todo = r.todo /\ s.locked = r.locked /\ s.blocked = r.blocked /\ s.cur = r.cur
      /\ s.rc = r.rc /\ s.got = r.got /\ s.cyc = r.cyc
  BY DEF Proc
<1>2. Shape(r) => Shape(s)
  BY <1>1 DEF Shape
<1>3. \A J : Fits(r, J) => Fits(s, J)
  BY <1>1 DEF Fits, Quiet
<1>4. \A J, t : Owns(s, J, t) <=> Owns(r, J, t)
  BY <1>1 DEF Owns
<1>5. \A D, t : Uses(s, D, t) <=> Uses(r, D, t)
  BY <1>1 DEF Uses
<1> QED BY <1>1, <1>2, <1>3, <1>4, <1>5

(* run_ifchange deals with t, whose lock nobody holds: r is what its       *)
(* record becomes.                                                         *)
LEMMA HandleStep ==
    ASSUME TreeInv, graph' = graph, NEW p \in DOMAIN ps, Live(p), NEW r \in Proc, NEW t \in Target,
           ps[p].cmd = "ifchange", ps[p].pc # "gotlock", owner[t] = None,
           r.job = ps[p].job, r.tgt = ps[p].tgt, r.cmd = ps[p].cmd, r.pc \in {"next", "loop"},
           Shape(r), Fits(r, Jobs(p) \cup {t}), Handle(p, r, t)
    PROVE  TreeInv'
<1>0. /\ ps[p] \in Proc /\ LocksOK(p) /\ SlotsOK(p) /\ Shared /\ Tree /\ p # None
      /\ ps[p].pc # "exited"
  BY ProcFacts DEF Live
<1>1. /\ graph \in DOMAIN Graphs /\ owner \in [Target -> (DOMAIN ps) \cup {None}] /\ pipe \in Int
      /\ slot \subseteq (DOMAIN ps) \X Pooled /\ IsFiniteSet(slot) /\ Cardinality(slot) <= Depth
      /\ st \in [Target -> Verdicts] /\ starts \in [Target -> Nat]
  BY <1>0 DEF Shared
<1>2. Pooled' = Pooled /\ Depth' = Depth /\ Pooled \subseteq Target /\ r.cyc \subseteq Target
  BY <1>1, GraphTypes DEF Pooled, Depth, Proc
<1>3. /\ \A J, u : Owns(r, J, u) <=> u \in J
      /\ \A D, u : Uses(r, D, u) <=> u \in D
      /\ \A u : Owns(ps[p], Jobs(p), u) <=> u \in Jobs(p)
      /\ \A u : Uses(ps[p], Scripts(p), u) <=> u \in Scripts(p)
  BY <1>0 DEF Owns, Uses
<1>4. t \notin Jobs(p)
  BY <1>0, <1>3 DEF LocksOK
<1>5. Fits(r, Jobs(p))
  BY DEF Fits, Quiet
<1>6. PICK v \in Verdict(t, r.job = "oob") :
       \/ /\ v = "clean"
          /\ Put(p, r)
          /\ st' = [st EXCEPT ![t] = "ok"]
          /\ UNCHANGED <<pipe, owner, slot, starts>>
       \/ /\ v = "oob"
          /\ Fork(p, r, t, OobJob(t, DirtyOob(t), r.cyc))
          /\ owner' = [owner EXCEPT ![t] = p]
          /\ UNCHANGED <<pipe, slot, st, starts>>
       \/ /\ v = "dirty"
          /\ SlotFree(t)
          /\ Fork(p, r, t, DoJob(t, r.cyc))
          /\ owner' = [owner EXCEPT ![t] = p]
          /\ TakeSlot(p, t)
          /\ starts' = [starts EXCEPT ![t] = @ + 1]
          /\ UNCHANGED <<pipe, st>>
       \/ /\ v = "dirty"
          /\ ~SlotFree(t)
          /\ PutReleasing(p, [r EXCEPT !.blocked = Append(@, t)])
          /\ UNCHANGED <<owner, slot, st, starts>>
  BY DEF Handle
<1>7. CASE Put(p, r) /\ st' = [st EXCEPT ![t] = "ok"] /\ UNCHANGED <<pipe, owner, slot, starts>>
  <2>1. st' \in [Target -> Verdicts]
    BY <1>1, <1>7 DEF Verdicts
  <2> QED BY <1>1, <1>3, <1>5, <1>7, <2>1, PlainStep
<1>8. CASE /\ PutReleasing(p, [r EXCEPT !.blocked = Append(@, t)])
           /\ UNCHANGED <<owner, slot, st, starts>>
  <2>1. PICK b \in Proc : b = [r EXCEPT !.blocked = Append(@, t)]
    <3>1. Append(r.blocked, t) \in Seq(Target)
      BY DEF Proc
    <3> QED BY <3>1 DEF Proc
  <2>2. PICK s \in Proc : s = [b EXCEPT !.my = @ - 1]
    <3>1. b.my - 1 \in Int
      BY DEF Proc
    <3> QED BY <3>1 DEF Proc
  <2>3. Put(p, s) /\ pipe' \in Int
    BY <1>1, <1>8, <2>1, <2>2 DEF PutReleasing
  <2>4. /\ s.job = r.job /\ s.tgt = r.tgt /\ s.cmd = r.cmd /\ s.pc = r.pc
        /\ s.todo = r.todo /\ s.cur = r.cur /\ s.rc = r.rc
    BY <2>1, <2>2 DEF Proc
  <2>5. Shape(s) /\ Fits(s, Jobs(p))
    BY <1>5, <2>4 DEF Shape, Fits, Quiet
  <2>6. /\ \A u : Owns(s, Jobs(p), u) <=> Owns(ps[p], Jobs(p), u)
        /\ \A u : Uses(s, Scripts(p), u) <=> Uses(ps[p], Scripts(p), u)
    BY <1>3, <2>4 DEF Owns, Uses
  <2> QED BY <1>1, <1>8, <2>3, <2>4, <2>5, <2>6, PlainStep
<1>9. PICK s \in Proc : s = [r EXCEPT !.my = @ - 1]
  BY TokenOnly
<1>10. /\ s.job = ps[p].job /\ s.tgt = ps[p].tgt /\ s.cmd = ps[p].cmd /\ s.cmd = "ifchange"
       /\ Shape(s) /\ Fits(s, Jobs(p) \cup {t})
       /\ \A J, u : Owns(s, J, u) <=> u \in J
       /\ \A D, u : Uses(s, D, u) <=> u \in D
  BY <1>3, <1>9, TokenOnly
<1>11. ASSUME owner' = [owner EXCEPT ![t] = p]
       PROVE  /\ \A u \in Target : owner'[u] \in DOMAIN ps \cup {None}
              /\ \A u \in Target : owner'[u] = p <=> Owns(s, Jobs(p) \cup {t}, u)
              /\ \A u \in Target, q \in DOMAIN ps : q # p => (owner'[u] = q <=> owner[u] = q)
  <2>1. \A q \in DOMAIN ps : q # None
    BY NoneFresh DEF TreeInv, Tree
  <2>2. \A u \in Target : owner[u] = p <=> u \in Jobs(p)
    BY <1>0, <1>3 DEF LocksOK
  <2> QED BY <1>1, <1>10, <1>11, <2>1, <2>2
<1>12. CASE /\ Fork(p, r, t, OobJob(t, DirtyOob(t), r.cyc))
            /\ owner' = [owner EXCEPT ![t] = p]
            /\ UNCHANGED <<pipe, slot, st, starts>>
  <2>1. DirtyOob(t) \in SUBSET Target
    <3>1. OobDeps[t] \in {{}, Range(Args[t])} /\ Args[t] \in Seq(Target)
      BY <1>1, GraphTypes
    <3>2. Range(Args[t]) \subseteq Target
      BY <3>1 DEF Range
    <3> QED BY <3>1, <3>2 DEF DirtyOob
  <2>2. PICK k \in Proc : k = OobJob(t, DirtyOob(t), r.cyc)
    BY <1>2, <2>1, OobJobFacts
  <2>3. k.tgt = t /\ k.job = "oob" /\ k.pc = "next" /\ Shape(k)
    BY <1>2, <2>1, <2>2, OobJobFacts
  <2>4. Forked(p, s, t, k)
    BY <1>9, <1>12, <2>2 DEF Fork, Forked
  <2>5. DOMAIN ps \subseteq DOMAIN ps'
    BY <2>4 DEF Forked
  <2>6. Shared'
    <3>1. owner' \in [Target -> (DOMAIN ps') \cup {None}]
      BY <1>1, <1>11, <1>12, <2>5
    <3>2. slot' \subseteq (DOMAIN ps') \X Pooled
      BY <1>1, <1>12, <2>5
    <3> QED BY <1>1, <1>2, <1>12, <3>1, <3>2 DEF Shared
  <2>7. k.job \in Kinds(s.cmd)
    BY <1>10, <2>3 DEF Kinds
  <2>8. \A u \in Pooled : <<p, u>> \in slot'
              <=> Uses(s, IF k.job = "do" THEN Scripts(p) \cup {t} ELSE Scripts(p), u)
    BY <1>0, <1>2, <1>3, <1>10, <1>12, <2>3 DEF SlotsOK
  <2>9. /\ slot' \subseteq (DOMAIN ps) \X Pooled
        /\ \A u \in Pooled, q \in DOMAIN ps : q # p => (<<q, u>> \in slot' <=> <<q, u>> \in slot)
    BY <1>1, <1>12
  <2>10. /\ \A u \in Target : owner'[u] \in DOMAIN ps \cup {None}
         /\ \A u \in Target : owner'[u] = p <=> Owns(s, Jobs(p) \cup {t}, u)
         /\ \A u \in Target, q \in DOMAIN ps : q # p => (owner'[u] = q <=> owner[u] = q)
    BY <1>11, <1>12
  <2> QED BY <1>4, <1>10, <2>3, <2>4, <2>6, <2>7, <2>8, <2>9, <2>10, ForkStep
<1>13. CASE /\ SlotFree(t)
            /\ Fork(p, r, t, DoJob(t, r.cyc))
            /\ owner' = [owner EXCEPT ![t] = p]
            /\ TakeSlot(p, t)
            /\ starts' = [starts EXCEPT ![t] = @ + 1]
            /\ UNCHANGED <<pipe, st>>
  <2>2. PICK k \in Proc : k = DoJob(t, r.cyc)
    BY <1>1, <1>2, DoJobFacts
  <2>3. k.tgt = t /\ k.job = "do" /\ k.pc = "next" /\ Shape(k)
    BY <1>1, <1>2, <2>2, DoJobFacts
  <2>4. Forked(p, s, t, k)
    BY <1>9, <1>13, <2>2 DEF Fork, Forked
  <2>5. DOMAIN ps \subseteq DOMAIN ps'
    BY <2>4 DEF Forked
  <2>6. /\ slot' \subseteq (DOMAIN ps) \X Pooled
        /\ IsFiniteSet(slot') /\ Cardinality(slot') <= Depth
        /\ t \in Pooled => slot' = slot \cup {<<p, t>>}
        /\ t \notin Pooled => slot' = slot
    BY <1>0, <1>13, SlotTaken
  <2>7. Shared'
    <3>1. owner' \in [Target -> (DOMAIN ps') \cup {None}]
      BY <1>1, <1>11, <1>13, <2>5
    <3>2. slot' \subseteq (DOMAIN ps') \X Pooled
      BY <2>5, <2>6
    <3>3. starts' \in [Target -> Nat]
      BY <1>1, <1>13
    <3> QED BY <1>1, <1>2, <1>13, <2>6, <3>1, <3>2, <3>3 DEF Shared
  <2>8. k.job \in Kinds(s.cmd)
    BY <1>10, <2>3 DEF Kinds
  <2>9. \A u \in Pooled : <<p, u>> \in slot'
              <=> Uses(s, IF k.job = "do" THEN Scripts(p) \cup {t} ELSE Scripts(p), u)
    <3>1. \A u \in Pooled : <<p, u>> \in slot <=> u \in Scripts(p)
      BY <1>0, <1>2, <1>3 DEF SlotsOK
    <3>2. \A u \in Pooled : <<p, u>> \in slot' <=> u \in Scripts(p) \cup {t}
      BY <2>6, <3>1
    <3> QED BY <1>10, <2>3, <3>2
  <2>10. \A u \in Pooled, q \in DOMAIN ps : q # p => (<<q, u>> \in slot' <=> <<q, u>> \in slot)
    BY <2>6
  <2>11. /\ \A u \in Target : owner'[u] \in DOMAIN ps \cup {None}
         /\ \A u \in Target : owner'[u] = p <=> Owns(s, Jobs(p) \cup {t}, u)
         /\ \A u \in Target, q \in DOMAIN ps : q # p => (owner'[u] = q <=> owner[u] = q)
    BY <1>11, <1>13
  <2> QED BY <1>4, <1>10, <2>3, <2>4, <2>6, <2>7, <2>8, <2>9, <2>10, <2>11, ForkStep
<1> QED BY <1>6, <1>7, <1>8, <1>12, <1>13


(* Lists of targets. *)
LEMMA ListFacts ==
    ASSUME NEW s \in Seq(Target)
    PROVE  /\ Range(s) \subseteq Target
           /\ s = <<>> => Range(s) = {}
           /\ s # <<>> => /\ Head(s) \in Target /\ Tail(s) \in Seq(Target)
                          /\ Range(s) = {Head(s)} \cup Range(Tail(s))
                          /\ IsInjective(s) => IsInjective(Tail(s)) /\ Head(s) \notin Range(Tail(s))
           /\ \A t \in Target : Append(s, t) \in Seq(Target) /\ Range(Append(s, t)) = Range(s) \cup {t}
<1>1. Range(s) \subseteq Target /\ (s = <<>> => Range(s) = {})
  BY DEF Range
<1>2. ASSUME s # <<>>
      PROVE  /\ Head(s) \in Target /\ Tail(s) \in Seq(Target)
             /\ Range(s) = {Head(s)} \cup Range(Tail(s))
             /\ IsInjective(s) => IsInjective(Tail(s)) /\ Head(s) \notin Range(Tail(s))
  <2>0. PICK n \in Nat : n = Len(s)
    OBVIOUS
  <2>1. /\ n > 0 /\ Head(s) = s[1] /\ Head(s) \in Target /\ DOMAIN s = 1..n
        /\ Tail(s) \in Seq(Target) /\ DOMAIN Tail(s) = 1..(n - 1)
        /\ \A i \in 1..(n - 1) : Tail(s)[i] = s[i + 1]
    <3>1. n > 0
      BY <1>2, <2>0, EmptySeq
    <3>2. Tail(s) \in Seq(Target) /\ Len(Tail(s)) = n - 1 /\ \A i \in 1..(n - 1) : Tail(s)[i] = s[i + 1]
      BY <1>2, <2>0, HeadTailProperties
    <3> QED BY <2>0, <3>1, <3>2
  <2>2. Range(s) = {Head(s)} \cup Range(Tail(s))
    <3>1. \A i \in 1..n : i = 1 \/ \E j \in 1..(n - 1) : i = j + 1
      <4>1. ASSUME NEW i \in 1..n, i # 1 PROVE i - 1 \in 1..(n - 1) /\ i = (i - 1) + 1
        BY <2>1, <4>1
      <4> QED BY <4>1
    <3>2. Range(s) \subseteq {Head(s)} \cup Range(Tail(s))
      <4>1. ASSUME NEW i \in 1..n PROVE s[i] \in {Head(s)} \cup Range(Tail(s))
        <5>1. CASE i = 1
          BY <2>1, <5>1
        <5>2. ASSUME NEW j \in 1..(n - 1), i = j + 1 PROVE s[i] \in Range(Tail(s))
          BY <2>1, <5>2 DEF Range
        <5> QED BY <3>1, <5>1, <5>2
      <4> QED BY <2>1, <4>1 DEF Range
    <3>3. \A j \in 1..(n - 1) : j + 1 \in 1..n
      BY <2>1
    <3>4. Range(Tail(s)) \subseteq Range(s)
      BY <2>1, <3>3 DEF Range
    <3>5. Head(s) \in Range(s)
      BY <2>1 DEF Range
    <3> QED BY <3>2, <3>4, <3>5
  <2>3. ASSUME IsInjective(s) PROVE IsInjective(Tail(s)) /\ Head(s) \notin Range(Tail(s))
    <3>0. \A i, j \in 1..n : s[i] = s[j] => i = j
      BY <2>1, <2>3 DEF IsInjective
    <3>1. ASSUME NEW i \in 1..(n - 1), NEW j \in 1..(n - 1), Tail(s)[i] = Tail(s)[j] PROVE i = j
      <4>1. i + 1 \in 1..n /\ j + 1 \in 1..n /\ s[i + 1] = s[j + 1]
        BY <2>1, <3>1
      <4>2. i + 1 = j + 1
        BY <3>0, <4>1
      <4> QED BY <4>2
    <3>2. ASSUME NEW i \in 1..(n - 1), Tail(s)[i] = Head(s) PROVE FALSE
      <4>1. i + 1 \in 1..n /\ 1 \in 1..n /\ s[i + 1] = s[1]
        BY <2>1, <3>2
      <4>2. i + 1 = 1
        BY <3>0, <4>1
      <4> QED BY <4>2
    <3> QED BY <2>1, <3>1, <3>2 DEF IsInjective, Range
  <2> QED BY <2>1, <2>2, <2>3
<1>3. ASSUME NEW t \in Target PROVE Append(s, t) \in Seq(Target) /\ Range(Append(s, t)) = Range(s) \cup {t}
  <2>0. PICK n \in Nat : n = Len(s)
    OBVIOUS
  <2>1. /\ Append(s, t) \in Seq(Target) /\ DOMAIN Append(s, t) = 1..(n + 1) /\ DOMAIN s = 1..n
        /\ \A i \in 1..n : Append(s, t)[i] = s[i]
        /\ Append(s, t)[n + 1] = t
    BY <2>0
  <2>2. \A i : i \in 1..(n + 1) <=> i \in 1..n \/ i = n + 1
    OBVIOUS
  <2>3. Range(Append(s, t)) = {Append(s, t)[i] : i \in 1..(n + 1)} /\ Range(s) = {s[i] : i \in 1..n}
    BY <2>1 DEF Range
  <2> QED BY <2>1, <2>2, <2>3
<1> QED BY <1>1, <1>2, <1>3

(* A process exits. *)
LEMMA ExitStep ==
    ASSUME TreeInv, graph' = graph, NEW p \in DOMAIN ps, NEW code \in {0, 1}, Exit(p, code),
           pipe' \in Int, Jobs(p) = {} \/ (ps[p].cmd = "ifchange" /\ code = 1)
    PROVE  TreeInv'
<1>0. /\ ps[p] \in Proc /\ Shape(ps[p]) /\ Fits(ps[p], Jobs(p)) /\ Shared /\ p # None
      /\ LocksOK(p) /\ SlotsOK(p)
  BY ProcFacts
<1>1. PICK r \in Proc : r = [ps[p] EXCEPT !.pc = "exited", !.rc = code]
  <2>1. code \in 0..2
    OBVIOUS
  <2> QED BY <1>0, <2>1 DEF Proc
<1>2. Put(p, r)
  BY <1>1 DEF Exit, Put
<1>3. /\ r.job = ps[p].job /\ r.tgt = ps[p].tgt /\ r.cmd = ps[p].cmd /\ r.pc = "exited"
      /\ r.rc = code /\ r.todo = ps[p].todo
  BY <1>0, <1>1 DEF Proc
<1>4. Shape(r) /\ Fits(r, Jobs(p))
  BY <1>0, <1>3 DEF Shape, Fits, Quiet
<1>5. \A J, t : ~Owns(r, J, t) /\ ~Uses(r, J, t)
  BY <1>3 DEF Owns, Uses
<1>6. /\ graph \in DOMAIN Graphs /\ owner \in [Target -> (DOMAIN ps) \cup {None}]
      /\ slot \subseteq (DOMAIN ps) \X Pooled /\ IsFiniteSet(slot) /\ Cardinality(slot) <= Depth
      /\ st \in [Target -> Verdicts] /\ starts \in [Target -> Nat]
  BY <1>0 DEF Shared
<1>7. /\ owner' = [t \in Target |-> IF owner[t] = p THEN None ELSE owner[t]]
      /\ slot' = {s \in slot : s[1] # p} /\ st' = st /\ starts' = starts
  BY DEF Exit
<1>8. Shared'
  <2>1. DOMAIN ps' = DOMAIN ps /\ Pooled' = Pooled /\ Depth' = Depth
    BY <1>2 DEF Put, Pooled, Depth
  <2>2. owner' \in [Target -> (DOMAIN ps') \cup {None}]
    BY <1>6, <1>7, <2>1
  <2>3. slot' \subseteq slot
    BY <1>7
  <2>4. IsFiniteSet(slot') /\ Cardinality(slot') <= Cardinality(slot)
    BY <1>6, <2>3, FS_Subset
  <2>5. Cardinality(slot') \in Nat /\ Cardinality(slot) \in Nat /\ Depth \in Nat
    BY <1>6, <2>4, FS_CardinalityType, GraphTypes
  <2>6. Cardinality(slot') <= Depth
    BY <1>6, <2>4, <2>5
  <2> QED BY <1>6, <1>7, <2>1, <2>2, <2>3, <2>4, <2>6 DEF Shared
<1>9. /\ \A t \in Target : owner'[t] = p <=> Owns(r, Jobs(p), t)
      /\ \A t \in Target, q \in DOMAIN ps : q # p => (owner'[t] = q <=> owner[t] = q)
  <2>1. \A q \in DOMAIN ps : q # None
    BY ProcFacts
  <2> QED BY <1>5, <1>7, <2>1
<1>10. /\ \A t \in Pooled : <<p, t>> \in slot' <=> Uses(r, Scripts(p), t)
       /\ \A t \in Pooled, q \in DOMAIN ps : q # p => (<<q, t>> \in slot' <=> <<q, t>> \in slot)
  BY <1>5, <1>7
<1> QED BY <1>2, <1>3, <1>4, <1>8, <1>9, <1>10, PutStep

(* Tokens. *)
LEMMA TokenSteps ==
    ASSUME TreeInv, graph' = graph, NEW p \in DOMAIN ps, ReadToken(p) \/ WaitAllRelease(p)
    PROVE  TreeInv'
<1>0. ps[p] \in Proc /\ Shape(ps[p]) /\ Fits(ps[p], Jobs(p)) /\ Shared
  BY ProcFacts
<1>1. PICK r : Put(p, r) /\ (r = [ps[p] EXCEPT !.my = @ - 1] \/ r = [ps[p] EXCEPT !.my = @ + 1])
  <2>1. CASE ReadToken(p)
    BY <2>1 DEF ReadToken, Put
  <2>2. CASE WaitAllRelease(p)
    BY <2>2 DEF WaitAllRelease, PutReleasing
  <2> QED BY <2>1, <2>2
<1>2. /\ r \in Proc /\ r.job = ps[p].job /\ r.tgt = ps[p].tgt /\ r.cmd = ps[p].cmd
      /\ Shape(r) /\ Fits(r, Jobs(p))
      /\ \A t : Owns(r, Jobs(p), t) <=> Owns(ps[p], Jobs(p), t)
      /\ \A t : Uses(r, Scripts(p), t) <=> Uses(ps[p], Scripts(p), t)
  BY <1>0, <1>1, TokenOnly
<1>3. owner' = owner /\ slot' = slot /\ st' = st /\ starts' = starts /\ pipe' \in Int
  BY <1>0 DEF ReadToken, WaitAllRelease, PutReleasing, Shared
<1>4. st' \in [Target -> Verdicts] /\ starts' \in [Target -> Nat]
  BY <1>0, <1>3 DEF Shared
<1> QED BY <1>1, <1>2, <1>3, <1>4, PlainStep


-----------------------------------------------------------------------------
(* run_ifchange, step by step. *)
LEMMA FirstPassStep ==
    ASSUME TreeInv, graph' = graph, NEW p \in DOMAIN ps, Live(p), FirstPass(p)
    PROVE  TreeInv'
<1>0. /\ ps[p] \in Proc /\ Shape(ps[p]) /\ Fits(ps[p], Jobs(p)) /\ Shared
      /\ ps[p].cmd = "ifchange" /\ ps[p].pc = "next" /\ ps[p].todo # <<>> /\ ps[p].todo \in Seq(Target)
  BY ProcFacts DEF FirstPass, Proc
<1>1. PICK t \in Target : t = Head(ps[p].todo)
  BY <1>0, ListFacts
<1>2. PICK r \in Proc : r = [ps[p] EXCEPT !.todo = Tail(@)]
  <2>1. Tail(ps[p].todo) \in Seq(Target)
    BY <1>0, ListFacts
  <2> QED BY <1>0, <2>1 DEF Proc
<1>3. /\ r.job = ps[p].job /\ r.tgt = ps[p].tgt /\ r.cmd = "ifchange" /\ r.pc = "next"
      /\ r.todo = Tail(ps[p].todo) /\ r.locked \in Seq(Target)
  BY <1>0, <1>2 DEF Proc
<1>4. IsInjective(Tail(ps[p].todo)) /\ t \notin Range(r.todo) /\ Range(r.todo) \cap Jobs(p) = {}
  BY <1>0, <1>1, <1>3, ListFacts DEF Shape, Fits
<1>5. Shape(r) /\ Fits(r, Jobs(p) \cup {t}) /\ Fits(r, Jobs(p))
  BY <1>0, <1>3, <1>4 DEF Shape, Fits, Quiet
<1>6. CASE owner[t] = None /\ Handle(p, r, t)
  BY <1>0, <1>3, <1>5, <1>6, HandleStep
<1>7. CASE Put(p, [r EXCEPT !.locked = Append(@, t)]) /\ UNCHANGED <<pipe, owner, slot, st, starts>>
  <2>1. PICK s \in Proc : s = [r EXCEPT !.locked = Append(@, t)]
    <3>1. Append(r.locked, t) \in Seq(Target)
      BY <1>3, ListFacts
    <3> QED BY <3>1 DEF Proc
  <2>2. /\ s.job = r.job /\ s.tgt = r.tgt /\ s.cmd = r.cmd /\ s.pc = r.pc /\ s.todo = r.todo
        /\ s.cur = r.cur /\ s.rc = r.rc
    BY <2>1 DEF Proc
  <2>3. Shape(s) /\ Fits(s, Jobs(p))
    BY <1>5, <2>2 DEF Shape, Fits, Quiet
  <2>4. /\ \A u : Owns(s, Jobs(p), u) <=> Owns(ps[p], Jobs(p), u)
        /\ \A u : Uses(s, Scripts(p), u) <=> Uses(ps[p], Scripts(p), u)
    BY <1>0, <1>3, <2>2 DEF Owns, Uses
  <2>5. pipe' \in Int /\ st' \in [Target -> Verdicts] /\ starts' \in [Target -> Nat]
    BY <1>0, <1>7 DEF Shared
  <2> QED BY <1>0, <1>3, <1>7, <2>1, <2>2, <2>3, <2>4, <2>5, PlainStep
<1>8. (owner[t] = None /\ Handle(p, r, t))
       \/ (Put(p, [r EXCEPT !.locked = Append(@, t)]) /\ UNCHANGED <<pipe, owner, slot, st, starts>>)
  BY <1>1, <1>2 DEF FirstPass
<1> QED BY <1>6, <1>7, <1>8

LEMMA LoopHeadStep ==
    ASSUME TreeInv, graph' = graph, NEW p \in DOMAIN ps, Live(p), LoopHead(p)
    PROVE  TreeInv'
<1>0. /\ ps[p] \in Proc /\ Shape(ps[p]) /\ Fits(ps[p], Jobs(p)) /\ Shared /\ Tree
      /\ ps[p].cmd = "ifchange" /\ ps[p].pc \in {"loop", "next"}
  BY ProcFacts DEF LoopHead
<1>1. PICK x \in {"end", "waitall"} :
         x = IF ps[p].locked \o ps[p].blocked = <<>> /\ Kids(p) = {} THEN "end" ELSE "waitall"
  OBVIOUS
<1>2. x = "end" => Jobs(p) = {}
  BY <1>0, <1>1, KidsAre
<1>3. PICK r \in Proc : r = [ps[p] EXCEPT !.todo = <<>>, !.pc = x]
  <2>1. PICK e \in Seq(Target) : e = <<>>
    BY EmptySeq
  <2>2. [ps[p] EXCEPT !.todo = e, !.pc = x] \in Proc
    BY <1>0 DEF Proc
  <2> QED BY <2>1, <2>2
<1>4. /\ r.job = ps[p].job /\ r.tgt = ps[p].tgt /\ r.cmd = "ifchange" /\ r.pc = x
      /\ r.todo = <<>> /\ r.rc = ps[p].rc
  BY <1>0, <1>3 DEF Proc
<1>5. Shape(r) /\ Fits(r, Jobs(p))
  <2>1. IsInjective(<<>>)
    BY DEF IsInjective
  <2> QED BY <1>0, <1>1, <1>2, <1>4, <2>1 DEF Shape, Fits, Quiet
<1>6. /\ \A u : Owns(r, Jobs(p), u) <=> Owns(ps[p], Jobs(p), u)
      /\ \A u : Uses(r, Scripts(p), u) <=> Uses(ps[p], Scripts(p), u)
  BY <1>0, <1>1, <1>4 DEF Owns, Uses
<1>7. Put(p, r) /\ UNCHANGED <<pipe, owner, slot, st, starts>>
  BY <1>1, <1>3 DEF LoopHead
<1>8. pipe' \in Int /\ st' \in [Target -> Verdicts] /\ starts' \in [Target -> Nat]
  BY <1>0, <1>7 DEF Shared
<1> QED BY <1>0, <1>4, <1>5, <1>6, <1>7, <1>8, PlainStep

(* p has the lock of a target it put off, or waits for it. *)
LEMMA CheckedStep ==
    ASSUME TreeInv, graph' = graph, NEW p \in DOMAIN ps, Live(p), NEW r \in Proc, NEW t \in Target,
           ps[p].pc \in {"self", "relock"},
           r.job = ps[p].job, r.tgt = ps[p].tgt, r.cmd = ps[p].cmd, r.pc = "loop", r.todo = ps[p].todo,
           (owner[t] = None /\ Checked(p, r, t)) \/ LockWait(p, r, t)
    PROVE  TreeInv'
<1>0. /\ ps[p] \in Proc /\ Shape(ps[p]) /\ Fits(ps[p], Jobs(p)) /\ Shared
      /\ ps[p].cmd = "ifchange" /\ Jobs(p) = {} /\ ps[p].todo = <<>>
  BY ProcFacts DEF Shape, Fits, Quiet
<1>1. Shape(r) /\ \A J : Fits(r, J)
  BY <1>0 DEF Shape, Fits, Quiet
<1>2. Scripts(p) = {}
  BY <1>0 DEF Scripts
<1>3. ASSUME NEW s \in Proc, s.cmd = "ifchange", s.pc \in {"loop", "lockwait"}
      PROVE  /\ \A u : Owns(s, Jobs(p), u) <=> Owns(ps[p], Jobs(p), u)
             /\ \A u : Uses(s, Scripts(p), u) <=> Uses(ps[p], Scripts(p), u)
  BY <1>0, <1>2, <1>3 DEF Owns, Uses
<1>4. CASE owner[t] = None /\ Handle(p, r, t)
  BY <1>0, <1>1, <1>4, HandleStep
<1>5. CASE Put(p, [r EXCEPT !.rc = 2]) /\ UNCHANGED <<pipe, owner, slot, st, starts>>
  <2>1. PICK s \in Proc : s = [r EXCEPT !.rc = 2]
    <3>1. PICK two \in 0..2 : two = 2
      OBVIOUS
    <3>2. [r EXCEPT !.rc = two] \in Proc
      BY DEF Proc
    <3> QED BY <3>1, <3>2
  <2>2. /\ s.job = r.job /\ s.tgt = r.tgt /\ s.cmd = r.cmd /\ s.pc = r.pc /\ s.todo = r.todo
    BY <2>1 DEF Proc
  <2>3. Shape(s) /\ Fits(s, Jobs(p))
    BY <1>0, <2>2, <1>1 DEF Shape, Fits, Quiet
  <2>4. pipe' \in Int /\ st' \in [Target -> Verdicts] /\ starts' \in [Target -> Nat]
    BY <1>0, <1>5 DEF Shared
  <2> QED BY <1>0, <1>3, <1>5, <2>1, <2>2, <2>3, <2>4, PlainStep
<1>6. CASE LockWait(p, r, t)
  <2>1. PICK b \in Proc : b = [r EXCEPT !.pc = "lockwait", !.cur = t]
    BY DEF Proc
  <2>2. PICK s : s = [b EXCEPT !.my = @ - 1]
    OBVIOUS
  <2>3. /\ b.job = r.job /\ b.tgt = r.tgt /\ b.cmd = r.cmd /\ b.pc = "lockwait" /\ b.todo = r.todo
        /\ b.cur = t
    BY <2>1 DEF Proc
  <2>4. Shape(b) /\ Fits(b, Jobs(p))
    BY <1>0, <1>1, <2>3 DEF Shape, Fits, Quiet
  <2>5. /\ s \in Proc /\ s.job = r.job /\ s.tgt = r.tgt /\ s.cmd = r.cmd /\ s.pc = "lockwait"
        /\ Shape(s) /\ Fits(s, Jobs(p))
    BY <2>2, <2>3, <2>4, TokenOnly
  <2>6. Put(p, s) /\ pipe' = pipe + 1 /\ UNCHANGED <<owner, slot, st, starts>>
    BY <1>6, <2>1, <2>2 DEF LockWait, PutReleasing
  <2>7. pipe' \in Int /\ st' \in [Target -> Verdicts] /\ starts' \in [Target -> Nat]
    BY <1>0, <2>6 DEF Shared
  <2> QED BY <1>0, <1>3, <2>5, <2>6, <2>7, PlainStep
<1> QED BY <1>4, <1>5, <1>6 DEF Checked

LEMMA SecondPassSteps ==
    ASSUME TreeInv, graph' = graph, NEW p \in DOMAIN ps, Live(p),
           SecondPassLocked(p) \/ SecondPassBlocked(p) \/ SecondPassEnd(p) \/ Relock(p)
    PROVE  TreeInv'
<1>0. /\ ps[p] \in Proc /\ Shape(ps[p]) /\ Fits(ps[p], Jobs(p)) /\ Shared
      /\ ps[p].pc \in {"self", "relock"} /\ ps[p].cmd = "ifchange" /\ Jobs(p) = {}
      /\ ps[p].locked \in Seq(Target) /\ ps[p].blocked \in Seq(Target) /\ ps[p].todo = <<>>
  BY ProcFacts DEF SecondPassLocked, SecondPassBlocked, SecondPassEnd, Relock, Proc, Shape, Fits, Quiet
<1>1. Scripts(p) = {} /\ IsInjective(<<>>)
  BY <1>0 DEF Scripts, IsInjective
<1>2. ASSUME NEW s \in Proc, s.cmd = "ifchange", s.pc \in {"loop", "end"}, s.todo = <<>>,
             s.job = ps[p].job, s.tgt = ps[p].tgt,
             Put(p, s), UNCHANGED <<pipe, owner, slot, st, starts>>
      PROVE  TreeInv'
  <2>1. Shape(s) /\ Fits(s, Jobs(p))
    BY <1>0, <1>1, <1>2 DEF Shape, Fits, Quiet
  <2>2. /\ \A u : Owns(s, Jobs(p), u) <=> Owns(ps[p], Jobs(p), u)
        /\ \A u : Uses(s, Scripts(p), u) <=> Uses(ps[p], Scripts(p), u)
    BY <1>0, <1>1, <1>2 DEF Owns, Uses
  <2>3. pipe' \in Int /\ st' \in [Target -> Verdicts] /\ starts' \in [Target -> Nat]
    BY <1>0, <1>2 DEF Shared
  <2> QED BY <1>0, <1>2, <2>1, <2>2, <2>3, PlainStep
<1>3. CASE SecondPassLocked(p)
  <2>1. PICK t \in Target : t = Head(ps[p].locked)
    BY <1>0, <1>3, ListFacts DEF SecondPassLocked
  <2>2. PICK r \in Proc : r = [ps[p] EXCEPT !.locked = Tail(@), !.pc = "loop"]
    <3>1. Tail(ps[p].locked) \in Seq(Target)
      BY <1>0, <1>3, ListFacts DEF SecondPassLocked
    <3> QED BY <1>0, <3>1 DEF Proc
  <2>3. /\ r.job = ps[p].job /\ r.tgt = ps[p].tgt /\ r.cmd = ps[p].cmd /\ r.pc = "loop"
        /\ r.todo = ps[p].todo
    BY <1>0, <2>2 DEF Proc
  <2>4. (owner[t] = None /\ Checked(p, r, t)) \/ LockWait(p, r, t)
    BY <1>3, <2>1, <2>2 DEF SecondPassLocked
  <2> QED BY <1>0, <2>3, <2>4, CheckedStep
<1>4. CASE SecondPassBlocked(p)
  <2>1. PICK t \in Target : t = Head(ps[p].blocked)
    BY <1>0, <1>4, ListFacts DEF SecondPassBlocked
  <2>2. PICK r \in Proc : r = [ps[p] EXCEPT !.blocked = Tail(@), !.pc = "loop"]
    <3>1. Tail(ps[p].blocked) \in Seq(Target)
      BY <1>0, <1>4, ListFacts DEF SecondPassBlocked
    <3> QED BY <1>0, <3>1 DEF Proc
  <2>3. /\ r.job = ps[p].job /\ r.tgt = ps[p].tgt /\ r.cmd = ps[p].cmd /\ r.pc = "loop"
        /\ r.todo = ps[p].todo /\ r.locked \in Seq(Target)
    BY <1>0, <2>2 DEF Proc
  <2>4. \/ owner[t] = None /\ Checked(p, r, t)
        \/ Put(p, [r EXCEPT !.locked = Append(@, t)]) /\ UNCHANGED <<pipe, owner, slot, st, starts>>
    BY <1>4, <2>1, <2>2 DEF SecondPassBlocked
  <2>5. CASE owner[t] = None /\ Checked(p, r, t)
    BY <1>0, <2>3, <2>5, CheckedStep
  <2>6. CASE Put(p, [r EXCEPT !.locked = Append(@, t)]) /\ UNCHANGED <<pipe, owner, slot, st, starts>>
    <3>1. PICK s \in Proc : s = [r EXCEPT !.locked = Append(@, t)]
      <4>1. Append(r.locked, t) \in Seq(Target)
        BY <2>3, ListFacts
      <4> QED BY <4>1 DEF Proc
    <3>2. s.cmd = "ifchange" /\ s.pc = "loop" /\ s.todo = <<>> /\ s.job = ps[p].job /\ s.tgt = ps[p].tgt
      BY <1>0, <2>3, <3>1 DEF Proc
    <3> QED BY <1>2, <2>6, <3>1, <3>2
  <2> QED BY <2>4, <2>5, <2>6
<1>5. CASE SecondPassEnd(p)
  <2>1. PICK s \in Proc : s = [ps[p] EXCEPT !.pc = "end"]
    BY <1>0 DEF Proc
  <2>2. s.cmd = "ifchange" /\ s.pc = "end" /\ s.todo = <<>> /\ s.job = ps[p].job /\ s.tgt = ps[p].tgt
    BY <1>0, <2>1 DEF Proc
  <2> QED BY <1>2, <1>5, <2>1, <2>2 DEF SecondPassEnd
<1>6. CASE Relock(p)
  <2>1. PICK t \in Target : t = ps[p].cur
    BY <1>0, <1>6 DEF Relock, Shape
  <2>2. PICK r \in Proc : r = [ps[p] EXCEPT !.pc = "loop", !.cur = None]
    BY <1>0 DEF Proc
  <2>3. /\ r.job = ps[p].job /\ r.tgt = ps[p].tgt /\ r.cmd = ps[p].cmd /\ r.pc = "loop"
        /\ r.todo = ps[p].todo
    BY <1>0, <2>2 DEF Proc
  <2>4. (owner[t] = None /\ Checked(p, r, t)) \/ LockWait(p, r, t)
    BY <1>6, <2>1, <2>2 DEF Relock
  <2> QED BY <1>0, <2>3, <2>4, CheckedStep
<1> QED BY <1>3, <1>4, <1>5, <1>6


(* p takes or gives up one lock. *)
LEMMA LockStep ==
    ASSUME TreeInv, graph' = graph, NEW p \in DOMAIN ps, NEW r \in Proc, NEW t \in Target, Put(p, r),
           slot' = slot, pipe' \in Int, st' \in [Target -> Verdicts], starts' \in [Target -> Nat],
           r.job = ps[p].job, r.tgt = ps[p].tgt, r.cmd = ps[p].cmd, Shape(r), Fits(r, Jobs(p)),
           \/ owner' = [owner EXCEPT ![t] = p] /\ owner[t] = None /\ Owns(r, Jobs(p), t)
           \/ owner' = [owner EXCEPT ![t] = None] /\ owner[t] = p /\ ~Owns(r, Jobs(p), t),
           \A u \in Target : u # t => (Owns(r, Jobs(p), u) <=> Owns(ps[p], Jobs(p), u)),
           \A u \in Target : Uses(r, Scripts(p), u) <=> Uses(ps[p], Scripts(p), u)
    PROVE  TreeInv'
<1>0. LocksOK(p) /\ SlotsOK(p) /\ Shared /\ \A q \in DOMAIN ps : q # None
  BY ProcFacts
<1>1. DOMAIN ps' = DOMAIN ps /\ Pooled' = Pooled /\ Depth' = Depth /\ Pooled \subseteq Target
  BY <1>0, GraphTypes DEF Put, Pooled, Depth, Shared
<1>2. owner \in [Target -> (DOMAIN ps) \cup {None}]
  BY <1>0 DEF Shared
<1>3. owner' \in [Target -> (DOMAIN ps) \cup {None}]
  BY <1>2
<1>4. Shared'
  BY <1>0, <1>1, <1>3 DEF Shared
<1>5. \A u \in Target : owner'[u] = p <=> Owns(r, Jobs(p), u)
  BY <1>0, <1>2 DEF LocksOK
<1>6. \A u \in Target, q \in DOMAIN ps : q # p => (owner'[u] = q <=> owner[u] = q)
  BY <1>0, <1>2
<1>7. /\ \A u \in Pooled : <<p, u>> \in slot' <=> Uses(r, Scripts(p), u)
      /\ \A u \in Pooled, q \in DOMAIN ps : q # p => (<<q, u>> \in slot' <=> <<q, u>> \in slot)
  BY <1>0, <1>1 DEF SlotsOK
<1> QED BY <1>4, <1>5, <1>6, <1>7, PutStep

LEMMA WaitedLockSteps ==
    ASSUME TreeInv, graph' = graph, NEW p \in DOMAIN ps, Live(p), LockWaitDone(p) \/ GiveUpLock(p)
    PROVE  TreeInv'
<1>0. /\ ps[p] \in Proc /\ Shape(ps[p]) /\ Fits(ps[p], Jobs(p)) /\ Shared /\ LocksOK(p)
      /\ ps[p].pc \in {"lockwait", "gotlock"} /\ ps[p].cmd = "ifchange" /\ Jobs(p) = {}
      /\ ps[p].todo = <<>> /\ ps[p].cur \in Target
  BY ProcFacts DEF LockWaitDone, GiveUpLock, Shape, Fits, Quiet
<1>1. PICK t \in Target : t = ps[p].cur
  BY <1>0
<1>2. PICK r \in Proc : r = [ps[p] EXCEPT !.pc = IF LockWaitDone(p) THEN "gotlock" ELSE "relock"]
  BY <1>0 DEF Proc
<1>3. /\ r.job = ps[p].job /\ r.tgt = ps[p].tgt /\ r.cmd = "ifchange" /\ r.cur = t /\ r.todo = <<>>
      /\ r.pc = IF LockWaitDone(p) THEN "gotlock" ELSE "relock"
  BY <1>0, <1>1, <1>2 DEF Proc
<1>4. Shape(r) /\ Fits(r, Jobs(p))
  BY <1>0, <1>3 DEF Shape, Fits, Quiet
<1>5. /\ Put(p, r) /\ UNCHANGED <<pipe, slot, st, starts>>
      /\ LockWaitDone(p) => owner' = [owner EXCEPT ![t] = p] /\ owner[t] = None
      /\ ~LockWaitDone(p) => owner' = [owner EXCEPT ![t] = None] /\ ps[p].pc = "gotlock"
  BY <1>1, <1>2 DEF LockWaitDone, GiveUpLock
<1>6. pipe' \in Int /\ st' \in [Target -> Verdicts] /\ starts' \in [Target -> Nat]
  BY <1>0, <1>5 DEF Shared
<1>7. /\ LockWaitDone(p) => Owns(r, Jobs(p), t)
      /\ ~LockWaitDone(p) => ~Owns(r, Jobs(p), t) /\ owner[t] = p
  <2>1. ~LockWaitDone(p) => Owns(ps[p], Jobs(p), t)
    BY <1>0, <1>1, <1>5 DEF Owns
  <2> QED BY <1>0, <1>3, <2>1 DEF Owns, LocksOK
<1>8. /\ \A u \in Target : u # t => (Owns(r, Jobs(p), u) <=> Owns(ps[p], Jobs(p), u))
      /\ \A u \in Target : Uses(r, Scripts(p), u) <=> Uses(ps[p], Scripts(p), u)
  BY <1>0, <1>1, <1>3 DEF Owns, Uses, Scripts
<1> QED BY <1>0, <1>3, <1>4, <1>5, <1>6, <1>7, <1>8, LockStep

LEMMA ExitSteps ==
    ASSUME TreeInv, graph' = graph, NEW p \in DOMAIN ps, Live(p),
           CycleFound(p) \/ SelfCheckFails(p) \/ CommandEnd(p)
    PROVE  TreeInv'
<1>0. Shape(ps[p]) /\ Fits(ps[p], Jobs(p)) /\ Shared /\ Tree
  BY ProcFacts
<1>1. CASE CycleFound(p)
  <2>1. ps[p].cmd = "ifchange" /\ Exit(p, 1) /\ pipe' \in Int
    BY <1>0, <1>1 DEF CycleFound, Shared
  <2> QED BY <2>1, ExitStep
<1>2. CASE SelfCheckFails(p)
  <2>1. Jobs(p) = {} /\ Exit(p, 1) /\ pipe' \in Int
    BY <1>0, <1>2, KidsAre DEF SelfCheckFails
  <2> QED BY <2>1, ExitStep
<1>3. CASE CommandEnd(p)
  <2>1. Jobs(p) = {} /\ pipe' \in Int
    BY <1>0, <1>3 DEF CommandEnd, Fits, Quiet, Shared
  <2>2. PICK code \in {0, 1} : Exit(p, code)
    BY <1>3 DEF CommandEnd
  <2> QED BY <2>1, <2>2, ExitStep
<1> QED BY <1>1, <1>2, <1>3

-----------------------------------------------------------------------------
(* build_one, step by step. *)
LEMMA BuildLockStep ==
    ASSUME TreeInv, graph' = graph, NEW p \in DOMAIN ps, Live(p), BuildLock(p)
    PROVE  TreeInv'
<1>0. /\ ps[p] \in Proc /\ Shape(ps[p]) /\ Fits(ps[p], Jobs(p)) /\ Shared
      /\ ps[p].cmd = "redo" /\ ps[p].pc = "next" /\ ps[p].todo # <<>> /\ ps[p].todo \in Seq(Target)
      /\ Jobs(p) = {} /\ UNCHANGED <<pipe, slot, st, starts>>
  BY ProcFacts DEF BuildLock, Proc, Fits, Quiet
<1>1. PICK t \in Target : t = Head(ps[p].todo)
  BY <1>0, ListFacts
<1>2. pipe' \in Int /\ st' \in [Target -> Verdicts] /\ starts' \in [Target -> Nat]
  BY <1>0 DEF Shared
<1>3. CASE Put(p, [ps[p] EXCEPT !.todo = Tail(@), !.rc = 1]) /\ owner' = owner
  <2>0. PICK one \in 0..2 : one = 1
    OBVIOUS
  <2>1. PICK l \in Seq(Target) : l = Tail(ps[p].todo)
    BY <1>0, ListFacts
  <2>2. PICK r \in Proc : r = [ps[p] EXCEPT !.todo = l, !.rc = one]
    BY <1>0 DEF Proc
  <2>3. /\ r.job = ps[p].job /\ r.tgt = ps[p].tgt /\ r.cmd = ps[p].cmd /\ r.pc = "next"
    BY <1>0, <2>2 DEF Proc
  <2>4. Shape(r) /\ Fits(r, Jobs(p))
    BY <1>0, <2>3 DEF Shape, Fits, Quiet
  <2>5. /\ \A u \in Target : Owns(r, Jobs(p), u) <=> Owns(ps[p], Jobs(p), u)
        /\ \A u \in Target : Uses(r, Scripts(p), u) <=> Uses(ps[p], Scripts(p), u)
    BY <1>0, <2>3 DEF Owns, Uses
  <2>6. Put(p, r)
    BY <1>3, <2>0, <2>1, <2>2
  <2> QED BY <1>0, <1>2, <1>3, <2>3, <2>4, <2>5, <2>6, PlainStep
<1>4. CASE /\ owner[t] = None /\ owner' = [owner EXCEPT ![t] = p]
           /\ Put(p, [ps[p] EXCEPT !.pc = "own"])
  <2>1. PICK r \in Proc : r = [ps[p] EXCEPT !.pc = "own"]
    BY <1>0 DEF Proc
  <2>2. /\ r.job = ps[p].job /\ r.tgt = ps[p].tgt /\ r.cmd = "redo" /\ r.pc = "own"
        /\ r.todo = ps[p].todo
    BY <1>0, <2>1 DEF Proc
  <2>3. Shape(r) /\ Fits(r, Jobs(p))
    BY <1>0, <2>2 DEF Shape, Fits, Quiet
  <2>4. /\ Owns(r, Jobs(p), t)
        /\ \A u \in Target : u # t => (Owns(r, Jobs(p), u) <=> Owns(ps[p], Jobs(p), u))
        /\ \A u \in Target : Uses(r, Scripts(p), u) <=> Uses(ps[p], Scripts(p), u)
    BY <1>0, <1>1, <2>2 DEF Owns, Uses
  <2> QED BY <1>0, <1>2, <1>4, <2>1, <2>2, <2>3, <2>4, LockStep
<1> QED BY <1>1, <1>3, <1>4 DEF BuildLock

LEMMA BuildUnlockedStep ==
    ASSUME TreeInv, graph' = graph, NEW p \in DOMAIN ps, Live(p), BuildUnlocked(p)
    PROVE  TreeInv'
<1>0. /\ ps[p] \in Proc /\ Shape(ps[p]) /\ Fits(ps[p], Jobs(p)) /\ Shared
      /\ ps[p].cmd = "unlocked" /\ ps[p].pc = "next" /\ ps[p].todo # <<>> /\ ps[p].todo \in Seq(Target)
      /\ Jobs(p) = {} /\ UNCHANGED <<pipe, owner, slot, starts>>
  BY ProcFacts DEF BuildUnlocked, Proc, Fits, Quiet
<1>1. PICK t \in Target : t = Head(ps[p].todo)
  BY <1>0, ListFacts
<1>2. pipe' \in Int /\ starts' \in [Target -> Nat] /\ st \in [Target -> Verdicts]
  BY <1>0 DEF Shared
<1>3. ASSUME NEW r \in Proc, Put(p, r), st' \in [Target -> Verdicts], r.job = ps[p].job,
             r.tgt = ps[p].tgt, r.cmd = "unlocked",
             (r.pc = "own" /\ r.todo = ps[p].todo) \/ (r.pc = "next" /\ r.todo = Tail(ps[p].todo))
      PROVE  TreeInv'
  <2>1. Tail(ps[p].todo) = <<>>
    <3>1. ps[p].todo = <<ps[p].tgt>>
      BY <1>0 DEF Shape
    <3> QED BY <3>1
  <2>2. Shape(r) /\ Fits(r, Jobs(p))
    BY <1>0, <1>3, <2>1 DEF Shape, Fits, Quiet
  <2>3. /\ \A u \in Target : Owns(r, Jobs(p), u) <=> Owns(ps[p], Jobs(p), u)
        /\ \A u \in Target : Uses(r, Scripts(p), u) <=> Uses(ps[p], Scripts(p), u)
    BY <1>0, <1>3 DEF Owns, Uses
  <2> QED BY <1>0, <1>2, <1>3, <2>2, <2>3, PlainStep
<1>4. CASE Put(p, [ps[p] EXCEPT !.todo = Tail(@)]) /\ st' = [st EXCEPT ![t] = "ok"]
  <2>1. PICK l \in Seq(Target) : l = Tail(ps[p].todo)
    BY <1>0, ListFacts
  <2>2. PICK r \in Proc : r = [ps[p] EXCEPT !.todo = l]
    BY <1>0 DEF Proc
  <2>3. /\ r.job = ps[p].job /\ r.tgt = ps[p].tgt /\ r.cmd = "unlocked" /\ r.pc = "next" /\ r.todo = l
    BY <1>0, <2>2 DEF Proc
  <2>4. st' \in [Target -> Verdicts]
    BY <1>2, <1>4 DEF Verdicts
  <2>5. Put(p, r)
    BY <1>4, <2>1, <2>2
  <2> QED BY <1>3, <2>1, <2>3, <2>4, <2>5
<1>5. CASE Put(p, [ps[p] EXCEPT !.pc = "own"]) /\ st' = st
  <2>1. PICK r \in Proc : r = [ps[p] EXCEPT !.pc = "own"]
    BY <1>0 DEF Proc
  <2>2. /\ r.job = ps[p].job /\ r.tgt = ps[p].tgt /\ r.cmd = "unlocked" /\ r.pc = "own"
        /\ r.todo = ps[p].todo
    BY <1>0, <2>1 DEF Proc
  <2> QED BY <1>2, <1>3, <1>5, <2>1, <2>2
<1> QED BY <1>1, <1>4, <1>5 DEF BuildUnlocked


LEMMA BuildPoolStep ==
    ASSUME TreeInv, graph' = graph, NEW p \in DOMAIN ps, Live(p), BuildPool(p)
    PROVE  TreeInv'
<1>0. /\ ps[p] \in Proc /\ Shape(ps[p]) /\ Fits(ps[p], Jobs(p)) /\ Shared /\ LocksOK(p) /\ SlotsOK(p)
      /\ ps[p].pc \in {"own", "poolwait"} /\ ps[p].cmd \in {"redo", "unlocked"}
      /\ ps[p].todo # <<>> /\ ps[p].todo \in Seq(Target)
      /\ Jobs(p) = {} /\ UNCHANGED <<owner, st, starts>>
  BY ProcFacts DEF BuildPool, Proc, Shape, Fits, Quiet
<1>1. PICK t \in Target : t = Head(ps[p].todo)
  BY <1>0, ListFacts
<1>2. /\ st' \in [Target -> Verdicts] /\ starts' \in [Target -> Nat] /\ pipe \in Int
      /\ graph \in DOMAIN Graphs /\ owner' \in [Target -> (DOMAIN ps) \cup {None}]
  BY <1>0 DEF Shared
<1>3. CASE SlotFree(t) /\ TakeSlot(p, t) /\ Put(p, [ps[p] EXCEPT !.pc = "bstart"]) /\ UNCHANGED pipe
  <2>1. PICK r \in Proc : r = [ps[p] EXCEPT !.pc = "bstart"]
    BY <1>0 DEF Proc
  <2>2. /\ r.job = ps[p].job /\ r.tgt = ps[p].tgt /\ r.cmd = ps[p].cmd /\ r.pc = "bstart"
        /\ r.todo = ps[p].todo
    BY <1>0, <2>1 DEF Proc
  <2>3. Shape(r) /\ Fits(r, Jobs(p))
    BY <1>0, <2>2 DEF Shape, Fits, Quiet
  <2>4. /\ slot' \subseteq (DOMAIN ps) \X Pooled
        /\ IsFiniteSet(slot') /\ Cardinality(slot') <= Depth
        /\ t \in Pooled => slot' = slot \cup {<<p, t>>}
        /\ t \notin Pooled => slot' = slot
    BY <1>0, <1>3, SlotTaken
  <2>5. Put(p, r) /\ DOMAIN ps' = DOMAIN ps /\ Pooled' = Pooled /\ Depth' = Depth
    BY <1>3, <2>1 DEF Put, Pooled, Depth
  <2>6. Shared'
    BY <1>2, <1>3, <2>4, <2>5 DEF Shared
  <2>7. \A u \in Target : owner'[u] = p <=> Owns(r, Jobs(p), u)
    BY <1>0, <2>2 DEF LocksOK, Owns
  <2>8. \A u \in Pooled : <<p, u>> \in slot' <=> Uses(r, Scripts(p), u)
    <3>1. \A u \in Pooled : <<p, u>> \notin slot
      BY <1>0 DEF SlotsOK, Uses
    <3>2. \A u \in Pooled : Uses(r, Scripts(p), u) <=> u = t
      BY <1>0, <1>1, <2>2 DEF Uses
    <3> QED BY <2>4, <3>1, <3>2
  <2>9. /\ \A u \in Pooled, q \in DOMAIN ps : q # p => (<<q, u>> \in slot' <=> <<q, u>> \in slot)
        /\ \A u \in Target, q \in DOMAIN ps : q # p => (owner'[u] = q <=> owner[u] = q)
    BY <1>0, <2>4
  <2> QED BY <2>2, <2>3, <2>5, <2>6, <2>7, <2>8, <2>9, PutStep
<1>4. CASE PutReleasing(p, [ps[p] EXCEPT !.pc = "poolwait"]) /\ UNCHANGED slot
  <2>1. PICK b \in Proc : b = [ps[p] EXCEPT !.pc = "poolwait"]
    BY <1>0 DEF Proc
  <2>2. PICK r : r = [b EXCEPT !.my = @ - 1]
    OBVIOUS
  <2>3. /\ b.job = ps[p].job /\ b.tgt = ps[p].tgt /\ b.cmd = ps[p].cmd /\ b.pc = "poolwait"
        /\ b.todo = ps[p].todo
    BY <1>0, <2>1 DEF Proc
  <2>4. Shape(b) /\ Fits(b, Jobs(p))
    BY <1>0, <2>3 DEF Shape, Fits, Quiet
  <2>5. /\ \A u : Owns(b, Jobs(p), u) <=> Owns(ps[p], Jobs(p), u)
        /\ \A u : Uses(b, Scripts(p), u) <=> Uses(ps[p], Scripts(p), u)
    BY <1>0, <2>3 DEF Owns, Uses
  <2>6. /\ r \in Proc /\ r.job = b.job /\ r.tgt = b.tgt /\ r.cmd = b.cmd /\ Shape(r) /\ Fits(r, Jobs(p))
        /\ \A u : Owns(r, Jobs(p), u) <=> Owns(b, Jobs(p), u)
        /\ \A u : Uses(r, Scripts(p), u) <=> Uses(b, Scripts(p), u)
    BY <2>2, <2>4, TokenOnly
  <2>7. Put(p, r) /\ pipe' \in Int
    BY <1>2, <1>4, <2>1, <2>2 DEF PutReleasing
  <2> QED BY <1>0, <1>2, <1>4, <2>3, <2>5, <2>6, <2>7, PlainStep
<1> QED BY <1>1, <1>3, <1>4 DEF BuildPool

LEMMA BuildStartStep ==
    ASSUME TreeInv, graph' = graph, NEW p \in DOMAIN ps, Live(p), BuildStart(p)
    PROVE  TreeInv'
<1>0. /\ ps[p] \in Proc /\ Shape(ps[p]) /\ Fits(ps[p], Jobs(p)) /\ Shared /\ LocksOK(p) /\ SlotsOK(p)
      /\ ps[p].pc = "bstart" /\ ps[p].cmd \in {"redo", "unlocked"}
      /\ ps[p].todo # <<>> /\ ps[p].todo \in Seq(Target) /\ ps[p].cyc \subseteq Target
      /\ Jobs(p) = {} /\ UNCHANGED <<pipe, owner, slot, st>>
  BY ProcFacts DEF BuildStart, Proc, Shape, Fits, Quiet
<1>1. PICK t \in Target : t = Head(ps[p].todo)
  BY <1>0, ListFacts
<1>2. /\ graph \in DOMAIN Graphs /\ owner \in [Target -> (DOMAIN ps) \cup {None}] /\ pipe \in Int
      /\ slot \subseteq (DOMAIN ps) \X Pooled /\ IsFiniteSet(slot) /\ Cardinality(slot) <= Depth
      /\ st \in [Target -> Verdicts] /\ starts \in [Target -> Nat] /\ Pooled \subseteq Target
      /\ Pooled' = Pooled /\ Depth' = Depth
  BY <1>0, GraphTypes DEF Shared, Pooled, Depth
<1>3. PICK b \in Proc : b = [ps[p] EXCEPT !.pc = "waitall"]
  BY <1>0 DEF Proc
<1>4. /\ b.job = ps[p].job /\ b.tgt = ps[p].tgt /\ b.cmd = ps[p].cmd /\ b.pc = "waitall"
      /\ b.todo = ps[p].todo
  BY <1>0, <1>3 DEF Proc
<1>5. PICK s : s = [b EXCEPT !.my = @ - 1]
  OBVIOUS
<1>6. /\ s \in Proc /\ s.job = ps[p].job /\ s.tgt = ps[p].tgt /\ s.cmd = ps[p].cmd
      /\ s.pc = "waitall" /\ s.todo = ps[p].todo
  BY <1>4, <1>5, TokenOnly
<1>7. Shape(s) /\ Fits(s, Jobs(p) \cup {t})
  BY <1>0, <1>1, <1>6 DEF Shape, Fits, Quiet
<1>8. PICK k \in Proc : k = DoJob(t, ps[p].cyc)
  BY <1>0, <1>2, DoJobFacts
<1>9. k.tgt = t /\ k.job = "do" /\ k.pc = "next" /\ Shape(k)
  BY <1>0, <1>2, <1>8, DoJobFacts
<1>10. Forked(p, s, t, k) /\ starts' = [starts EXCEPT ![t] = @ + 1]
  BY <1>1, <1>3, <1>5, <1>8 DEF BuildStart, Fork, Forked
<1>11. DOMAIN ps \subseteq DOMAIN ps'
  BY <1>10 DEF Forked
<1>12. Shared'
  <2>1. owner' \in [Target -> (DOMAIN ps') \cup {None}] /\ slot' \subseteq (DOMAIN ps') \X Pooled
    BY <1>0, <1>2, <1>11
  <2>2. starts' \in [Target -> Nat]
    BY <1>2, <1>10
  <2> QED BY <1>0, <1>2, <2>1, <2>2 DEF Shared
<1>13. k.job \in Kinds(s.cmd)
  BY <1>0, <1>6, <1>9 DEF Kinds
<1>14. /\ \A u \in Target : owner'[u] \in DOMAIN ps \cup {None}
       /\ \A u \in Target : owner'[u] = p <=> Owns(s, Jobs(p) \cup {t}, u)
       /\ \A u \in Target, q \in DOMAIN ps : q # p => (owner'[u] = q <=> owner[u] = q)
  BY <1>0, <1>2, <1>6 DEF LocksOK, Owns
<1>15. /\ slot' \subseteq (DOMAIN ps) \X Pooled
       /\ \A u \in Pooled : <<p, u>> \in slot'
            <=> Uses(s, IF k.job = "do" THEN Scripts(p) \cup {t} ELSE Scripts(p), u)
       /\ \A u \in Pooled, q \in DOMAIN ps : q # p => (<<q, u>> \in slot' <=> <<q, u>> \in slot)
  BY <1>0, <1>2, <1>6 DEF SlotsOK, Uses
<1> QED BY <1>0, <1>6, <1>7, <1>9, <1>10, <1>12, <1>13, <1>14, <1>15, ForkStep

(* The end of wait_all: the toplevel command may give a token back. *)
LEMMA AfterFacts ==
    ASSUME NEW p \in DOMAIN ps, NEW r \in Proc, AfterWaitAll(p, r), pipe \in Int
    PROVE  /\ pipe' \in Int
           /\ \E s \in Proc : /\ Put(p, s) /\ s.job = r.job /\ s.tgt = r.tgt /\ s.cmd = r.cmd
                              /\ s.pc = r.pc /\ s.todo = r.todo /\ s.locked = r.locked
                              /\ s.blocked = r.blocked /\ s.cur = r.cur /\ s.rc = r.rc
                              /\ s.got = r.got /\ s.cyc = r.cyc
<1>1. CASE PutReleasing(p, r)
  <2>1. PICK s : s = [r EXCEPT !.my = @ - 1]
    OBVIOUS
  <2>2. Put(p, s) /\ pipe' \in Int
    BY <1>1, <2>1 DEF PutReleasing
  <2>3. /\ s \in Proc /\ s.job = r.job /\ s.tgt = r.tgt /\ s.cmd = r.cmd
        /\ s.pc = r.pc /\ s.todo = r.todo /\ s.locked = r.locked
        /\ s.blocked = r.blocked /\ s.cur = r.cur /\ s.rc = r.rc
        /\ s.got = r.got /\ s.cyc = r.cyc
    BY <2>1, TokenOnly
  <2> QED BY <2>2, <2>3
<1>2. CASE Put(p, r) /\ pipe' = pipe
  BY <1>2
<1> QED BY <1>1, <1>2 DEF AfterWaitAll

LEMMA BuildDoneStep ==
    ASSUME TreeInv, graph' = graph, NEW p \in DOMAIN ps, Live(p), BuildDone(p)
    PROVE  TreeInv'
<1>0. /\ ps[p] \in Proc /\ Shape(ps[p]) /\ Fits(ps[p], Jobs(p)) /\ Shared /\ LocksOK(p) /\ SlotsOK(p)
      /\ ps[p].pc = "waitall" /\ ps[p].cmd \in {"redo", "unlocked"} /\ starts' = starts /\ Tree
      /\ ps[p].todo # <<>> /\ ps[p].todo \in Seq(Target) /\ ps[p].rc \in 0..2
  BY ProcFacts DEF BuildDone, Proc, Shape
<1>1. PICK t \in Target : t = Head(ps[p].todo)
  BY <1>0, ListFacts
<1>2. Jobs(p) = {} /\ Scripts(p) = {}
  BY <1>0, KidsAre DEF BuildDone, AfterWaitAll, Scripts
<1>3. PICK l \in Seq(Target) : l = Tail(ps[p].todo)
  BY <1>0, ListFacts
<1>4. PICK c \in 0..2 : c = IF ps[p].got # 0 THEN 1 ELSE ps[p].rc
  BY <1>0
<1>5. PICK r \in Proc : r = [ps[p] EXCEPT !.pc = "next", !.todo = l, !.rc = c]
  BY <1>0 DEF Proc
<1>6. /\ r.job = ps[p].job /\ r.tgt = ps[p].tgt /\ r.cmd = ps[p].cmd /\ r.pc = "next" /\ r.todo = l
  BY <1>0, <1>5 DEF Proc
<1>7. /\ AfterWaitAll(p, r)
      /\ st' = [st EXCEPT ![t] = IF ps[p].got = 0 THEN "ok" ELSE "failed"]
      /\ owner' = [owner EXCEPT ![t] = IF ps[p].cmd = "redo" THEN None ELSE @]
      /\ slot' = slot \ {<<p, t>>}
  BY <1>1, <1>3, <1>4, <1>5 DEF BuildDone
<1>8. /\ graph \in DOMAIN Graphs /\ owner \in [Target -> (DOMAIN ps) \cup {None}] /\ pipe \in Int
      /\ slot \subseteq (DOMAIN ps) \X Pooled /\ IsFiniteSet(slot) /\ Cardinality(slot) <= Depth
      /\ st \in [Target -> Verdicts] /\ starts \in [Target -> Nat] /\ Pooled \subseteq Target
      /\ Pooled' = Pooled /\ Depth' = Depth /\ Depth \in Nat
  BY <1>0, GraphTypes DEF Shared, Pooled, Depth
<1>9. PICK s \in Proc : /\ Put(p, s) /\ s.job = r.job /\ s.tgt = r.tgt /\ s.cmd = r.cmd
                        /\ s.pc = r.pc /\ s.todo = r.todo
  BY <1>7, <1>8, AfterFacts
<1>10. Shape(s) /\ Fits(s, Jobs(p))
  <2>1. ps[p].cmd = "unlocked" => l = <<>>
    <3>1. ps[p].cmd = "unlocked" => ps[p].todo = <<ps[p].tgt>>
      BY <1>0 DEF Shape
    <3> QED BY <1>3, <3>1
  <2> QED BY <1>0, <1>2, <1>6, <1>9, <2>1 DEF Shape, Fits, Quiet
<1>11. Shared'
  <2>1. DOMAIN ps' = DOMAIN ps /\ pipe' \in Int
    BY <1>7, <1>8, <1>9, AfterFacts DEF Put
  <2>2. owner' \in [Target -> (DOMAIN ps') \cup {None}] /\ st' \in [Target -> Verdicts]
    BY <1>7, <1>8, <2>1 DEF Verdicts
  <2>3. slot' \subseteq slot
    BY <1>7
  <2>4. IsFiniteSet(slot') /\ Cardinality(slot') <= Cardinality(slot)
    BY <1>8, <2>3, FS_Subset
  <2>5. Cardinality(slot') \in Nat /\ Cardinality(slot) \in Nat
    BY <1>8, <2>4, FS_CardinalityType
  <2>6. Cardinality(slot') <= Depth
    BY <1>8, <2>4, <2>5
  <2> QED BY <1>0, <1>8, <2>1, <2>2, <2>3, <2>4, <2>6 DEF Shared
<1>12. /\ \A u \in Target : owner'[u] = p <=> Owns(s, Jobs(p), u)
       /\ \A u \in Target, q \in DOMAIN ps : q # p => (owner'[u] = q <=> owner[u] = q)
  <2>1. \A u : ~Owns(s, Jobs(p), u)
    BY <1>0, <1>2, <1>6, <1>9 DEF Owns
  <2>2. \A u \in Target : owner[u] = p <=> ps[p].cmd = "redo" /\ u = t
    BY <1>0, <1>1, <1>2 DEF LocksOK, Owns
  <2>3. \A q \in DOMAIN ps : q # None
    BY ProcFacts
  <2> QED BY <1>7, <1>8, <2>1, <2>2, <2>3
<1>13. /\ \A u \in Pooled : <<p, u>> \in slot' <=> Uses(s, Scripts(p), u)
       /\ \A u \in Pooled, q \in DOMAIN ps : q # p => (<<q, u>> \in slot' <=> <<q, u>> \in slot)
  <2>1. \A u : ~Uses(s, Scripts(p), u)
    BY <1>0, <1>6, <1>9 DEF Uses
  <2>2. \A u \in Pooled : <<p, u>> \in slot <=> u = t
    BY <1>0, <1>1, <1>8 DEF SlotsOK, Uses
  <2> QED BY <1>7, <2>1, <2>2
<1> QED BY <1>0, <1>6, <1>9, <1>10, <1>11, <1>12, <1>13, PutStep


LEMMA WaitAllDoneStep ==
    ASSUME TreeInv, graph' = graph, NEW p \in DOMAIN ps, Live(p), WaitAllDone(p)
    PROVE  TreeInv'
<1>0. /\ ps[p] \in Proc /\ Shape(ps[p]) /\ Fits(ps[p], Jobs(p)) /\ Shared /\ Tree
      /\ ps[p].pc = "waitall" /\ ps[p].cmd \in {"ifchange", "spawn"} /\ pipe \in Int
      /\ UNCHANGED <<owner, slot, st, starts>>
  BY ProcFacts DEF WaitAllDone, AfterWaitAll, Shared
<1>1. Jobs(p) = {} /\ Scripts(p) = {}
  BY <1>0, KidsAre DEF WaitAllDone, AfterWaitAll, Scripts
<1>2. PICK x \in {"self", "end"} : x = IF ps[p].cmd = "ifchange" THEN "self" ELSE "end"
  OBVIOUS
<1>3. PICK r \in Proc : r = [ps[p] EXCEPT !.pc = x]
  BY <1>0 DEF Proc
<1>4. r.job = ps[p].job /\ r.tgt = ps[p].tgt /\ r.cmd = ps[p].cmd /\ r.pc = x /\ r.todo = ps[p].todo
  BY <1>0, <1>3 DEF Proc
<1>5. AfterWaitAll(p, r)
  BY <1>2, <1>3 DEF WaitAllDone
<1>6. PICK s \in Proc : /\ Put(p, s) /\ s.job = r.job /\ s.tgt = r.tgt /\ s.cmd = r.cmd
                        /\ s.pc = r.pc /\ s.todo = r.todo
  BY <1>0, <1>5, AfterFacts
<1>7. Shape(s) /\ Fits(s, Jobs(p))
  BY <1>0, <1>1, <1>2, <1>4, <1>6 DEF Shape, Fits, Quiet
<1>8. /\ \A u \in Target : Owns(s, Jobs(p), u) <=> Owns(ps[p], Jobs(p), u)
      /\ \A u \in Target : Uses(s, Scripts(p), u) <=> Uses(ps[p], Scripts(p), u)
  BY <1>0, <1>1, <1>2, <1>4, <1>6 DEF Owns, Uses
<1>9. pipe' \in Int /\ st' \in [Target -> Verdicts] /\ starts' \in [Target -> Nat]
  BY <1>0, <1>5, AfterFacts DEF Shared
<1> QED BY <1>0, <1>4, <1>6, <1>7, <1>8, <1>9, PlainStep

(* A job is the job of a process, for its target. *)
LEMMA ParentOf ==
    ASSUME TreeInv, NEW p \in DOMAIN ps, p # Top
    PROVE  \E q \in DOMAIN ps, t \in Target :
              /\ p = Append(q, t) /\ t \in Jobs(q) /\ ps[p].tgt = t
              /\ ps[p].job \in Kinds(ps[q].cmd) /\ IsPrefix(q, p)
<1>0. /\ p \in Seq(Target)
      /\ \A q \in Seq(Target), t \in Target : Append(q, t) \in DOMAIN ps => q \in DOMAIN ps
  BY DEF TreeInv, Tree
<1>1. PICK q \in Seq(Target), t \in Target : p = Append(q, t)
  BY <1>0, PathParent
<1>2. q \in DOMAIN ps /\ t \in Jobs(q)
  BY <1>0, <1>1 DEF Jobs
<1>3. ps[p].tgt = t /\ ps[p].job \in Kinds(ps[q].cmd)
  BY <1>1, <1>2, ProcFacts DEF KidsOK
<1>4. IsPrefix(q, p)
  BY <1>1, PrefixAppend
<1> QED BY <1>1, <1>2, <1>3, <1>4

LEMMA OobSecondStep ==
    ASSUME TreeInv, graph' = graph, NEW p \in DOMAIN ps, Live(p), OobSecond(p)
    PROVE  TreeInv'
<1>0. /\ ps[p] \in Proc /\ Shape(ps[p]) /\ Fits(ps[p], Jobs(p)) /\ Shared /\ Tree
      /\ ps[p].pc = "end" /\ ps[p].cmd = "ifchange" /\ ps[p].job = "oob" /\ ps[p].cyc \subseteq Target
      /\ Jobs(p) = {} /\ UNCHANGED <<pipe, owner, slot, st, starts>>
  BY ProcFacts DEF OobSecond, Fits, Quiet, Proc
<1>1. PICK t \in Target : t = ps[p].tgt
  <2>1. p # Top
    BY <1>0 DEF Tree
  <2> QED BY <2>1, ParentOf
<1>2. PICK l \in Seq(Target) : l = <<t>>
  <2>1. <<t>> \in Seq(Target)
    OBVIOUS
  <2> QED BY <2>1
<1>3. PICK r \in Proc : r = Job("oob", t, "unlocked", l, ps[p].cyc)
  BY <1>0, FreshJob
<1>4. /\ r.job = "oob" /\ r.tgt = t /\ r.cmd = "unlocked" /\ r.pc = "next" /\ r.todo = l
  BY <1>0, <1>3, FreshJob
<1>5. Shape(r) /\ Fits(r, Jobs(p))
  BY <1>0, <1>2, <1>4 DEF Shape, Fits, Quiet
<1>6. /\ \A u \in Target : Owns(r, Jobs(p), u) <=> Owns(ps[p], Jobs(p), u)
      /\ \A u \in Target : Uses(r, Scripts(p), u) <=> Uses(ps[p], Scripts(p), u)
  BY <1>0, <1>4 DEF Owns, Uses, Scripts
<1>7. Put(p, r)
  BY <1>1, <1>2, <1>3 DEF OobSecond
<1>8. pipe' \in Int /\ st' \in [Target -> Verdicts] /\ starts' \in [Target -> Nat]
  BY <1>0 DEF Shared
<1> QED BY <1>0, <1>1, <1>4, <1>5, <1>6, <1>7, <1>8, PlainStep

LEMMA SpawnStep ==
    ASSUME TreeInv, graph' = graph, NEW p \in DOMAIN ps, Live(p), SpawnNext(p) \/ Spawn(p)
    PROVE  TreeInv'
<1>0. /\ ps[p] \in Proc /\ Shape(ps[p]) /\ Fits(ps[p], Jobs(p)) /\ Shared /\ LocksOK(p) /\ SlotsOK(p)
      /\ ps[p].pc \in {"next", "spawn"} /\ ps[p].cmd = "spawn" /\ ps[p].cyc \subseteq Target
      /\ ps[p].todo \in Seq(Target) /\ UNCHANGED <<pipe, owner, slot, st, starts>>
  BY ProcFacts DEF SpawnNext, Spawn, Proc, Shape
<1>1. /\ graph \in DOMAIN Graphs /\ owner \in [Target -> (DOMAIN ps) \cup {None}] /\ pipe \in Int
      /\ slot \subseteq (DOMAIN ps) \X Pooled /\ IsFiniteSet(slot) /\ Cardinality(slot) <= Depth
      /\ st \in [Target -> Verdicts] /\ starts \in [Target -> Nat] /\ Pooled \subseteq Target
      /\ Pooled' = Pooled /\ Depth' = Depth
  BY <1>0, GraphTypes DEF Shared, Pooled, Depth
<1>2. CASE SpawnNext(p)
  <2>0. PICK l \in {"waitall", "spawn"} : l = "spawn" <=> ~(ps[p].todo = <<>> \/ Stop(p))
    OBVIOUS
  <2>1. PICK r \in Proc : r = [ps[p] EXCEPT !.pc = l]
    BY <1>0 DEF Proc
  <2>2. /\ r.job = ps[p].job /\ r.tgt = ps[p].tgt /\ r.cmd = "spawn" /\ r.pc = l
        /\ r.todo = ps[p].todo /\ (l = "spawn" => r.todo # <<>>)
    BY <1>0, <2>0, <2>1 DEF Proc
  <2>3. Shape(r) /\ Fits(r, Jobs(p))
    BY <1>0, <2>2 DEF Shape, Fits, Quiet
  <2>4. /\ \A u \in Target : Owns(r, Jobs(p), u) <=> Owns(ps[p], Jobs(p), u)
        /\ \A u \in Target : Uses(r, Scripts(p), u) <=> Uses(ps[p], Scripts(p), u)
    BY <1>0, <2>2 DEF Owns, Uses
  <2>5. pipe' \in Int /\ st' \in [Target -> Verdicts] /\ starts' \in [Target -> Nat]
    BY <1>0, <1>1
  <2>6. Put(p, r)
    BY <1>2, <2>0, <2>1 DEF SpawnNext, Put
  <2> QED BY <1>0, <2>1, <2>2, <2>3, <2>4, <2>5, <2>6, PlainStep
<1>3. CASE Spawn(p)
  <2>0. ps[p].todo # <<>>
    BY <1>0, <1>3 DEF Spawn, Shape
  <2>1. PICK t \in Target : t = Head(ps[p].todo)
    BY <1>0, <2>0, ListFacts
  <2>2. PICK l \in Seq(Target) : l = Tail(ps[p].todo)
    BY <1>0, <2>0, ListFacts
  <2>3. PICK b \in Proc : b = [ps[p] EXCEPT !.todo = l, !.pc = "next"]
    BY <1>0 DEF Proc
  <2>4. PICK s : s = [b EXCEPT !.my = @ - 1]
    OBVIOUS
  <2>5. /\ b.job = ps[p].job /\ b.tgt = ps[p].tgt /\ b.cmd = "spawn" /\ b.pc = "next" /\ b.todo = l
    BY <1>0, <2>3 DEF Proc
  <2>6. /\ s \in Proc /\ s.job = ps[p].job /\ s.tgt = ps[p].tgt /\ s.cmd = "spawn"
        /\ s.pc = "next" /\ s.todo = l
    BY <2>4, <2>5, TokenOnly
  <2>7. IsInjective(l) /\ t \notin Range(l) /\ Range(l) \cap Jobs(p) = {} /\ t \notin Jobs(p)
    BY <1>0, <2>0, <2>1, <2>2, ListFacts DEF Shape, Fits
  <2>8. Shape(s) /\ Fits(s, Jobs(p) \cup {t})
    BY <1>0, <2>6, <2>7 DEF Shape, Fits, Quiet
  <2>9. PICK one \in Seq(Target) : one = <<t>>
    <3>1. <<t>> \in Seq(Target)
      OBVIOUS
    <3> QED BY <3>1
  <2>10. PICK k \in Proc : k = Job("redo", t, "redo", one, ps[p].cyc)
    BY <1>0, FreshJob
  <2>11. k.job = "redo" /\ k.tgt = t /\ k.cmd = "redo" /\ k.pc = "next" /\ k.todo = one
    BY <1>0, <2>10, FreshJob
  <2>12. Shape(k) /\ k.job \in Kinds(s.cmd)
    BY <2>6, <2>11 DEF Shape, Kinds
  <2>13. Forked(p, s, t, k)
    BY <1>3, <2>1, <2>2, <2>3, <2>4, <2>9, <2>10 DEF Spawn, Fork, Forked
  <2>14. DOMAIN ps \subseteq DOMAIN ps'
    BY <2>13 DEF Forked
  <2>15. Shared'
    <3>1. owner' \in [Target -> (DOMAIN ps') \cup {None}] /\ slot' \subseteq (DOMAIN ps') \X Pooled
      BY <1>0, <1>1, <2>14
    <3> QED BY <1>0, <1>1, <3>1 DEF Shared
  <2>16. /\ \A u \in Target : owner'[u] \in DOMAIN ps \cup {None}
         /\ \A u \in Target : owner'[u] = p <=> Owns(s, Jobs(p) \cup {t}, u)
         /\ \A u \in Target, q \in DOMAIN ps : q # p => (owner'[u] = q <=> owner[u] = q)
    BY <1>0, <1>1, <2>6 DEF LocksOK, Owns
  <2>17. /\ slot' \subseteq (DOMAIN ps) \X Pooled
         /\ \A u \in Pooled : <<p, u>> \in slot'
              <=> Uses(s, IF k.job = "do" THEN Scripts(p) \cup {t} ELSE Scripts(p), u)
         /\ \A u \in Pooled, q \in DOMAIN ps : q # p => (<<q, u>> \in slot' <=> <<q, u>> \in slot)
    BY <1>0, <1>1, <2>6 DEF SlotsOK, Uses
  <2> QED BY <1>0, <2>6, <2>7, <2>8, <2>11, <2>12, <2>13, <2>15, <2>16, <2>17, ForkStep
<1> QED BY <1>2, <1>3

(* Every step keeps the invariant. *)
LEMMA TreeStep ==
    ASSUME TreeInv, [Next]_<<vars, graph>>
    PROVE  TreeInv'
<1>1. ASSUME NEW p \in DOMAIN ps, Step(p), graph' = graph PROVE TreeInv'
  <2>0. Live(p)
    BY <1>1 DEF Step
  <2>1. CASE IfchangeStep(p)
    BY <1>1, <2>0, <2>1, FirstPassStep, LoopHeadStep, SecondPassSteps, WaitedLockSteps, ExitSteps
       DEF IfchangeStep
  <2>2. CASE BuildStep(p)
    BY <1>1, <2>0, <2>2, BuildLockStep, BuildUnlockedStep, BuildPoolStep, BuildStartStep, BuildDoneStep
       DEF BuildStep
  <2>3. CASE WaitAllRelease(p) \/ ReadToken(p)
    BY <1>1, <2>3, TokenSteps
  <2>4. CASE \/ WaitAllDone(p) \/ SelfCheckFails(p) \/ SpawnNext(p) \/ Spawn(p)
             \/ OobSecond(p) \/ CommandEnd(p)
    BY <1>1, <2>0, <2>4, WaitAllDoneStep, ExitSteps, SpawnStep, OobSecondStep
  <2>5. CASE \E C \in SUBSET Finished(p) : Reap(p, C)
    BY <1>1, <2>0, <2>5, ReapStep
  <2> QED BY <1>1, <2>1, <2>2, <2>3, <2>4, <2>5 DEF Step
<1>2. CASE UNCHANGED <<vars, graph>>
  <2>1. /\ ps' = ps /\ pipe' = pipe /\ owner' = owner /\ slot' = slot /\ st' = st /\ starts' = starts
        /\ graph' = graph
    BY <1>2 DEF vars
  <2>2. \A p \in DOMAIN ps : ProcOK(p) => ProcOK(p)'
    BY <2>1 DEF ProcOK, KidsOK, LocksOK, SlotsOK, Jobs, Scripts, Pooled
  <2>3. Tree' /\ Shared'
    BY <2>1 DEF TreeInv, Tree, Shared, Pooled, Depth
  <2> QED BY <2>1, <2>2, <2>3 DEF TreeInv
<1> QED BY <1>1, <1>2 DEF Next, vars

LEMMA TreeInit ==
    ASSUME Init
    PROVE  TreeInv
<1>0. /\ graph \in DOMAIN Graphs /\ owner = [t \in Target |-> None] /\ slot = {} /\ pipe = MaxJobs - 1
      /\ st = [t \in Target |-> "dirty"] /\ starts = [t \in Target |-> 0]
  BY DEF Init
<1>1. PICK c \in {"ifchange", "redo", "spawn"} : ps = [p \in {Top} |-> Job("top", None, c, Roots, {})]
  BY DEF Init, TopCommands
<1>2. Roots \in Seq(Target) /\ IsInjective(Roots) /\ Depth \in Nat /\ MaxJobs \in Nat
  BY <1>0, GraphTypes, SchedulerAssumption DEF MaxJobs
<1>3. PICK r \in Proc : r = Job("top", None, c, Roots, {})
  BY <1>2, FreshJob
<1>4. r.job = "top" /\ r.tgt = None /\ r.cmd = c /\ r.pc = "next" /\ r.todo = Roots
  BY <1>2, <1>3, FreshJob
<1>5. DOMAIN ps = {Top} /\ ps[Top] = r /\ ps \in [DOMAIN ps -> Proc] /\ Top \in Seq(Target) /\ Top # None
  BY <1>1, <1>3, EmptySeq, NoneFresh DEF Top
<1>6. \A p \in Seq(Target), t \in Target : Append(p, t) # Top
  BY AppendFacts
<1>7. Tree
  BY <1>4, <1>5, <1>6 DEF Tree
<1>8. Shared
  <2>1. IsFiniteSet(slot) /\ Cardinality(slot) = 0
    BY <1>0, FS_EmptySet
  <2> QED BY <1>0, <1>2, <2>1 DEF Shared, Verdicts
<1>9. Jobs(Top) = {} /\ Scripts(Top) = {}
  BY <1>5, <1>6 DEF Jobs, Scripts
<1>10. ProcOK(Top)
  <2>1. Shape(r)
    BY <1>2, <1>4 DEF Shape
  <2>2. Fits(r, {})
    BY <1>4 DEF Fits
  <2>3. KidsOK(Top)
    BY <1>9 DEF KidsOK
  <2>4. LocksOK(Top)
    BY <1>0, <1>4, <1>5, <1>9 DEF LocksOK, Owns
  <2>5. SlotsOK(Top)
    BY <1>0, <1>4, <1>5, <1>9 DEF SlotsOK, Uses
  <2> QED BY <1>5, <1>9, <2>1, <2>2, <2>3, <2>4, <2>5 DEF ProcOK
<1> QED BY <1>5, <1>7, <1>8, <1>10 DEF TreeInv


(* The locks, the slots, the tree of processes: for every source tree, on  *)
(* every run.                                                              *)
THEOREM TreeCorrect == Spec => []TreeInv
<1>1. Init => TreeInv
  BY TreeInit
<1>2. TreeInv /\ [Next]_<<vars, graph>> => TreeInv'
  BY TreeStep
<1> QED BY <1>1, <1>2, PTL DEF Spec

-----------------------------------------------------------------------------
(* Who holds the lock under which a script runs: the command that started  *)
(* it, or, if that is redo-unlocked, the command above it.                 *)
LEMMA Holder ==
    ASSUME TreeInv, NEW p \in DOMAIN ps, Attended(p)
    PROVE  \E q \in DOMAIN ps, t \in Target :
              /\ p = Append(q, t) /\ t \in Scripts(q) /\ ps[p].tgt = t /\ ps[p].job = "do" /\ Live(q)
              /\ \/ owner[t] = q
                 \/ \E o \in DOMAIN ps : q = Append(o, t) /\ owner[t] = o /\ ps[q].job = "oob"
<1>0. ps[p].job = "do" /\ p # Top /\ p \in Seq(Target)
  BY DEF TreeInv, Tree, Attended
<1>1. PICK q \in DOMAIN ps, t \in Target :
         /\ p = Append(q, t) /\ t \in Jobs(q) /\ ps[p].tgt = t
         /\ ps[p].job \in Kinds(ps[q].cmd) /\ IsPrefix(q, p)
  BY <1>0, ParentOf
<1>2. Live(q) /\ ps[q].pc # "exited" /\ t \in Scripts(q)
  BY <1>0, <1>1 DEF Attended, Live, Scripts
<1>3. ps[q] \in Proc /\ Shape(ps[q]) /\ Fits(ps[q], Jobs(q)) /\ LocksOK(q) /\ q \in Seq(Target)
  BY ProcFacts
<1>4. CASE ps[q].cmd = "ifchange"
  <2>1. Owns(ps[q], Jobs(q), t)
    BY <1>1, <1>2, <1>4 DEF Owns
  <2>2. owner[t] = q
    BY <1>3, <2>1 DEF LocksOK
  <2> QED BY <1>0, <1>1, <1>2, <2>2
<1>5. ASSUME ps[q].cmd \in {"redo", "unlocked"} PROVE ps[q].pc = "waitall" /\ t = Head(ps[q].todo)
  BY <1>1, <1>2, <1>3, <1>5 DEF Fits, Quiet, Shape, Proc
<1>6. CASE ps[q].cmd = "redo"
  <2>1. Owns(ps[q], Jobs(q), t)
    BY <1>2, <1>5, <1>6 DEF Owns
  <2>2. owner[t] = q
    BY <1>3, <2>1 DEF LocksOK
  <2> QED BY <1>0, <1>1, <1>2, <2>2
<1>7. CASE ps[q].cmd = "unlocked"
  <2>1. ps[q].job = "oob" /\ ps[q].tgt = t
    <3>1. ps[q].todo = <<ps[q].tgt>> /\ ps[q].job = "oob"
      BY <1>3, <1>5, <1>7 DEF Shape
    <3> QED BY <1>5, <1>7, <3>1
  <2>2. q # Top
    BY <2>1 DEF TreeInv, Tree
  <2>3. PICK o \in DOMAIN ps : /\ q = Append(o, t) /\ t \in Jobs(o)
                               /\ ps[q].job \in Kinds(ps[o].cmd) /\ IsPrefix(o, q)
    BY <2>1, <2>2, ParentOf
  <2>4. IsPrefix(o, p)
    <3>1. o \in Seq(Target)
      BY ProcFacts
    <3> QED BY <1>1, <1>3, <2>3, <3>1, PrefixAppend
  <2>5. ps[o].pc # "exited" /\ ps[o].cmd = "ifchange"
    BY <2>1, <2>3, <2>4 DEF Attended, Live, Kinds
  <2>6. Owns(ps[o], Jobs(o), t) /\ LocksOK(o)
    BY <2>3, <2>5, ProcFacts DEF Owns
  <2>7. owner[t] = o
    BY <2>6 DEF LocksOK
  <2> QED BY <1>0, <1>1, <1>2, <2>1, <2>3, <2>7
<1>8. ps[q].cmd # "spawn"
  BY <1>0, <1>1 DEF Kinds
<1> QED BY <1>3, <1>4, <1>6, <1>7, <1>8 DEF Proc

LEMMA TreeExcludes == TreeInv => MutualExclusion
<1> SUFFICES ASSUME TreeInv, NEW p \in DOMAIN ps, NEW q \in DOMAIN ps, Attended(p), Attended(q),
                    ps[p].tgt = ps[q].tgt
             PROVE  p = q
  BY DEF MutualExclusion
<1>1. PICK pp \in DOMAIN ps, t \in Target :
         /\ p = Append(pp, t) /\ ps[p].tgt = t /\ ps[p].job = "do"
         /\ \/ owner[t] = pp
            \/ \E o \in DOMAIN ps : pp = Append(o, t) /\ owner[t] = o /\ ps[pp].job = "oob"
  BY Holder
<1>2. PICK qq \in DOMAIN ps, u \in Target :
         /\ q = Append(qq, u) /\ ps[q].tgt = u /\ ps[q].job = "do"
         /\ \/ owner[u] = qq
            \/ \E o \in DOMAIN ps : qq = Append(o, u) /\ owner[u] = o /\ ps[qq].job = "oob"
  BY Holder
<1>3. t = u
  BY <1>1, <1>2
<1>4. CASE owner[t] = pp /\ owner[u] = qq
  BY <1>1, <1>2, <1>3, <1>4
<1>5. CASE owner[t] = pp /\ owner[u] # qq
  <2>1. qq = Append(pp, t) /\ ps[qq].job = "oob"
    BY <1>2, <1>3, <1>5
  <2> QED BY <1>1, <2>1
<1>6. CASE owner[t] # pp /\ owner[u] = qq
  <2>1. pp = Append(qq, t) /\ ps[pp].job = "oob"
    BY <1>1, <1>3, <1>6
  <2> QED BY <1>2, <1>3, <2>1
<1>7. CASE owner[t] # pp /\ owner[u] # qq
  <2>1. pp = Append(owner[t], t) /\ qq = Append(owner[t], t)
    BY <1>1, <1>2, <1>3, <1>7
  <2> QED BY <1>1, <1>2, <1>3, <2>1
<1> QED BY <1>4, <1>5, <1>6, <1>7

(* Never do two scripts for the same target run at the same time, for any   *)
(* source tree, any -j and any interleaving: the fcntl locks that            *)
(* run_ifchange and build_one take, and what redo-unlocked inherits, keep    *)
(* them apart.  Scripts below a command that returned early on a cyclic      *)
(* dependency are excepted.                                                  *)
THEOREM OneScriptPerTarget == Spec => []MutualExclusion
BY TreeCorrect, TreeExcludes, PTL

(* At most as many scripts of a pool run as its depth: each of them stands *)
(* for a slot of its own.                                                  *)
LEMMA TreeLimits == TreeInv => PoolLimit
<1> SUFFICES ASSUME TreeInv
             PROVE  Cardinality({p \in DOMAIN ps : Attended(p) /\ ps[p].tgt \in Pooled}) <= Depth
  BY DEF PoolLimit
<1> DEFINE S == {p \in DOMAIN ps : Attended(p) /\ ps[p].tgt \in Pooled}
<1>0. /\ Shared /\ IsFiniteSet(slot) /\ Cardinality(slot) <= Depth /\ Depth \in Nat
      /\ Cardinality(slot) \in Nat /\ Pooled \subseteq Target
  BY GraphTypes, FS_CardinalityType DEF TreeInv, Shared
<1>1. ASSUME NEW p \in S PROVE \E s \in slot : p = Append(s[1], s[2])
  <2>1. PICK q \in DOMAIN ps, t \in Target :
           p = Append(q, t) /\ t \in Scripts(q) /\ ps[p].tgt = t /\ ps[p].job = "do" /\ Live(q)
    BY Holder
  <2>2. /\ ps[q] \in Proc /\ Shape(ps[q]) /\ Fits(ps[q], Jobs(q)) /\ KidsOK(q) /\ SlotsOK(q)
        /\ t \in Jobs(q) /\ ps[q].pc # "exited"
    BY <2>1, ProcFacts DEF Scripts, Live
  <2>3. ps[q].cmd # "spawn"
    BY <2>1, <2>2 DEF KidsOK, Kinds
  <2>4. ps[q].cmd \in {"redo", "unlocked"} => ps[q].pc = "waitall" /\ t = Head(ps[q].todo)
    BY <2>2 DEF Fits, Quiet, Shape, Proc
  <2>5. Uses(ps[q], Scripts(q), t)
    BY <2>1, <2>2, <2>3, <2>4 DEF Uses, Proc
  <2>6. <<q, t>> \in slot
    BY <2>1, <2>2, <2>5 DEF SlotsOK
  <2> QED BY <2>1, <2>6
<1> HIDE DEF S
<1>2. PICK f : f = [p \in S |-> CHOOSE s \in slot : p = Append(s[1], s[2])]
  OBVIOUS
<1>3. \A p \in S : f[p] \in slot /\ p = Append(f[p][1], f[p][2])
  BY <1>1, <1>2
<1>4. f \in Injection(S, slot)
  <2>1. f \in [S -> slot]
    BY <1>2, <1>3
  <2>2. \A a, b \in S : f[a] = f[b] => a = b
    BY <1>3
  <2> QED BY <2>1, <2>2 DEF Injection, IsInjective
<1>5. IsFiniteSet(S) /\ Cardinality(S) <= Cardinality(slot)
  BY <1>0, <1>4, FS_Injection
<1>6. Cardinality(S) \in Nat
  BY <1>5, FS_CardinalityType
<1>7. Cardinality(S) <= Depth
  BY <1>0, <1>5, <1>6
<1> QED BY <1>7 DEF S

(* At no time do more scripts of a job pool run than the pool is deep: the  *)
(* slot files that build_one and schedule_build_one lock (try_acquire_pool) *)
(* are held until the job's done callback or the builder's exit.            *)
THEOREM PoolNeverOverrun == Spec => []PoolLimit
BY TreeCorrect, TreeLimits, PTL

LEMMA TreeNoHold == TreeInv => NoHoldAndWait
<1> SUFFICES ASSUME TreeInv, NEW p \in DOMAIN ps, NEW t \in Target, BlockedOn(p, t)
             PROVE  p \notin Range(owner) \cup {s[1] : s \in slot}
  BY DEF NoHoldAndWait
<1>0. /\ ps[p] \in Proc /\ Shape(ps[p]) /\ Fits(ps[p], Jobs(p)) /\ LocksOK(p) /\ SlotsOK(p)
      /\ owner \in [Target -> (DOMAIN ps) \cup {None}] /\ slot \subseteq (DOMAIN ps) \X Pooled
  BY ProcFacts DEF Shared
<1>1. /\ Jobs(p) = {} /\ Scripts(p) = {}
      /\ (ps[p].pc = "lockwait" /\ ps[p].cmd = "ifchange") \/ (ps[p].pc = "next" /\ ps[p].cmd = "redo")
  BY <1>0 DEF BlockedOn, Fits, Quiet, Shape, Scripts
<1>2. \A u : ~Owns(ps[p], Jobs(p), u) /\ ~Uses(ps[p], Scripts(p), u)
  BY <1>1 DEF Owns, Uses
<1>3. \A u \in Target : owner[u] # p
  BY <1>0, <1>2 DEF LocksOK
<1>4. p \notin Range(owner)
  BY <1>0, <1>3 DEF Range
<1>5. \A u \in Pooled : <<p, u>> \notin slot
  BY <1>0, <1>2 DEF SlotsOK
<1>6. ASSUME NEW s \in slot PROVE s[1] # p
  BY <1>0, <1>5
<1> QED BY <1>4, <1>6

(* A command that blocks on a lock in fcntl holds no lock and no pool slot: *)
(* run_ifchange reaps its jobs first (wait_all), build_one takes its locks  *)
(* one at a time.                                                           *)
THEOREM NobodyHoldsAndWaits == Spec => []NoHoldAndWait
BY TreeCorrect, TreeNoHold, PTL

=============================================================================
