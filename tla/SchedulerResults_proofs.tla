---------------------- MODULE SchedulerResults_proofs ----------------------
(***************************************************************************)
(* Proofs about the results of one run of redo: what a command that        *)
(* reports success has seen built, and that no target on a cycle is; about *)
(* its job tokens, of which none is made; about the order of builds on a   *)
(* source tree without dependency cycles: a target is built after and from *)
(* what it asks for, once; and, with cycles, about what REDO_CYCLES is     *)
(* for: nobody waits for a lock that an ancestor holds.                    *)
(***************************************************************************)
EXTENDS Scheduler_proofs

-----------------------------------------------------------------------------
(* The processes are closed under taking prefixes. *)
Closed == \A q \in DOMAIN ps, p \in Seq(Target) : IsPrefix(p, q) => p \in DOMAIN ps

(* d is done with: it was built, or has failed and is none of S.           *)
Settled(S, d) == st[d] = "ok" \/ (st[d] = "failed" /\ d \notin S)

(* What a process is there for. *)
Duty(r) == IF r.job = "top" THEN Range(Roots)
           ELSE IF r.job = "do" THEN Range(Args[r.tgt]) ELSE {r.tgt}

(* A command in state r with jobs for J still has d before it. *)
Pending(r, J, d) ==
    /\ r.pc # "exited"
    /\ \/ d \in Range(r.todo) \/ d \in J
       \/ r.cmd = "ifchange" /\ d \in Range(r.locked) \cup Range(r.blocked)
       \/ r.pc \in {"lockwait", "gotlock", "relock"} /\ d = r.cur
       \/ r.job = "oob" /\ r.cmd = "ifchange" /\ d = r.tgt

(* build_one's job has been reaped, its result is not yet recorded. *)
Waits(r, J) == r.cmd \in {"redo", "unlocked"} /\ r.pc = "waitall" /\ J = {}

(* A command that has seen no failure comes to its end with empty lists. *)
Through(r) ==
    r.rc = 0 => /\ r.cmd = "ifchange" /\ r.pc = "end" => r.locked = <<>> /\ r.blocked = <<>>
                /\ r.cmd = "spawn" /\ r.pc \in {"waitall", "end"} => r.todo = <<>>

(* Each target that p is there for is before it or settled, unless p has   *)
(* seen a failure; when a script has succeeded, what it asked for is       *)
(* settled.                                                                *)
Progress(S, p) ==
    /\ \A d \in Duty(ps[p]) : Pending(ps[p], Jobs(p), d) \/ ps[p].rc # 0 \/ Settled(S, d)
    /\ Waits(ps[p], Jobs(p)) /\ ps[p].got = 0
          => \A d \in Range(Args[Head(ps[p].todo)]) : Settled(S, d)
ProgressInv(S) == \A p \in DOMAIN ps : Progress(S, p)

(* A failed target has left a trace in some process. *)
Bad(r, J) == r.rc # 0 \/ (Waits(r, J) /\ r.got # 0)
FailInv == (\E t \in Target : st[t] = "failed") => \E q \in DOMAIN ps : Bad(ps[q], Jobs(q))

ResultInv ==
    /\ TreeInv /\ Closed /\ FailInv /\ CyclesFail
    /\ \A p \in DOMAIN ps : Through(ps[p])
    /\ \A K \in Knots[graph] : ProgressInv(K)

-----------------------------------------------------------------------------
(* What a step of p does to its own record, to r, with jobs for J after it. *)
Lawful(p, r, J) ==
    /\ r.job = ps[p].job /\ r.tgt = ps[p].tgt
    /\ r.rc = 0 => ps[p].rc = 0
    /\ \A d \in Duty(ps[p]) :
          Pending(ps[p], Jobs(p), d) => Pending(r, J, d) \/ r.rc # 0 \/ st'[d] = "ok"
    /\ Waits(r, J) => /\ Waits(ps[p], Jobs(p)) /\ r.got = ps[p].got
                      /\ Head(r.todo) = Head(ps[p].todo)
    /\ Waits(ps[p], Jobs(p)) /\ ps[p].got # 0 => Bad(r, J)
    /\ Through(ps[p]) => Through(r)

(* What justifies recording a success. *)
Earned(d) ==
    \/ \A e \in Range(Args[d]) : st[e] = "ok"
    \/ \E p \in DOMAIN ps : Waits(ps[p], Jobs(p)) /\ ps[p].got = 0 /\ d = Head(ps[p].todo)
    \/ \E c \in DOMAIN ps : ps[c].job = "do" /\ ps[c].tgt = d /\ ps[c].rc = 0 /\ ps[c].pc = "exited"

Told(p, r) ==
    \A d \in Target : \/ st'[d] = st[d]
                      \/ st'[d] = "ok" /\ (st[d] = "ok" \/ Earned(d))
                      \/ st'[d] = "failed" /\ r.rc # 0

(* A job that starts has all it is there for before it. *)
Begins(k) == k.rc = 0 /\ k.pc = "next" /\ \A d \in Duty(k) : Pending(k, {}, d)

(* What a command may ask for, and what it has on its lists. *)
Scope(r) == IF r.job = "top" THEN Range(Roots)
            ELSE IF r.job = "redo" \/ r.cmd = "unlocked" THEN {r.tgt} ELSE Range(Args[r.tgt])
Lists(r) == Range(r.todo) \cup Range(r.locked) \cup Range(r.blocked)
            \cup (IF r.pc \in {"lockwait", "gotlock", "relock"} THEN {r.cur} ELSE {})

(* A command's lists only become shorter, until redo-unlocked goes on to   *)
(* its second command; only a cycle makes a command leave its jobs; nobody *)
(* starts to wait for the lock of a target that REDO_CYCLES names.         *)
Awaits == {"lockwait", "gotlock", "relock"}
Keeps(p, r) ==
    /\ r.cyc = ps[p].cyc
    /\ \/ /\ r.cmd = ps[p].cmd /\ Lists(r) \subseteq Lists(ps[p])
          /\ r.todo # <<>> => ps[p].todo # <<>>
       \/ r.job = "oob" /\ ps[p].cmd = "ifchange" /\ r.cmd = "unlocked" /\ Lists(r) \subseteq {r.tgt}
    /\ r.pc = "exited" => Jobs(p) = {} \/ CycleFound(p)
    /\ r.pc \in Awaits => r.cur \notin r.cyc \/ (ps[p].pc \in Awaits /\ r.cur = ps[p].cur)

(* A result is recorded under the target's lock, by redo, or by            *)
(* redo-unlocked once and for all.                                         *)
Records(p, r) ==
    \A d \in Target : st'[d] # st[d] =>
       \/ owner[d] = None /\ st'[d] = "ok"
       \/ ps[p].cmd = "redo" /\ d \in Lists(ps[p])
       \/ /\ ps[p].cmd = "unlocked" /\ ps[p].todo # <<>> /\ d = ps[p].tgt
          /\ r.cmd = "unlocked" /\ r.todo = <<>> /\ Jobs(p) = {}

(* p starts a job k for t, one of its lists' targets.                      *)
Sprung(t, cyc, k) ==
    /\ k.tgt = t /\ k.cyc \subseteq cyc \cup {t} /\ k.cmd # "unlocked"
    /\ cyc \subseteq k.cyc /\ (k.job = "do" => t \in k.cyc)
    /\ k.job = "oob" => OobDeps[t] = Range(Args[t])
    /\ Lists(k) \subseteq Scope(k)
    /\ k.job = "redo" => k.cmd = "redo"
    /\ k.job = "do" /\ k.cmd = "redo" => t \in UsesRedo
Springs(p, t, k) ==
    /\ Sprung(t, ps[p].cyc, k) /\ t \in Lists(ps[p])
    /\ ps[p].cmd = "ifchange" => st[t] # "ok"
    /\ ps[p].cmd \in {"redo", "unlocked"} => ps[p].todo # <<>>
    /\ k.job = "redo" => ps[p].cmd = "spawn"

MovedAlone(p) ==
    \E r \in Proc :
       /\ Put(p, r) /\ Lawful(p, r, Jobs(p)) /\ Told(p, r)
       /\ Keeps(p, r) /\ Records(p, r) /\ starts' = starts
MovedForking(p) ==
    \E r \in Proc, k \in Proc, t \in Target :
       /\ t \notin Jobs(p) /\ Forked(p, r, t, k) /\ Lawful(p, r, Jobs(p) \cup {t}) /\ Begins(k) /\ st' = st
       /\ r.pc # "exited" /\ Keeps(p, r) /\ Springs(p, t, k)
       /\ \A u \in Target : u # t => starts'[u] = starts[u]

(* A verdict "clean" is justified. *)
LEMMA CleanEarned ==
    ASSUME Shared, NEW t \in Target, NEW b \in BOOLEAN, "clean" \in Verdict(t, b)
    PROVE  st[t] = "ok" \/ Earned(t)
<1>1. st \in [Target -> Verdicts] /\ OobDeps[t] \in {{}, Range(Args[t])} /\ Args[t] \in Seq(Target)
  BY GraphTypes DEF Shared
<1>2. CASE st[t] # "ok"
  <2>1. /\ OobDeps[t] # {} /\ DirtyOob(t) = {} /\ \A d \in OobDeps[t] : st[d] # "failed"
    BY <1>2 DEF Verdict
  <2>2. OobDeps[t] = Range(Args[t]) /\ Range(Args[t]) \subseteq Target
    BY <1>1, <2>1, ListFacts
  <2>3. \A e \in Range(Args[t]) : st[e] = "ok"
    BY <1>1, <2>1, <2>2 DEF DirtyOob, Verdicts
  <2> QED BY <2>3 DEF Earned
<1> QED BY <1>2

LEMMA DoBegins ==
    ASSUME graph \in DOMAIN Graphs, NEW t \in Target, NEW cyc \in SUBSET Target
    PROVE  Begins(DoJob(t, cyc)) /\ Sprung(t, cyc, DoJob(t, cyc))
<1>1. PICK k \in Proc : k = DoJob(t, cyc)
  BY DoJobFacts
<1>2. /\ k.job = "do" /\ k.tgt = t /\ k.pc = "next" /\ k.todo = Args[t] /\ k.rc = 0
      /\ k.cyc = cyc \cup {t} /\ k.cmd = (IF t \in UsesRedo THEN "redo" ELSE "ifchange")
      /\ k.locked = <<>> /\ k.blocked = <<>>
  BY <1>1, DoJobFacts
<1>3. Duty(k) = Range(k.todo)
  BY <1>2 DEF Duty
<1>4. \A d \in Duty(k) : Pending(k, {}, d)
  BY <1>2, <1>3 DEF Pending
<1>5. Lists(k) \subseteq Scope(k) /\ k.cmd # "unlocked"
  <2>1. Range(<<>>) = {}
    BY DEF Range
  <2> QED BY <1>2, <2>1 DEF Lists, Scope
<1> QED BY <1>1, <1>2, <1>4, <1>5 DEF Begins, Sprung

LEMMA OobBegins ==
    ASSUME NEW t \in Target, NEW list \in SUBSET Target, NEW cyc \in SUBSET Target, list \subseteq Range(Args[t]),
           OobDeps[t] = Range(Args[t])
    PROVE  Begins(OobJob(t, list, cyc)) /\ Sprung(t, cyc, OobJob(t, list, cyc))
<1>1. PICK k \in Proc : k = OobJob(t, list, cyc)
  BY OobJobFacts
<1>2. /\ k.job = "oob" /\ k.tgt = t /\ k.pc = "next" /\ k.cmd = "ifchange" /\ k.rc = 0
      /\ Range(k.todo) = list /\ k.cyc = cyc /\ k.locked = <<>> /\ k.blocked = <<>>
  BY <1>1, OobJobFacts
<1>3. Duty(k) = {k.tgt}
  BY <1>2 DEF Duty
<1>4. \A d \in Duty(k) : Pending(k, {}, d)
  BY <1>2, <1>3 DEF Pending
<1>5. Lists(k) \subseteq Scope(k)
  <2>1. Range(<<>>) = {}
    BY DEF Range
  <2> QED BY <1>2, <2>1 DEF Lists, Scope
<1> QED BY <1>1, <1>2, <1>4, <1>5 DEF Begins, Sprung

(* run_ifchange deals with one target: whatever else was before it stays.  *)
LEMMA HandleResult ==
    ASSUME TreeInv, NEW p \in DOMAIN ps, Live(p), NEW r \in Proc, NEW t \in Target,
           ps[p].cmd = "ifchange", ps[p].pc # "gotlock", owner[t] = None,
           r.job = ps[p].job, r.tgt = ps[p].tgt, r.cmd = "ifchange", r.pc \in {"next", "loop"},
           r.rc = ps[p].rc, r.cyc = ps[p].cyc, r.todo # <<>> => ps[p].todo # <<>>,
           Lists(r) \cup {t} \subseteq Lists(ps[p]),
           \A d : Pending(ps[p], Jobs(p), d) => d = t \/ Pending(r, Jobs(p), d),
           Handle(p, r, t)
    PROVE  MovedAlone(p) \/ MovedForking(p)
<1>0. /\ ps[p] \in Proc /\ LocksOK(p) /\ Shared /\ ps[p].pc # "exited" /\ p # None
  BY ProcFacts DEF Live
<1>1. /\ graph \in DOMAIN Graphs /\ st \in [Target -> Verdicts] /\ r.cyc \subseteq Target
  BY <1>0 DEF Shared, Proc
<1>2. t \notin Jobs(p)
  BY <1>0 DEF LocksOK, Owns
<1>3. ASSUME NEW s \in Proc, NEW J, s.job = r.job, s.tgt = r.tgt, s.cmd = r.cmd, s.pc = r.pc, s.rc = r.rc,
             \A d : Pending(ps[p], Jobs(p), d) => Pending(s, J, d) \/ st'[d] = "ok"
      PROVE  Lawful(p, s, J)
  BY <1>3 DEF Lawful, Waits, Through
<1>k. ASSUME NEW s \in Proc, s.cmd = r.cmd, s.pc = r.pc, s.todo = r.todo, s.cyc = r.cyc,
              Lists(s) \subseteq Lists(r) \cup {t}
       PROVE  Keeps(p, s)
  BY <1>k DEF Keeps, Awaits
<1>4. PICK v \in Verdict(t, r.job = "oob") :
       \/ /\ v = "clean"
          /\ Put(p, r)
          /\ st' = [st EXCEPT ![t] = "ok"] /\ UNCHANGED starts
       \/ /\ v = "oob"
          /\ Fork(p, r, t, OobJob(t, DirtyOob(t), r.cyc))
          /\ UNCHANGED <<st, starts>>
       \/ /\ v = "dirty"
          /\ Fork(p, r, t, DoJob(t, r.cyc))
          /\ UNCHANGED st /\ starts' = [starts EXCEPT ![t] = @ + 1]
       \/ /\ v = "dirty"
          /\ PutReleasing(p, [r EXCEPT !.blocked = Append(@, t)])
          /\ UNCHANGED <<st, starts>>
  BY DEF Handle
<1>v. /\ v # "clean" => st[t] # "ok"
       /\ \A u \in Target : u # t => (starts'[u] = starts[u])
  <2>1. starts \in [Target -> Nat]
    BY <1>0 DEF Shared
  <2> QED BY <1>4, <2>1 DEF Verdict
<1>5. CASE v = "clean" /\ Put(p, r) /\ st' = [st EXCEPT ![t] = "ok"] /\ UNCHANGED starts
  <2>1. \A d : Pending(ps[p], Jobs(p), d) => Pending(r, Jobs(p), d) \/ st'[d] = "ok"
    BY <1>1, <1>5
  <2>2. Lawful(p, r, Jobs(p))
    BY <1>3, <2>1
  <2>3. st[t] = "ok" \/ Earned(t)
    BY <1>0, <1>5, CleanEarned
  <2>4. Told(p, r)
    BY <1>1, <1>5, <2>3 DEF Told
  <2>5. Keeps(p, r)
    BY <1>k
  <2>6. Records(p, r)
    BY <1>1, <1>5 DEF Records
  <2> QED BY <1>5, <2>2, <2>4, <2>5, <2>6 DEF MovedAlone
<1>6. CASE PutReleasing(p, [r EXCEPT !.blocked = Append(@, t)]) /\ UNCHANGED <<st, starts>>
  <2>1. PICK b \in Proc : b = [r EXCEPT !.blocked = Append(@, t)]
    <3>1. Append(r.blocked, t) \in Seq(Target)
      BY DEF Proc
    <3> QED BY <3>1 DEF Proc
  <2>2. /\ b.job = r.job /\ b.tgt = r.tgt /\ b.cmd = r.cmd /\ b.pc = r.pc /\ b.rc = r.rc
        /\ b.todo = r.todo /\ b.locked = r.locked /\ b.blocked = Append(r.blocked, t) /\ b.cur = r.cur
        /\ r.blocked \in Seq(Target) /\ b.cyc = r.cyc
    BY <2>1 DEF Proc
  <2>3. PICK s \in Proc : s = [b EXCEPT !.my = @ - 1]
    BY TokenOnly
  <2>4. /\ s.job = r.job /\ s.tgt = r.tgt /\ s.cmd = r.cmd /\ s.pc = r.pc /\ s.rc = r.rc
        /\ s.todo = r.todo /\ s.locked = r.locked /\ s.blocked = Append(r.blocked, t) /\ s.cur = r.cur
        /\ s.cyc = r.cyc
    BY <2>2, <2>3, TokenOnly
  <2>5. Range(s.blocked) = Range(r.blocked) \cup {t}
    BY <2>2, <2>4, ListFacts
  <2>6. \A d : Pending(r, Jobs(p), d) \/ d = t => Pending(s, Jobs(p), d)
    BY <2>4, <2>5 DEF Pending
  <2>7. Lawful(p, s, Jobs(p))
    BY <1>3, <2>4, <2>6
  <2>8. Put(p, s) /\ Told(p, s) /\ Records(p, s)
    BY <1>6, <2>1, <2>3 DEF PutReleasing, Told, Records
  <2>9. Keeps(p, s)
    <3>1. Lists(s) \subseteq Lists(r) \cup {t}
      BY <2>4, <2>5 DEF Lists
    <3> QED BY <1>k, <2>4, <3>1
  <2> QED BY <1>6, <2>7, <2>8, <2>9 DEF MovedAlone
<1>7. ASSUME NEW k \in Proc, Begins(k), Sprung(t, r.cyc, k), k.job # "redo", v # "clean",
             Fork(p, r, t, k), UNCHANGED st
      PROVE  MovedForking(p)
  <2>1. PICK s \in Proc : s = [r EXCEPT !.my = @ - 1]
    BY TokenOnly
  <2>2. /\ s.job = r.job /\ s.tgt = r.tgt /\ s.cmd = r.cmd /\ s.pc = r.pc /\ s.rc = r.rc
        /\ s.todo = r.todo /\ s.locked = r.locked /\ s.blocked = r.blocked /\ s.cur = r.cur
        /\ s.cyc = r.cyc
    BY <2>1, TokenOnly
  <2>3. \A d : Pending(r, Jobs(p), d) \/ d = t => Pending(s, Jobs(p) \cup {t}, d)
    BY <2>2 DEF Pending
  <2>4. Lawful(p, s, Jobs(p) \cup {t})
    BY <1>3, <2>2, <2>3
  <2>5. Forked(p, s, t, k)
    BY <1>7, <2>1 DEF Fork, Forked
  <2>6. Keeps(p, s)
    <3>1. Lists(s) \subseteq Lists(r) \cup {t}
      BY <2>2 DEF Lists
    <3> QED BY <1>k, <2>2, <3>1
  <2>7. Springs(p, t, k)
    BY <1>7, <1>v DEF Springs
  <2>8. s.pc # "exited"
    BY <2>2
  <2> QED BY <1>2, <1>7, <1>v, <2>4, <2>5, <2>6, <2>7, <2>8 DEF MovedForking
<1>8. CASE v = "dirty" /\ Fork(p, r, t, DoJob(t, r.cyc)) /\ UNCHANGED st
  <2>1. PICK k \in Proc : k = DoJob(t, r.cyc)
    BY <1>1, DoJobFacts
  <2>2. Begins(k) /\ Sprung(t, r.cyc, k) /\ k.job # "redo"
    BY <1>1, <2>1, DoBegins, DoJobFacts
  <2> QED BY <1>7, <1>8, <2>1, <2>2
<1>9. CASE v = "oob" /\ Fork(p, r, t, OobJob(t, DirtyOob(t), r.cyc)) /\ UNCHANGED st
  <2>1. /\ DirtyOob(t) \in SUBSET Target /\ DirtyOob(t) \subseteq Range(Args[t])
        /\ OobDeps[t] = Range(Args[t])
    <3>1. OobDeps[t] \in {{}, Range(Args[t])} /\ Args[t] \in Seq(Target)
      BY <1>1, GraphTypes
    <3>2. OobDeps[t] # {}
      BY <1>9 DEF Verdict
    <3> QED BY <3>1, <3>2, ListFacts DEF DirtyOob
  <2>2. PICK k \in Proc : k = OobJob(t, DirtyOob(t), r.cyc)
    BY <1>1, <2>1, OobJobFacts
  <2>3. Begins(k) /\ Sprung(t, r.cyc, k) /\ k.job # "redo"
    BY <1>1, <2>1, <2>2, OobBegins, OobJobFacts
  <2> QED BY <1>7, <1>9, <2>2, <2>3
<1> QED BY <1>4, <1>5, <1>6, <1>8, <1>9

(* A step of run_ifchange that records nothing. *)
LEMMA IfchangeMoves ==
    ASSUME NEW p \in DOMAIN ps, NEW r \in Proc, Put(p, r), st' = st, ps[p].cmd = "ifchange",
           r.job = ps[p].job, r.tgt = ps[p].tgt, r.cmd = "ifchange", r.rc = 0 => ps[p].rc = 0,
           \A d : Pending(ps[p], Jobs(p), d) => Pending(r, Jobs(p), d) \/ r.rc # 0,
           r.pc = "end" /\ r.rc = 0 => r.locked = <<>> /\ r.blocked = <<>>,
           starts' = starts, r.pc # "exited", r.cyc = ps[p].cyc, r.todo # <<>> => ps[p].todo # <<>>,
           Lists(r) \subseteq Lists(ps[p]),
           r.pc \in Awaits => r.cur \notin r.cyc \/ (ps[p].pc \in Awaits /\ r.cur = ps[p].cur)
    PROVE  MovedAlone(p)
<1>1. Lawful(p, r, Jobs(p))
  BY DEF Lawful, Waits, Through
<1>2. Told(p, r) /\ Records(p, r)
  BY DEF Told, Records
<1>3. Keeps(p, r)
  BY DEF Keeps, Awaits
<1> QED BY <1>1, <1>2, <1>3 DEF MovedAlone

LEMMA FirstPassResult ==
    ASSUME TreeInv, NEW p \in DOMAIN ps, Live(p), FirstPass(p)
    PROVE  MovedAlone(p) \/ MovedForking(p)
<1>0. /\ ps[p] \in Proc
      /\ ps[p].cmd = "ifchange" /\ ps[p].pc = "next" /\ ps[p].todo # <<>> /\ ps[p].todo \in Seq(Target)
  BY ProcFacts DEF FirstPass, Proc
<1>1. PICK t \in Target : t = Head(ps[p].todo)
  BY <1>0, ListFacts
<1>2. PICK r \in Proc : r = [ps[p] EXCEPT !.todo = Tail(@)]
  <2>1. Tail(ps[p].todo) \in Seq(Target)
    BY <1>0, ListFacts
  <2> QED BY <1>0, <2>1 DEF Proc
<1>3. /\ r.job = ps[p].job /\ r.tgt = ps[p].tgt /\ r.cmd = "ifchange" /\ r.pc = "next"
      /\ r.todo = Tail(ps[p].todo) /\ r.locked = ps[p].locked /\ r.blocked = ps[p].blocked
      /\ r.cur = ps[p].cur /\ r.rc = ps[p].rc /\ r.locked \in Seq(Target) /\ r.cyc = ps[p].cyc
  BY <1>0, <1>2 DEF Proc
<1>4. Range(ps[p].todo) = {t} \cup Range(r.todo)
  BY <1>0, <1>1, <1>3, ListFacts
<1>5. \A d : Pending(ps[p], Jobs(p), d) => d = t \/ Pending(r, Jobs(p), d)
  BY <1>0, <1>3, <1>4 DEF Pending
<1>l. Lists(r) \cup {t} \subseteq Lists(ps[p])
  BY <1>0, <1>3, <1>4 DEF Lists
<1>6. CASE owner[t] = None /\ Handle(p, r, t)
  BY <1>0, <1>3, <1>5, <1>l, <1>6, HandleResult
<1>7. CASE Put(p, [r EXCEPT !.locked = Append(@, t)]) /\ UNCHANGED <<st, starts>>
  <2>1. PICK s \in Proc : s = [r EXCEPT !.locked = Append(@, t)]
    <3>1. Append(r.locked, t) \in Seq(Target)
      BY <1>3
    <3> QED BY <3>1 DEF Proc
  <2>2. /\ s.job = r.job /\ s.tgt = r.tgt /\ s.cmd = r.cmd /\ s.pc = r.pc /\ s.rc = r.rc
        /\ s.todo = r.todo /\ s.locked = Append(r.locked, t) /\ s.blocked = r.blocked /\ s.cur = r.cur
        /\ s.cyc = r.cyc
    BY <2>1 DEF Proc
  <2>3. Range(s.locked) = Range(r.locked) \cup {t}
    BY <1>3, <2>2, ListFacts
  <2>4. \A d : Pending(r, Jobs(p), d) \/ d = t => Pending(s, Jobs(p), d)
    BY <1>3, <2>2, <2>3 DEF Pending
  <2>5. Lists(s) \subseteq Lists(ps[p])
    BY <1>l, <2>2, <2>3 DEF Lists
  <2> QED BY <1>0, <1>3, <1>5, <1>7, <2>1, <2>2, <2>4, <2>5, IfchangeMoves DEF Awaits
<1> QED BY <1>1, <1>2, <1>6, <1>7 DEF FirstPass

LEMMA NoneLeft ==
    ASSUME NEW s \in Seq(Target), NEW u \in Seq(Target), s \o u = <<>>
    PROVE  s = <<>> /\ u = <<>>
<1>1. Len(s \o u) = Len(s) + Len(u) /\ Len(s) \in Nat /\ Len(u) \in Nat /\ Len(s \o u) = 0
  OBVIOUS
<1>2. Len(s) = 0 /\ Len(u) = 0
  BY <1>1
<1>3. (Len(s) = 0 => s = <<>>) /\ (Len(u) = 0 => u = <<>>)
  BY EmptySeq
<1> QED BY <1>2, <1>3

LEMMA LoopHeadResult ==
    ASSUME TreeInv, NEW p \in DOMAIN ps, Live(p), LoopHead(p)
    PROVE  MovedAlone(p)
<1>0. /\ ps[p] \in Proc /\ Shape(ps[p]) /\ ps[p].cmd = "ifchange" /\ ps[p].pc \in {"loop", "next"}
      /\ ps[p].locked \in Seq(Target) /\ ps[p].blocked \in Seq(Target) /\ ps[p].todo \in Seq(Target)
      /\ st' = st /\ starts' = starts
  BY ProcFacts DEF LoopHead, Proc
<1>1. PICK x \in {"end", "waitall"} :
         x = IF ps[p].locked \o ps[p].blocked = <<>> /\ Kids(p) = {} THEN "end" ELSE "waitall"
  OBVIOUS
<1>2. x = "end" => ps[p].locked = <<>> /\ ps[p].blocked = <<>>
  BY <1>0, <1>1, NoneLeft
<1>3. PICK r \in Proc : r = [ps[p] EXCEPT !.todo = <<>>, !.pc = x]
  <2>1. <<>> \in Seq(Target)
    BY EmptySeq
  <2> QED BY <1>0, <2>1 DEF Proc
<1>4. Put(p, r)
  BY <1>1, <1>3 DEF LoopHead
<1>5. /\ r.job = ps[p].job /\ r.tgt = ps[p].tgt /\ r.cmd = "ifchange" /\ r.pc = x
      /\ r.todo = <<>> /\ r.locked = ps[p].locked /\ r.blocked = ps[p].blocked
      /\ r.cur = ps[p].cur /\ r.rc = ps[p].rc /\ r.cyc = ps[p].cyc
  BY <1>0, <1>3 DEF Proc
<1>6. ps[p].todo = <<>> \/ r.rc # 0
  BY <1>0, <1>5 DEF LoopHead, Stop, Shape
<1>7. \A d : Pending(ps[p], Jobs(p), d) => Pending(r, Jobs(p), d) \/ r.rc # 0
  BY <1>0, <1>5, <1>6, ListFacts DEF Pending
<1>8. Lists(r) \subseteq Lists(ps[p])
  <2>1. Range(r.todo) = {}
    BY <1>5 DEF Range
  <2> QED BY <1>1, <1>5, <2>1 DEF Lists
<1> QED BY <1>0, <1>1, <1>2, <1>4, <1>5, <1>7, <1>8, IfchangeMoves DEF Awaits

(* Checked, for a target that r no longer has before it. *)
LEMMA CheckedResult ==
    ASSUME TreeInv, NEW p \in DOMAIN ps, Live(p), NEW r \in Proc, NEW t \in Target,
           ps[p].cmd = "ifchange", ps[p].pc # "gotlock", owner[t] = None,
           r.job = ps[p].job, r.tgt = ps[p].tgt, r.cmd = "ifchange", r.pc \in {"next", "loop"},
           r.rc = ps[p].rc, r.cyc = ps[p].cyc, r.todo # <<>> => ps[p].todo # <<>>,
           Lists(r) \cup {t} \subseteq Lists(ps[p]),
           \A d : Pending(ps[p], Jobs(p), d) => d = t \/ Pending(r, Jobs(p), d),
           Checked(p, r, t)
    PROVE  MovedAlone(p) \/ MovedForking(p)
<1>1. CASE Handle(p, r, t)
  BY <1>1, HandleResult
<1>2. CASE Put(p, [r EXCEPT !.rc = 2]) /\ UNCHANGED <<st, starts>>
  <2>0. PICK two \in 0..2 : two = 2
    OBVIOUS
  <2>1. PICK s \in Proc : s = [r EXCEPT !.rc = two]
    BY DEF Proc
  <2>2. /\ s.job = r.job /\ s.tgt = r.tgt /\ s.cmd = r.cmd /\ s.pc = r.pc /\ s.rc = 2
        /\ s.todo = r.todo /\ s.locked = r.locked /\ s.blocked = r.blocked /\ s.cur = r.cur
        /\ s.cyc = r.cyc
    BY <2>0, <2>1 DEF Proc
  <2>3. Put(p, s) /\ st' = st /\ starts' = starts
    BY <1>2, <2>0, <2>1
  <2>4. s.rc # 0
    BY <2>2
  <2>5. Lists(s) \subseteq Lists(ps[p])
    BY <2>2 DEF Lists
  <2> QED BY <2>2, <2>3, <2>4, <2>5, IfchangeMoves DEF Awaits
<1> QED BY <1>1, <1>2 DEF Checked

(* Waiting for the lock of t, which r no longer has before it. *)
LEMMA LockWaitResult ==
    ASSUME NEW p \in DOMAIN ps, NEW r \in Proc, NEW t \in Target,
           ps[p].cmd = "ifchange",
           r.job = ps[p].job, r.tgt = ps[p].tgt, r.cmd = "ifchange", r.rc = ps[p].rc, r.pc = "loop",
           r.cyc = ps[p].cyc, r.todo # <<>> => ps[p].todo # <<>>, Lists(r) \cup {t} \subseteq Lists(ps[p]),
           \A d : Pending(ps[p], Jobs(p), d) => d = t \/ Pending(r, Jobs(p), d),
           t \notin ps[p].cyc \/ (ps[p].pc \in Awaits /\ t = ps[p].cur),
           LockWait(p, r, t)
    PROVE  MovedAlone(p)
<1>1. PICK b \in Proc : b = [r EXCEPT !.pc = "lockwait", !.cur = t]
  BY DEF Proc
<1>2. /\ b.job = r.job /\ b.tgt = r.tgt /\ b.cmd = r.cmd /\ b.pc = "lockwait" /\ b.rc = r.rc
      /\ b.todo = r.todo /\ b.locked = r.locked /\ b.blocked = r.blocked /\ b.cur = t /\ b.cyc = r.cyc
  BY <1>1 DEF Proc
<1>3. PICK s \in Proc : s = [b EXCEPT !.my = @ - 1]
  BY TokenOnly
<1>4. /\ s.job = r.job /\ s.tgt = r.tgt /\ s.cmd = r.cmd /\ s.pc = "lockwait" /\ s.rc = r.rc
      /\ s.todo = r.todo /\ s.locked = r.locked /\ s.blocked = r.blocked /\ s.cur = t /\ s.cyc = r.cyc
  BY <1>2, <1>3, TokenOnly
<1>5. Put(p, s) /\ st' = st /\ starts' = starts
  BY <1>1, <1>3 DEF LockWait, PutReleasing
<1>6. \A d : Pending(r, Jobs(p), d) \/ d = t => Pending(s, Jobs(p), d)
  BY <1>4 DEF Pending
<1>7. Lists(s) \subseteq Lists(ps[p])
  BY <1>4 DEF Lists
<1> QED BY <1>4, <1>5, <1>6, <1>7, IfchangeMoves

LEMMA SecondPassResult ==
    ASSUME TreeInv, NEW p \in DOMAIN ps, Live(p),
           SecondPassLocked(p) \/ SecondPassBlocked(p) \/ SecondPassEnd(p)
    PROVE  MovedAlone(p) \/ MovedForking(p)
<1>0. /\ ps[p] \in Proc /\ Shape(ps[p]) /\ ps[p].pc = "self" /\ ps[p].cmd = "ifchange"
      /\ ps[p].locked \in Seq(Target) /\ ps[p].blocked \in Seq(Target)
  BY ProcFacts DEF SecondPassLocked, SecondPassBlocked, SecondPassEnd, Proc, Shape
<1>1. CASE SecondPassLocked(p)
  <2>0. ps[p].locked # <<>>
    BY <1>1 DEF SecondPassLocked
  <2>1. PICK t \in Target, l \in Seq(Target) : t = Head(ps[p].locked) /\ l = Tail(ps[p].locked)
    BY <1>0, <2>0, ListFacts
  <2>2. Range(ps[p].locked) = {t} \cup Range(l)
    BY <1>0, <2>0, <2>1, ListFacts
  <2>3. PICK r \in Proc : r = [ps[p] EXCEPT !.locked = l, !.pc = "loop"]
    BY <1>0 DEF Proc
  <2>4. /\ r.job = ps[p].job /\ r.tgt = ps[p].tgt /\ r.cmd = "ifchange" /\ r.pc = "loop"
        /\ r.todo = ps[p].todo /\ r.locked = l /\ r.blocked = ps[p].blocked
        /\ r.cur = ps[p].cur /\ r.rc = ps[p].rc /\ r.cyc = ps[p].cyc
    BY <1>0, <2>3 DEF Proc
  <2>5. /\ \A d : Pending(ps[p], Jobs(p), d) => d = t \/ Pending(r, Jobs(p), d)
        /\ Lists(r) \cup {t} \subseteq Lists(ps[p])
    BY <1>0, <2>2, <2>4 DEF Pending, Lists
  <2>6. t \notin ps[p].cyc /\ ((owner[t] = None /\ Checked(p, r, t)) \/ LockWait(p, r, t))
    BY <1>1, <2>1, <2>3 DEF SecondPassLocked, LockError
  <2>7. CASE owner[t] = None /\ Checked(p, r, t)
    BY <1>0, <2>4, <2>5, <2>7, CheckedResult
  <2>8. CASE LockWait(p, r, t)
    BY <1>0, <2>4, <2>5, <2>6, <2>8, LockWaitResult
  <2> QED BY <2>6, <2>7, <2>8
<1>2. CASE SecondPassBlocked(p)
  <2>0. ps[p].blocked # <<>>
    BY <1>2 DEF SecondPassBlocked
  <2>1. PICK t \in Target, l \in Seq(Target) : t = Head(ps[p].blocked) /\ l = Tail(ps[p].blocked)
    BY <1>0, <2>0, ListFacts
  <2>2. Range(ps[p].blocked) = {t} \cup Range(l)
    BY <1>0, <2>0, <2>1, ListFacts
  <2>3. PICK r \in Proc : r = [ps[p] EXCEPT !.blocked = l, !.pc = "loop"]
    BY <1>0 DEF Proc
  <2>4. /\ r.job = ps[p].job /\ r.tgt = ps[p].tgt /\ r.cmd = "ifchange" /\ r.pc = "loop"
        /\ r.todo = ps[p].todo /\ r.locked = ps[p].locked /\ r.blocked = l
        /\ r.cur = ps[p].cur /\ r.rc = ps[p].rc /\ r.cyc = ps[p].cyc
    BY <1>0, <2>3 DEF Proc
  <2>5. /\ \A d : Pending(ps[p], Jobs(p), d) => d = t \/ Pending(r, Jobs(p), d)
        /\ Lists(r) \cup {t} \subseteq Lists(ps[p])
    BY <1>0, <2>2, <2>4 DEF Pending, Lists
  <2>6. \/ owner[t] = None /\ Checked(p, r, t)
        \/ Put(p, [r EXCEPT !.locked = Append(@, t)]) /\ st' = st /\ starts' = starts
    BY <1>2, <2>1, <2>3 DEF SecondPassBlocked
  <2>7. CASE owner[t] = None /\ Checked(p, r, t)
    BY <1>0, <2>4, <2>5, <2>7, CheckedResult
  <2>8. CASE Put(p, [r EXCEPT !.locked = Append(@, t)]) /\ st' = st /\ starts' = starts
    <3>1. PICK s \in Proc : s = [r EXCEPT !.locked = Append(@, t)]
      <4>1. Append(r.locked, t) \in Seq(Target)
        BY <1>0, <2>4
      <4> QED BY <4>1 DEF Proc
    <3>2. /\ s.job = r.job /\ s.tgt = r.tgt /\ s.cmd = r.cmd /\ s.pc = r.pc /\ s.rc = r.rc
          /\ s.todo = r.todo /\ s.locked = Append(r.locked, t) /\ s.blocked = r.blocked /\ s.cur = r.cur
          /\ s.cyc = r.cyc
      BY <3>1 DEF Proc
    <3>3. Range(s.locked) = Range(r.locked) \cup {t}
      BY <1>0, <2>4, <3>2, ListFacts
    <3>4. \A d : Pending(r, Jobs(p), d) \/ d = t => Pending(s, Jobs(p), d)
      BY <2>4, <3>2, <3>3 DEF Pending
    <3>5. Put(p, s) /\ st' = st /\ starts' = starts
      BY <2>8, <3>1
    <3>6. Lists(s) \subseteq Lists(ps[p])
      BY <2>4, <2>5, <3>2, <3>3 DEF Lists
    <3> QED BY <1>0, <2>4, <2>5, <3>2, <3>4, <3>5, <3>6, IfchangeMoves DEF Awaits
  <2> QED BY <2>6, <2>7, <2>8
<1>3. CASE SecondPassEnd(p)
  <2>1. PICK r \in Proc : r = [ps[p] EXCEPT !.pc = "end"]
    BY <1>0 DEF Proc
  <2>2. /\ r.job = ps[p].job /\ r.tgt = ps[p].tgt /\ r.cmd = "ifchange" /\ r.pc = "end"
        /\ r.todo = ps[p].todo /\ r.locked = ps[p].locked /\ r.blocked = ps[p].blocked
        /\ r.cur = ps[p].cur /\ r.rc = ps[p].rc /\ r.cyc = ps[p].cyc
    BY <1>0, <2>1 DEF Proc
  <2>3. Put(p, r) /\ st' = st /\ starts' = starts
    BY <1>3, <2>1 DEF SecondPassEnd
  <2>4. r.rc = 0 => r.locked = <<>> /\ r.blocked = <<>>
    <3>1. r.rc = 0 => ps[p].locked \o ps[p].blocked = <<>>
      BY <1>3, <2>2 DEF SecondPassEnd, Stop
    <3> QED BY <1>0, <2>2, <3>1, NoneLeft
  <2>5. /\ \A d : Pending(ps[p], Jobs(p), d) => Pending(r, Jobs(p), d)
        /\ Lists(r) \subseteq Lists(ps[p])
    BY <1>0, <2>2 DEF Pending, Lists
  <2> QED BY <1>0, <2>2, <2>3, <2>4, <2>5, IfchangeMoves DEF Awaits
<1> QED BY <1>1, <1>2, <1>3

LEMMA WaitedLockResult ==
    ASSUME TreeInv, NEW p \in DOMAIN ps, Live(p), LockWaitDone(p) \/ GiveUpLock(p) \/ Relock(p)
    PROVE  MovedAlone(p) \/ MovedForking(p)
<1>0. /\ ps[p] \in Proc /\ ps[p].pc \in {"lockwait", "gotlock", "relock"} /\ ps[p].cmd = "ifchange"
      /\ ps[p].cur \in Target
  BY ProcFacts DEF LockWaitDone, GiveUpLock, Relock, Shape
<1>1. CASE LockWaitDone(p) \/ GiveUpLock(p)
  <2>1. PICK x \in {"gotlock", "relock"} : Put(p, [ps[p] EXCEPT !.pc = x]) /\ st' = st /\ starts' = starts
    BY <1>1 DEF LockWaitDone, GiveUpLock
  <2>2. PICK r \in Proc : r = [ps[p] EXCEPT !.pc = x]
    BY <1>0 DEF Proc
  <2>3. /\ r.job = ps[p].job /\ r.tgt = ps[p].tgt /\ r.cmd = "ifchange" /\ r.pc = x
        /\ r.todo = ps[p].todo /\ r.locked = ps[p].locked /\ r.blocked = ps[p].blocked
        /\ r.cur = ps[p].cur /\ r.rc = ps[p].rc /\ r.cyc = ps[p].cyc
    BY <1>0, <2>2 DEF Proc
  <2>4. /\ \A d : Pending(ps[p], Jobs(p), d) => Pending(r, Jobs(p), d)
        /\ Lists(r) \subseteq Lists(ps[p])
    BY <1>0, <2>1, <2>3 DEF Pending, Lists
  <2> QED BY <1>0, <2>1, <2>2, <2>3, <2>4, IfchangeMoves DEF Awaits
<1>2. CASE Relock(p)
  <2>0. ps[p].pc = "relock"
    BY <1>2 DEF Relock
  <2>1. PICK t \in Target : t = ps[p].cur
    BY <1>0
  <2>2. PICK r \in Proc : r = [ps[p] EXCEPT !.pc = "loop", !.cur = None]
    BY <1>0 DEF Proc
  <2>3. /\ r.job = ps[p].job /\ r.tgt = ps[p].tgt /\ r.cmd = "ifchange" /\ r.pc = "loop"
        /\ r.todo = ps[p].todo /\ r.locked = ps[p].locked /\ r.blocked = ps[p].blocked
        /\ r.rc = ps[p].rc /\ r.cyc = ps[p].cyc
    BY <1>0, <2>2 DEF Proc
  <2>4. /\ \A d : Pending(ps[p], Jobs(p), d) => d = t \/ Pending(r, Jobs(p), d)
        /\ Lists(r) \cup {t} \subseteq Lists(ps[p])
    BY <1>0, <2>1, <2>3 DEF Pending, Lists
  <2>5. (owner[t] = None /\ Checked(p, r, t)) \/ LockWait(p, r, t)
    BY <1>2, <2>1, <2>2 DEF Relock
  <2>6. CASE owner[t] = None /\ Checked(p, r, t)
    BY <1>0, <2>0, <2>3, <2>4, <2>6, CheckedResult
  <2>7. CASE LockWait(p, r, t)
    BY <1>0, <2>1, <2>3, <2>4, <2>7, LockWaitResult DEF Awaits
  <2> QED BY <2>5, <2>6, <2>7
<1> QED BY <1>1, <1>2

(* An exit with status code. *)
LEMMA ExitResult ==
    ASSUME TreeInv, NEW p \in DOMAIN ps, NEW code \in {0, 1}, Exit(p, code),
           Jobs(p) = {} \/ CycleFound(p),
           code = 0 => /\ ps[p].rc = 0 /\ ~Waits(ps[p], Jobs(p))
                       /\ Through(ps[p]) => \A d \in Duty(ps[p]) : ~Pending(ps[p], Jobs(p), d)
    PROVE  Through(ps[p]) => MovedAlone(p)
<1> SUFFICES ASSUME Through(ps[p]) PROVE MovedAlone(p)
  OBVIOUS
<1>0. ps[p] \in Proc
  BY ProcFacts
<1>1. PICK r \in Proc : r = [ps[p] EXCEPT !.pc = "exited", !.rc = code]
  <2>1. code \in 0..2
    OBVIOUS
  <2> QED BY <1>0, <2>1 DEF Proc
<1>2. Put(p, r) /\ st' = st /\ starts' = starts
  BY <1>1 DEF Exit, Put
<1>3. /\ r.job = ps[p].job /\ r.tgt = ps[p].tgt /\ r.pc = "exited" /\ r.rc = code
      /\ r.cmd = ps[p].cmd /\ r.cyc = ps[p].cyc
      /\ r.todo = ps[p].todo /\ r.locked = ps[p].locked /\ r.blocked = ps[p].blocked
  BY <1>0, <1>1 DEF Proc
<1>4. Lawful(p, r, Jobs(p))
  BY <1>3 DEF Lawful, Waits, Bad, Through
<1>5. Told(p, r) /\ Records(p, r)
  BY <1>2 DEF Told, Records
<1>6. Keeps(p, r)
  BY <1>3 DEF Keeps, Awaits, Lists
<1> QED BY <1>2, <1>4, <1>5, <1>6 DEF MovedAlone

LEMMA ExitResults ==
    ASSUME TreeInv, NEW p \in DOMAIN ps, Live(p), Through(ps[p]),
           CycleFound(p) \/ SelfCheckFails(p) \/ CommandEnd(p)
    PROVE  MovedAlone(p)
<1>0. /\ ps[p] \in Proc /\ Shape(ps[p]) /\ Fits(ps[p], Jobs(p))
      /\ ps[p].todo \in Seq(Target) /\ ps[p].pc # "exited"
  BY ProcFacts DEF Proc, Live
<1>1. CASE CycleFound(p) \/ SelfCheckFails(p)
  <2>1. Exit(p, 1)
    BY <1>1 DEF CycleFound, SelfCheckFails
  <2>2. SelfCheckFails(p) => Jobs(p) = {}
    BY KidsAre, ProcFacts DEF SelfCheckFails
  <2> QED BY <1>1, <2>1, <2>2, ExitResult
<1>2. CASE CommandEnd(p)
  <2>1. PICK code \in {0, 1} : Exit(p, code) /\ (ps[p].rc # 0 => code = 1)
    BY <1>2 DEF CommandEnd
  <2>2. \/ ps[p].pc = "end" /\ (ps[p].job = "oob" => ps[p].rc # 0)
        \/ /\ ps[p].cmd \in {"redo", "unlocked"} /\ ps[p].pc = "next"
           /\ ps[p].todo = <<>> \/ ps[p].rc # 0
    BY <1>2 DEF CommandEnd, Stop
  <2>3. Jobs(p) = {} /\ ~Waits(ps[p], Jobs(p))
    BY <1>0, <2>2 DEF Fits, Quiet, Waits
  <2>4. ASSUME code = 0 PROVE \A d : ~Pending(ps[p], Jobs(p), d)
    <3>1. ps[p].rc = 0
      BY <2>1, <2>4
    <3>2. ps[p].todo = <<>>
      BY <1>0, <2>2, <3>1 DEF Through, Shape
    <3>3. ps[p].cmd = "ifchange" => ps[p].locked = <<>> /\ ps[p].blocked = <<>> /\ ps[p].job # "oob"
      BY <1>0, <2>2, <3>1 DEF Through, Shape
    <3>4. Range(<<>>) = {}
      BY DEF Range
    <3>5. ps[p].pc \notin {"lockwait", "gotlock", "relock"}
      BY <2>2
    <3> QED BY <2>3, <3>2, <3>3, <3>4, <3>5 DEF Pending
  <2> QED BY <2>1, <2>3, <2>4, ExitResult
<1> QED BY <1>1, <1>2

LEMMA TokenResult ==
    ASSUME TreeInv, NEW p \in DOMAIN ps, Live(p), ReadToken(p) \/ WaitAllRelease(p)
    PROVE  MovedAlone(p)
<1>0. ps[p] \in Proc
  BY ProcFacts
<1>1. PICK r : /\ Put(p, r) /\ (r = [ps[p] EXCEPT !.my = @ - 1] \/ r = [ps[p] EXCEPT !.my = @ + 1])
               /\ st' = st /\ starts' = starts
  BY DEF ReadToken, WaitAllRelease, PutReleasing, Put
<1>2. /\ r \in Proc /\ r.job = ps[p].job /\ r.tgt = ps[p].tgt /\ r.cmd = ps[p].cmd /\ r.pc = ps[p].pc
      /\ r.todo = ps[p].todo /\ r.locked = ps[p].locked /\ r.blocked = ps[p].blocked
      /\ r.cur = ps[p].cur /\ r.rc = ps[p].rc /\ r.got = ps[p].got /\ r.cyc = ps[p].cyc
  BY <1>0, <1>1, TokenOnly
<1>3. \A d : Pending(ps[p], Jobs(p), d) => Pending(r, Jobs(p), d)
  BY <1>2 DEF Pending
<1>4. Lawful(p, r, Jobs(p))
  BY <1>2, <1>3 DEF Lawful, Waits, Bad, Through
<1>5. Told(p, r) /\ Records(p, r)
  BY <1>1 DEF Told, Records
<1>6. Keeps(p, r)
  BY <1>2 DEF Keeps, Lists, Live
<1> QED BY <1>1, <1>2, <1>4, <1>5, <1>6 DEF MovedAlone

LEMMA WaitAllDoneResult ==
    ASSUME TreeInv, NEW p \in DOMAIN ps, Live(p), WaitAllDone(p)
    PROVE  MovedAlone(p)
<1>0. /\ ps[p] \in Proc /\ pipe \in Int /\ ps[p].pc = "waitall" /\ ps[p].cmd \in {"ifchange", "spawn"}
      /\ st' = st /\ starts' = starts
  BY ProcFacts DEF WaitAllDone, AfterWaitAll, Shared
<1>1. PICK x \in {"self", "end"} : x = IF ps[p].cmd = "ifchange" THEN "self" ELSE "end"
  OBVIOUS
<1>2. PICK r \in Proc : r = [ps[p] EXCEPT !.pc = x]
  BY <1>0 DEF Proc
<1>3. /\ r.job = ps[p].job /\ r.tgt = ps[p].tgt /\ r.cmd = ps[p].cmd /\ r.pc = x
      /\ r.todo = ps[p].todo /\ r.locked = ps[p].locked /\ r.blocked = ps[p].blocked
      /\ r.cur = ps[p].cur /\ r.rc = ps[p].rc /\ r.cyc = ps[p].cyc
  BY <1>0, <1>2 DEF Proc
<1>4. AfterWaitAll(p, r)
  BY <1>1, <1>2 DEF WaitAllDone
<1>5. PICK s \in Proc : /\ Put(p, s) /\ s.job = r.job /\ s.tgt = r.tgt /\ s.cmd = r.cmd
                        /\ s.pc = r.pc /\ s.todo = r.todo /\ s.locked = r.locked
                        /\ s.blocked = r.blocked /\ s.cur = r.cur /\ s.rc = r.rc
                        /\ s.cyc = r.cyc
  BY <1>0, <1>4, AfterFacts
<1>6. \A d : Pending(ps[p], Jobs(p), d) => Pending(s, Jobs(p), d)
  BY <1>0, <1>3, <1>5 DEF Pending
<1>7. Lawful(p, s, Jobs(p))
  BY <1>0, <1>1, <1>3, <1>5, <1>6 DEF Lawful, Waits, Through
<1>8. Told(p, s) /\ Records(p, s)
  BY <1>0 DEF Told, Records
<1>9. Keeps(p, s)
  BY <1>0, <1>1, <1>3, <1>5 DEF Keeps, Awaits, Lists
<1> QED BY <1>0, <1>5, <1>7, <1>8, <1>9 DEF MovedAlone

LEMMA BuildLockResult ==
    ASSUME TreeInv, NEW p \in DOMAIN ps, Live(p), BuildLock(p)
    PROVE  MovedAlone(p)
<1>0. /\ ps[p] \in Proc /\ ps[p].cmd = "redo" /\ ps[p].pc = "next" /\ ps[p].todo # <<>>
      /\ ps[p].todo \in Seq(Target) /\ st' = st /\ starts' = starts
  BY ProcFacts DEF BuildLock, Proc
<1>1. CASE Put(p, [ps[p] EXCEPT !.todo = Tail(@), !.rc = 1])
  <2>0. PICK one \in 0..2 : one = 1
    OBVIOUS
  <2>1. PICK l \in Seq(Target) : l = Tail(ps[p].todo)
    BY <1>0, ListFacts
  <2>2. PICK r \in Proc : r = [ps[p] EXCEPT !.todo = l, !.rc = one]
    BY <1>0 DEF Proc
  <2>3. /\ r.job = ps[p].job /\ r.tgt = ps[p].tgt /\ r.cmd = "redo" /\ r.pc = "next" /\ r.rc = one
        /\ r.todo = l /\ r.locked = ps[p].locked /\ r.blocked = ps[p].blocked /\ r.cyc = ps[p].cyc
    BY <1>0, <2>2 DEF Proc
  <2>4. r.rc # 0
    BY <2>0, <2>3
  <2>5. Lawful(p, r, Jobs(p))
    BY <1>0, <2>3, <2>4 DEF Lawful, Waits, Through
  <2>6. Told(p, r) /\ Records(p, r)
    BY <1>0 DEF Told, Records
  <2>7. Put(p, r)
    BY <1>1, <2>0, <2>1, <2>2
  <2>8. Range(l) \subseteq Range(ps[p].todo)
    BY <1>0, <2>1, ListFacts
  <2>9. Keeps(p, r)
    BY <1>0, <2>3, <2>8 DEF Keeps, Awaits, Lists
  <2> QED BY <1>0, <2>5, <2>6, <2>7, <2>9 DEF MovedAlone
<1>2. CASE Put(p, [ps[p] EXCEPT !.pc = "own"])
  <2>1. PICK r \in Proc : r = [ps[p] EXCEPT !.pc = "own"]
    BY <1>0 DEF Proc
  <2>2. /\ r.job = ps[p].job /\ r.tgt = ps[p].tgt /\ r.cmd = "redo" /\ r.pc = "own"
        /\ r.todo = ps[p].todo /\ r.rc = ps[p].rc
        /\ r.locked = ps[p].locked /\ r.blocked = ps[p].blocked /\ r.cyc = ps[p].cyc
    BY <1>0, <2>1 DEF Proc
  <2>3. \A d : Pending(ps[p], Jobs(p), d) => Pending(r, Jobs(p), d)
    BY <1>0, <2>2 DEF Pending
  <2>4. Lawful(p, r, Jobs(p))
    BY <1>0, <2>2, <2>3 DEF Lawful, Waits, Through
  <2>5. Told(p, r) /\ Records(p, r)
    BY <1>0 DEF Told, Records
  <2>6. Keeps(p, r)
    BY <1>0, <2>2 DEF Keeps, Awaits, Lists
  <2> QED BY <1>0, <1>2, <2>1, <2>4, <2>5, <2>6 DEF MovedAlone
<1> QED BY <1>1, <1>2 DEF BuildLock

LEMMA BuildUnlockedResult ==
    ASSUME TreeInv, NEW p \in DOMAIN ps, Live(p), BuildUnlocked(p)
    PROVE  MovedAlone(p)
<1>0. /\ ps[p] \in Proc /\ ps[p].cmd = "unlocked" /\ ps[p].pc = "next" /\ ps[p].todo # <<>>
      /\ ps[p].todo \in Seq(Target) /\ Shared /\ st \in [Target -> Verdicts]
      /\ Jobs(p) = {} /\ ps[p].todo = <<ps[p].tgt>> /\ starts' = starts
  BY ProcFacts DEF BuildUnlocked, Proc, Shared, Shape, Fits, Quiet
<1>1. PICK t \in Target, l \in Seq(Target) : t = Head(ps[p].todo) /\ l = Tail(ps[p].todo)
  BY <1>0, ListFacts
<1>2. Range(ps[p].todo) = {t} \cup Range(l)
  BY <1>0, <1>1, ListFacts
<1>3. CASE "clean" \in Verdict(t, TRUE) /\ Put(p, [ps[p] EXCEPT !.todo = Tail(@)]) /\ st' = [st EXCEPT ![t] = "ok"]
  <2>1. PICK r \in Proc : r = [ps[p] EXCEPT !.todo = l]
    BY <1>0 DEF Proc
  <2>2. /\ r.job = ps[p].job /\ r.tgt = ps[p].tgt /\ r.cmd = "unlocked" /\ r.pc = "next"
        /\ r.todo = l /\ r.rc = ps[p].rc
        /\ r.locked = ps[p].locked /\ r.blocked = ps[p].blocked /\ r.cyc = ps[p].cyc
    BY <1>0, <2>1 DEF Proc
  <2>3. \A d : Pending(ps[p], Jobs(p), d) => d = t \/ Pending(r, Jobs(p), d)
    BY <1>0, <1>2, <2>2 DEF Pending
  <2>4. st'[t] = "ok"
    BY <1>0, <1>3
  <2>5. Lawful(p, r, Jobs(p))
    BY <1>0, <2>2, <2>3, <2>4 DEF Lawful, Waits, Through
  <2>6. st[t] = "ok" \/ Earned(t)
    BY <1>0, <1>3, CleanEarned
  <2>7. Told(p, r)
    BY <1>0, <1>3, <2>6 DEF Told
  <2>8. Put(p, r)
    BY <1>1, <1>3, <2>1
  <2>9. Keeps(p, r)
    BY <1>0, <1>2, <2>2 DEF Keeps, Awaits, Lists
  <2>10. t = ps[p].tgt /\ l = <<>>
    BY <1>0, <1>1
  <2>11. Records(p, r)
    BY <1>0, <1>3, <2>2, <2>10 DEF Records
  <2> QED BY <1>0, <2>5, <2>7, <2>8, <2>9, <2>11 DEF MovedAlone
<1>4. CASE Put(p, [ps[p] EXCEPT !.pc = "own"]) /\ st' = st
  <2>1. PICK r \in Proc : r = [ps[p] EXCEPT !.pc = "own"]
    BY <1>0 DEF Proc
  <2>2. /\ r.job = ps[p].job /\ r.tgt = ps[p].tgt /\ r.cmd = "unlocked" /\ r.pc = "own"
        /\ r.todo = ps[p].todo /\ r.rc = ps[p].rc
        /\ r.locked = ps[p].locked /\ r.blocked = ps[p].blocked /\ r.cyc = ps[p].cyc
    BY <1>0, <2>1 DEF Proc
  <2>3. \A d : Pending(ps[p], Jobs(p), d) => Pending(r, Jobs(p), d)
    BY <1>0, <2>2 DEF Pending
  <2>4. Lawful(p, r, Jobs(p))
    BY <1>0, <2>2, <2>3 DEF Lawful, Waits, Through
  <2>5. Told(p, r) /\ Records(p, r)
    BY <1>4 DEF Told, Records
  <2>6. Keeps(p, r)
    BY <1>0, <2>2 DEF Keeps, Awaits, Lists
  <2> QED BY <1>0, <1>4, <2>1, <2>4, <2>5, <2>6 DEF MovedAlone
<1> QED BY <1>1, <1>3, <1>4 DEF BuildUnlocked

LEMMA BuildPoolResult ==
    ASSUME TreeInv, NEW p \in DOMAIN ps, Live(p), BuildPool(p)
    PROVE  MovedAlone(p)
<1>0. /\ ps[p] \in Proc /\ ps[p].cmd \in {"redo", "unlocked"} /\ ps[p].pc \in {"own", "poolwait"}
      /\ st' = st /\ starts' = starts
  BY ProcFacts DEF BuildPool, Shape
<1>1. PICK x \in {"bstart", "poolwait"} :
         Put(p, [ps[p] EXCEPT !.pc = x]) \/ PutReleasing(p, [ps[p] EXCEPT !.pc = x])
  BY DEF BuildPool
<1>2. PICK b \in Proc : b = [ps[p] EXCEPT !.pc = x]
  BY <1>0 DEF Proc
<1>3. /\ b.job = ps[p].job /\ b.tgt = ps[p].tgt /\ b.cmd = ps[p].cmd /\ b.pc = x
      /\ b.todo = ps[p].todo /\ b.rc = ps[p].rc
      /\ b.locked = ps[p].locked /\ b.blocked = ps[p].blocked /\ b.cyc = ps[p].cyc
  BY <1>0, <1>2 DEF Proc
<1>4. PICK r \in Proc : Put(p, r) /\ (r = b \/ r = [b EXCEPT !.my = @ - 1])
  <2>1. CASE Put(p, b)
    BY <2>1
  <2>2. CASE PutReleasing(p, b)
    BY <2>2, TokenOnly DEF PutReleasing
  <2> QED BY <1>1, <1>2, <2>1, <2>2
<1>5. /\ r.job = ps[p].job /\ r.tgt = ps[p].tgt /\ r.cmd = ps[p].cmd /\ r.pc = x
      /\ r.todo = ps[p].todo /\ r.rc = ps[p].rc
      /\ r.locked = ps[p].locked /\ r.blocked = ps[p].blocked /\ r.cyc = ps[p].cyc
  BY <1>3, <1>4, TokenOnly
<1>6. \A d : Pending(ps[p], Jobs(p), d) => Pending(r, Jobs(p), d)
  BY <1>0, <1>5 DEF Pending
<1>7. Lawful(p, r, Jobs(p))
  BY <1>0, <1>5, <1>6 DEF Lawful, Waits, Through
<1>8. Told(p, r) /\ Records(p, r)
  BY <1>0 DEF Told, Records
<1>9. Keeps(p, r)
  BY <1>0, <1>1, <1>5 DEF Keeps, Awaits, Lists
<1> QED BY <1>0, <1>4, <1>7, <1>8, <1>9 DEF MovedAlone

LEMMA BuildStartResult ==
    ASSUME TreeInv, NEW p \in DOMAIN ps, Live(p), BuildStart(p)
    PROVE  MovedForking(p)
<1>0. /\ ps[p] \in Proc /\ ps[p].cmd \in {"redo", "unlocked"} /\ ps[p].pc = "bstart"
      /\ ps[p].todo # <<>> /\ ps[p].todo \in Seq(Target) /\ ps[p].cyc \in SUBSET Target
      /\ Jobs(p) = {} /\ st' = st /\ graph \in DOMAIN Graphs
  BY ProcFacts DEF BuildStart, Shape, Proc, Fits, Quiet, Shared
<1>1. PICK t \in Target : t = Head(ps[p].todo)
  BY <1>0, ListFacts
<1>2. PICK b \in Proc : b = [ps[p] EXCEPT !.pc = "waitall"]
  BY <1>0 DEF Proc
<1>3. /\ b.job = ps[p].job /\ b.tgt = ps[p].tgt /\ b.cmd = ps[p].cmd /\ b.pc = "waitall"
      /\ b.todo = ps[p].todo /\ b.rc = ps[p].rc
      /\ b.locked = ps[p].locked /\ b.blocked = ps[p].blocked /\ b.cyc = ps[p].cyc
  BY <1>0, <1>2 DEF Proc
<1>4. PICK r \in Proc : r = [b EXCEPT !.my = @ - 1]
  BY TokenOnly
<1>5. /\ r.job = ps[p].job /\ r.tgt = ps[p].tgt /\ r.cmd = ps[p].cmd /\ r.pc = "waitall"
      /\ r.todo = ps[p].todo /\ r.rc = ps[p].rc
      /\ r.locked = ps[p].locked /\ r.blocked = ps[p].blocked /\ r.cyc = ps[p].cyc
  BY <1>3, <1>4, TokenOnly
<1>6. PICK k \in Proc : k = DoJob(t, ps[p].cyc)
  BY <1>0, DoJobFacts
<1>7. Begins(k) /\ Sprung(t, ps[p].cyc, k)
  BY <1>0, <1>6, DoBegins
<1>8. Forked(p, r, t, k)
  BY <1>1, <1>2, <1>4, <1>6 DEF BuildStart, Fork, Forked
<1>9. \A d : Pending(ps[p], Jobs(p), d) => Pending(r, Jobs(p) \cup {t}, d)
  BY <1>0, <1>5 DEF Pending
<1>10. Lawful(p, r, Jobs(p) \cup {t})
  BY <1>0, <1>5, <1>9 DEF Lawful, Waits, Through
<1>11. Keeps(p, r) /\ r.pc # "exited"
  BY <1>0, <1>5 DEF Keeps, Awaits, Lists
<1>12. Springs(p, t, k)
  <2>1. t \in Range(ps[p].todo)
    BY <1>0, <1>1, ListFacts
  <2>2. k.job # "redo"
    BY <1>0, <1>6, DoJobFacts
  <2> QED BY <1>0, <1>7, <2>1, <2>2 DEF Springs, Lists
<1>13. \A u \in Target : u # t => starts'[u] = starts[u]
  <2>1. starts \in [Target -> Nat] /\ starts' = [starts EXCEPT ![t] = @ + 1]
    BY <1>1, ProcFacts DEF BuildStart, Shared
  <2> QED BY <2>1
<1> QED BY <1>0, <1>7, <1>8, <1>10, <1>11, <1>12, <1>13 DEF MovedForking

LEMMA BuildDoneResult ==
    ASSUME TreeInv, NEW p \in DOMAIN ps, Live(p), BuildDone(p)
    PROVE  MovedAlone(p)
<1>0. /\ ps[p] \in Proc /\ ps[p].cmd \in {"redo", "unlocked"} /\ ps[p].pc = "waitall" /\ Tree
      /\ ps[p].todo # <<>> /\ ps[p].todo \in Seq(Target) /\ ps[p].rc \in 0..2 /\ ps[p].got \in 0..1
      /\ st \in [Target -> Verdicts] /\ pipe \in Int
      /\ starts' = starts /\ (ps[p].cmd = "unlocked" => ps[p].todo = <<ps[p].tgt>>)
  BY ProcFacts DEF BuildDone, Shape, Proc, Shared
<1>1. PICK t \in Target, l \in Seq(Target) : t = Head(ps[p].todo) /\ l = Tail(ps[p].todo)
  BY <1>0, ListFacts
<1>2. Range(ps[p].todo) = {t} \cup Range(l)
  BY <1>0, <1>1, ListFacts
<1>3. Jobs(p) = {}
  BY <1>0, KidsAre DEF BuildDone, AfterWaitAll
<1>4. PICK c \in 0..2 : c = IF ps[p].got # 0 THEN 1 ELSE ps[p].rc
  BY <1>0
<1>5. PICK b \in Proc : b = [ps[p] EXCEPT !.pc = "next", !.todo = l, !.rc = c]
  BY <1>0 DEF Proc
<1>6. /\ b.job = ps[p].job /\ b.tgt = ps[p].tgt /\ b.cmd = ps[p].cmd /\ b.pc = "next"
      /\ b.todo = l /\ b.rc = c
      /\ b.locked = ps[p].locked /\ b.blocked = ps[p].blocked /\ b.cyc = ps[p].cyc
  BY <1>0, <1>5 DEF Proc
<1>7. AfterWaitAll(p, b) /\ st' = [st EXCEPT ![t] = IF ps[p].got = 0 THEN "ok" ELSE "failed"]
  BY <1>1, <1>4, <1>5 DEF BuildDone
<1>8. PICK r \in Proc : /\ Put(p, r) /\ r.job = b.job /\ r.tgt = b.tgt /\ r.cmd = b.cmd
                        /\ r.pc = b.pc /\ r.todo = b.todo /\ r.rc = b.rc
                        /\ r.locked = b.locked /\ r.blocked = b.blocked /\ r.cyc = b.cyc
  BY <1>0, <1>7, AfterFacts
<1>9. \A d : Pending(ps[p], Jobs(p), d) => d = t \/ Pending(r, Jobs(p), d)
  BY <1>0, <1>2, <1>6, <1>8 DEF Pending
<1>10. IF ps[p].got = 0 THEN st'[t] = "ok" ELSE st'[t] = "failed" /\ r.rc # 0
  BY <1>0, <1>4, <1>6, <1>7, <1>8
<1>11. r.rc = 0 => ps[p].rc = 0
  BY <1>0, <1>4, <1>6, <1>8
<1>12. Lawful(p, r, Jobs(p))
  BY <1>0, <1>6, <1>8, <1>9, <1>10, <1>11 DEF Lawful, Waits, Bad, Through
<1>13. ps[p].got = 0 => Earned(t)
  BY <1>0, <1>1, <1>3 DEF Earned, Waits
<1>14. Told(p, r)
  BY <1>0, <1>7, <1>10, <1>13 DEF Told
<1>15. Keeps(p, r)
  BY <1>0, <1>2, <1>6, <1>8 DEF Keeps, Awaits, Lists
<1>16. ps[p].cmd = "unlocked" => t = ps[p].tgt /\ l = <<>>
  BY <1>0, <1>1
<1>17. Records(p, r)
  BY <1>0, <1>2, <1>3, <1>6, <1>7, <1>8, <1>16 DEF Records, Lists
<1> QED BY <1>0, <1>8, <1>12, <1>14, <1>15, <1>17 DEF MovedAlone

LEMMA SpawnResult ==
    ASSUME TreeInv, NEW p \in DOMAIN ps, Live(p), SpawnNext(p) \/ Spawn(p)
    PROVE  MovedAlone(p) \/ MovedForking(p)
<1>0. /\ ps[p] \in Proc /\ Shape(ps[p]) /\ Fits(ps[p], Jobs(p))
      /\ ps[p].cmd = "spawn" /\ ps[p].pc \in {"next", "spawn"} /\ ps[p].cyc \in SUBSET Target
      /\ ps[p].todo \in Seq(Target) /\ st' = st /\ starts' = starts
  BY ProcFacts DEF SpawnNext, Spawn, Proc, Shape
<1>1. CASE SpawnNext(p)
  <2>0. PICK l \in {"waitall", "spawn"} : l = "spawn" <=> ~(ps[p].todo = <<>> \/ Stop(p))
    OBVIOUS
  <2>1. PICK r \in Proc : r = [ps[p] EXCEPT !.pc = l]
    BY <1>0 DEF Proc
  <2>2. /\ r.job = ps[p].job /\ r.tgt = ps[p].tgt /\ r.cmd = "spawn" /\ r.pc = l
        /\ r.todo = ps[p].todo /\ r.rc = ps[p].rc
        /\ r.locked = ps[p].locked /\ r.blocked = ps[p].blocked /\ r.cyc = ps[p].cyc
    BY <1>0, <2>1 DEF Proc
  <2>3. \A d : Pending(ps[p], Jobs(p), d) => Pending(r, Jobs(p), d)
    BY <1>0, <2>2 DEF Pending
  <2>4. Lawful(p, r, Jobs(p))
    BY <1>0, <2>0, <2>2, <2>3 DEF Lawful, Waits, Through, Stop
  <2>5. Told(p, r) /\ Records(p, r)
    BY <1>0 DEF Told, Records
  <2>6. Keeps(p, r)
    BY <1>0, <2>2 DEF Keeps, Awaits, Lists
  <2>7. Put(p, r)
    BY <1>1, <2>0, <2>1 DEF SpawnNext, Put
  <2> QED BY <1>0, <2>1, <2>4, <2>5, <2>6, <2>7 DEF MovedAlone
<1>2. CASE Spawn(p)
  <2>0. ps[p].todo # <<>>
    BY <1>0, <1>2 DEF Spawn, Shape
  <2>1. PICK t \in Target, l \in Seq(Target) : t = Head(ps[p].todo) /\ l = Tail(ps[p].todo)
    BY <1>0, <2>0, ListFacts
  <2>2. Range(ps[p].todo) = {t} \cup Range(l)
    BY <1>0, <2>0, <2>1, ListFacts
  <2>3. t \notin Jobs(p)
    BY <1>0, <2>2 DEF Fits
  <2>4. PICK b \in Proc : b = [ps[p] EXCEPT !.todo = l, !.pc = "next"]
    BY <1>0 DEF Proc
  <2>5. /\ b.job = ps[p].job /\ b.tgt = ps[p].tgt /\ b.cmd = "spawn" /\ b.pc = "next"
        /\ b.todo = l /\ b.rc = ps[p].rc
        /\ b.locked = ps[p].locked /\ b.blocked = ps[p].blocked /\ b.cyc = ps[p].cyc
    BY <1>0, <2>4 DEF Proc
  <2>6. PICK r \in Proc : r = [b EXCEPT !.my = @ - 1]
    BY TokenOnly
  <2>7. /\ r.job = ps[p].job /\ r.tgt = ps[p].tgt /\ r.cmd = "spawn" /\ r.pc = "next"
        /\ r.todo = l /\ r.rc = ps[p].rc
        /\ r.locked = ps[p].locked /\ r.blocked = ps[p].blocked /\ r.cyc = ps[p].cyc
    BY <2>5, <2>6, TokenOnly
  <2>8. PICK m \in Seq(Target) : m = <<t>>
    <3>1. <<t>> \in Seq(Target)
      OBVIOUS
    <3> QED BY <3>1
  <2>9. t \in Range(m)
    <3>1. 1 \in DOMAIN m /\ m[1] = t
      BY <2>8
    <3> QED BY <3>1 DEF Range
  <2>10. PICK k \in Proc : k = Job("redo", t, "redo", m, ps[p].cyc)
    BY <1>0, FreshJob
  <2>11. /\ k.job = "redo" /\ k.tgt = t /\ k.pc = "next" /\ k.todo = m /\ k.rc = 0
         /\ k.cmd = "redo" /\ k.cyc = ps[p].cyc /\ k.locked = <<>> /\ k.blocked = <<>>
    BY <1>0, <2>10, FreshJob
  <2>12. Begins(k)
    BY <2>9, <2>11 DEF Begins, Duty, Pending
  <2>13. Forked(p, r, t, k)
    BY <1>2, <2>1, <2>4, <2>6, <2>8, <2>10 DEF Spawn, Fork, Forked
  <2>14. \A d : Pending(ps[p], Jobs(p), d) => Pending(r, Jobs(p) \cup {t}, d)
    BY <1>0, <2>2, <2>7 DEF Pending
  <2>15. Lawful(p, r, Jobs(p) \cup {t})
    BY <1>0, <2>7, <2>14 DEF Lawful, Waits, Through
  <2>16. Keeps(p, r) /\ r.pc # "exited"
    BY <1>0, <2>0, <2>2, <2>7 DEF Keeps, Awaits, Lists
  <2>17. Lists(k) \subseteq Scope(k)
    <3>1. Range(m) \subseteq {t} /\ Range(<<>>) = {}
      BY <2>8 DEF Range
    <3> QED BY <2>11, <3>1 DEF Lists, Scope
  <2>18. Springs(p, t, k)
    BY <1>0, <2>2, <2>11, <2>17 DEF Springs, Sprung, Lists
  <2> QED BY <1>0, <2>3, <2>12, <2>13, <2>15, <2>16, <2>18 DEF MovedForking
<1> QED BY <1>1, <1>2

LEMMA OobSecondResult ==
    ASSUME TreeInv, NEW p \in DOMAIN ps, Live(p), OobSecond(p)
    PROVE  MovedAlone(p)
<1>0. /\ ps[p] \in Proc /\ ps[p].job = "oob" /\ ps[p].cmd = "ifchange" /\ ps[p].pc = "end"
      /\ ps[p].rc = 0 /\ ps[p].cyc \in SUBSET Target /\ st' = st /\ Tree /\ starts' = starts
  BY ProcFacts DEF OobSecond, Proc
<1>1. PICK t \in Target : t = ps[p].tgt
  <2>1. p # Top
    BY <1>0 DEF Tree
  <2> QED BY <2>1, ParentOf
<1>2. PICK l \in Seq(Target) : l = <<t>>
  <2>1. <<t>> \in Seq(Target)
    OBVIOUS
  <2> QED BY <2>1
<1>3. t \in Range(l)
  <2>1. 1 \in DOMAIN l /\ l[1] = t
    BY <1>2
  <2> QED BY <2>1 DEF Range
<1>4. PICK r \in Proc : r = Job("oob", t, "unlocked", l, ps[p].cyc)
  BY <1>0, FreshJob
<1>5. /\ r.job = "oob" /\ r.tgt = t /\ r.cmd = "unlocked" /\ r.pc = "next" /\ r.todo = l /\ r.rc = 0
      /\ r.cyc = ps[p].cyc /\ r.locked = <<>> /\ r.blocked = <<>>
  BY <1>0, <1>4, FreshJob
<1>6. Duty(ps[p]) = {t}
  BY <1>0, <1>1 DEF Duty
<1>7. Pending(r, Jobs(p), t)
  BY <1>3, <1>5 DEF Pending
<1>8. Lawful(p, r, Jobs(p))
  BY <1>0, <1>1, <1>5, <1>6, <1>7 DEF Lawful, Waits, Through
<1>9. Told(p, r) /\ Records(p, r)
  BY <1>0 DEF Told, Records
<1>10. Put(p, r)
  BY <1>1, <1>2, <1>4 DEF OobSecond
<1>11. Lists(r) \subseteq {t}
  <2>1. Range(l) \subseteq {t} /\ Range(<<>>) = {}
    BY <1>2 DEF Range
  <2> QED BY <1>5, <2>1 DEF Lists
<1>12. Keeps(p, r)
  BY <1>0, <1>5, <1>11 DEF Keeps, Awaits
<1> QED BY <1>0, <1>8, <1>9, <1>10, <1>12 DEF MovedAlone

-----------------------------------------------------------------------------
(* What follows from such a step. *)
LEMMA DutyIn ==
    ASSUME TreeInv, NEW p \in DOMAIN ps
    PROVE  /\ Duty(ps[p]) \subseteq Target
           /\ Waits(ps[p], Jobs(p)) => /\ Head(ps[p].todo) \in Target
                                       /\ Range(Args[Head(ps[p].todo)]) \subseteq Target
<1>0. /\ ps[p] \in Proc /\ Shape(ps[p]) /\ graph \in DOMAIN Graphs /\ ps[p].todo \in Seq(Target)
      /\ ps[Top].job = "top"
  BY ProcFacts DEF Shared, Proc, Tree
<1>1. Range(Roots) \subseteq Target /\ \A t \in Target : Range(Args[t]) \subseteq Target
  BY <1>0, GraphTypes, ListFacts
<1>2. Duty(ps[p]) \subseteq Target
  <2>1. CASE p = Top
    BY <1>0, <1>1, <2>1 DEF Duty
  <2>2. CASE p # Top
    <3>1. ps[p].tgt \in Target
      BY <2>2, ParentOf
    <3> QED BY <1>1, <3>1 DEF Duty
  <2> QED BY <2>1, <2>2
<1>3. Waits(ps[p], Jobs(p)) => Head(ps[p].todo) \in Target
  BY <1>0, ListFacts DEF Waits, Shape
<1> QED BY <1>1, <1>2, <1>3

(* What is settled stays so. *)
Lasts(S) == \A d \in Target : Settled(S, d) => Settled(S, d)'

LEMMA EarnedSettles ==
    ASSUME TreeInv, NEW S, ProgressInv(S), NEW d \in Target, Earned(d)
    PROVE  \A e \in Range(Args[d]) : Settled(S, e)
<1>1. CASE \A e \in Range(Args[d]) : st[e] = "ok"
  BY <1>1 DEF Settled
<1>2. ASSUME NEW p \in DOMAIN ps, Waits(ps[p], Jobs(p)), ps[p].got = 0, d = Head(ps[p].todo)
      PROVE  \A e \in Range(Args[d]) : Settled(S, e)
  BY <1>2 DEF ProgressInv, Progress
<1>3. ASSUME NEW c \in DOMAIN ps, ps[c].job = "do", ps[c].tgt = d, ps[c].rc = 0, ps[c].pc = "exited"
      PROVE  \A e \in Range(Args[d]) : Settled(S, e)
  <2>1. Duty(ps[c]) = Range(Args[d])
    BY <1>3 DEF Duty
  <2>2. \A e \in Duty(ps[c]) : Pending(ps[c], Jobs(c), e) \/ ps[c].rc # 0 \/ Settled(S, e)
    BY DEF ProgressInv, Progress
  <2>3. \A e : ~Pending(ps[c], Jobs(c), e)
    BY <1>3 DEF Pending
  <2> QED BY <1>3, <2>1, <2>2, <2>3
<1> QED BY <1>1, <1>2, <1>3 DEF Earned

(* The parts of the graph do not change. *)
LEMMA SameGraph ==
    ASSUME graph' = graph
    PROVE  /\ Roots' = Roots /\ Args' = Args /\ Knots[graph]' = Knots[graph]
           /\ \A r : Duty(r)' = Duty(r)
BY DEF Roots, Args, Knots, Duty

(* Others keep their progress. *)
LEMMA OthersProgress ==
    ASSUME TreeInv, graph' = graph, NEW S, ProgressInv(S), Lasts(S),
           NEW q \in DOMAIN ps, ps'[q] = ps[q], Jobs(q)' = Jobs(q)
    PROVE  Progress(S, q)'
<1>1. PICK r, J : r = ps[q] /\ J = Jobs(q)
  OBVIOUS
<1>2. Duty(r)' = Duty(r) /\ Args' = Args /\ Duty(r) \subseteq Target
  BY <1>1, SameGraph, DutyIn
<1>3. /\ \A d \in Duty(r) : Pending(r, J, d) \/ r.rc # 0 \/ Settled(S, d)
      /\ Waits(r, J) /\ r.got = 0 => \A d \in Range(Args[Head(r.todo)]) : Settled(S, d)
  BY <1>1 DEF ProgressInv, Progress
<1>4. Waits(r, J) => Range(Args[Head(r.todo)]) \subseteq Target
  BY <1>1, DutyIn
<1>5. /\ \A d \in Duty(r)' : Pending(r, J, d) \/ r.rc # 0 \/ Settled(S, d)'
      /\ Waits(r, J) /\ r.got = 0 => \A d \in Range(Args'[Head(r.todo)]) : Settled(S, d)'
  BY <1>2, <1>3, <1>4 DEF Lasts
<1>6. ps'[q] = r /\ Jobs(q)' = J
  BY <1>1
<1> QED BY <1>5, <1>6 DEF Progress

(* p itself. *)
LEMMA OwnProgress ==
    ASSUME TreeInv, graph' = graph, NEW S, ProgressInv(S), Lasts(S),
           NEW p \in DOMAIN ps, NEW r \in Proc, NEW J, Lawful(p, r, J), ps'[p] = r, Jobs(p)' = J
    PROVE  Progress(S, p)'
<1>1. Duty(r)' = Duty(r) /\ Args' = Args /\ Duty(r) = Duty(ps[p]) /\ Duty(r) \subseteq Target
  BY SameGraph, DutyIn DEF Lawful, Duty
<1>2. \A d \in Duty(r) : Pending(r, J, d) \/ r.rc # 0 \/ Settled(S, d)'
  <2>1. \A d \in Duty(r) : Pending(ps[p], Jobs(p), d) \/ ps[p].rc # 0 \/ Settled(S, d)
    BY <1>1 DEF ProgressInv, Progress
  <2>2. \A d \in Duty(r) : Settled(S, d) => Settled(S, d)'
    BY <1>1 DEF Lasts
  <2>3. \A d \in Duty(r) : st'[d] = "ok" => Settled(S, d)'
    BY DEF Settled
  <2>4. /\ r.rc = 0 => ps[p].rc = 0
        /\ \A d \in Duty(r) :
              Pending(ps[p], Jobs(p), d) => Pending(r, J, d) \/ r.rc # 0 \/ st'[d] = "ok"
    BY <1>1 DEF Lawful
  <2> QED BY <2>1, <2>2, <2>3, <2>4
<1>3. ASSUME Waits(r, J), r.got = 0 PROVE \A d \in Range(Args[Head(r.todo)]) : Settled(S, d)'
  <2>1. Waits(ps[p], Jobs(p)) /\ ps[p].got = 0 /\ Head(r.todo) = Head(ps[p].todo)
    BY <1>3 DEF Lawful
  <2>2. \A d \in Range(Args[Head(r.todo)]) : Settled(S, d)
    BY <2>1 DEF ProgressInv, Progress
  <2>3. Range(Args[Head(r.todo)]) \subseteq Target
    BY <2>1, DutyIn
  <2> QED BY <2>2, <2>3 DEF Lasts
<1>4. /\ \A d \in Duty(r)' : Pending(r, J, d) \/ r.rc # 0 \/ Settled(S, d)'
      /\ Waits(r, J) /\ r.got = 0 => \A d \in Range(Args'[Head(r.todo)]) : Settled(S, d)'
  BY <1>1, <1>2, <1>3
<1> QED BY <1>4 DEF Progress

(* How far the processes and their jobs change in a step of p. *)
LEMMA AloneShape ==
    ASSUME TreeInv, NEW p \in DOMAIN ps, NEW r \in Proc, Put(p, r)
    PROVE  /\ DOMAIN ps' = DOMAIN ps /\ ps'[p] = r
           /\ \A q \in DOMAIN ps : q # p => ps'[q] = ps[q]
           /\ \A q \in DOMAIN ps : Jobs(q)' = Jobs(q)
BY DEF Put, Jobs

LEMMA ForkShape ==
    ASSUME TreeInv, NEW p \in DOMAIN ps, NEW r \in Proc, NEW k \in Proc, NEW t \in Target, t \notin Jobs(p),
           Forked(p, r, t, k), NEW c, c = Append(p, t)
    PROVE  /\ \A q \in DOMAIN ps : q # p => Jobs(q)' = Jobs(q)
           /\ Jobs(p)' = Jobs(p) \cup {t}
           /\ Jobs(c)' = {}
<1>0. /\ p \in Seq(Target) /\ DOMAIN ps \subseteq Seq(Target)
      /\ \A q \in Seq(Target), u \in Target : Append(q, u) \in DOMAIN ps => q \in DOMAIN ps
  BY ProcFacts DEF TreeInv, Tree
<1>1. c \in Seq(Target)
  BY <1>0, AppendFacts
<1>2. c \notin DOMAIN ps /\ DOMAIN ps' = DOMAIN ps \cup {c}
  BY ProcFacts DEF Forked, Jobs
<1>3. \A q \in DOMAIN ps, u \in Target : Append(q, u) = c => q = p /\ u = t
  BY <1>0, <1>1, PathsDiffer
<1>4. \A q \in DOMAIN ps : q # p => Jobs(q)' = Jobs(q)
  BY <1>2, <1>3 DEF Jobs
<1>5. Jobs(p)' = Jobs(p) \cup {t}
  BY <1>1, <1>2, <1>3 DEF Jobs
<1>6. Jobs(c)' = {}
  <2>1. \A u \in Target : Append(c, u) \notin DOMAIN ps /\ Append(c, u) # c
    BY <1>0, <1>1, <1>2, AppendFacts
  <2> QED BY <1>2, <2>1 DEF Jobs
<1> QED BY <1>4, <1>5, <1>6

(* Such a step keeps the progress of all processes. *)
LEMMA MovedProgress ==
    ASSUME TreeInv, graph' = graph, NEW S, ProgressInv(S), Lasts(S), NEW p \in DOMAIN ps,
           MovedAlone(p) \/ MovedForking(p)
    PROVE  ProgressInv(S)'
<1>1. CASE MovedAlone(p)
  <2>1. PICK r \in Proc : Put(p, r) /\ Lawful(p, r, Jobs(p)) /\ Told(p, r)
    BY <1>1 DEF MovedAlone
  <2>2. /\ DOMAIN ps' = DOMAIN ps /\ ps'[p] = r
        /\ \A q \in DOMAIN ps : q # p => ps'[q] = ps[q]
        /\ \A q \in DOMAIN ps : Jobs(q)' = Jobs(q)
    BY <2>1, AloneShape
  <2>3. PICK J : J = Jobs(p)
    OBVIOUS
  <2>4. Progress(S, p)'
    BY <2>1, <2>2, <2>3, OwnProgress
  <2>5. \A q \in DOMAIN ps : q # p => Progress(S, q)'
    BY <2>2, OthersProgress
  <2> QED BY <2>2, <2>4, <2>5 DEF ProgressInv
<1>2. CASE MovedForking(p)
  <2>1. PICK r \in Proc, k \in Proc, t \in Target :
           /\ t \notin Jobs(p) /\ Forked(p, r, t, k) /\ Lawful(p, r, Jobs(p) \cup {t}) /\ Begins(k) /\ st' = st
    BY <1>2 DEF MovedForking
  <2>2. PICK c : c = Append(p, t)
    OBVIOUS
  <2>3. /\ DOMAIN ps' = DOMAIN ps \cup {c} /\ ps'[p] = r /\ ps'[c] = k
        /\ \A q \in DOMAIN ps : q # p => ps'[q] = ps[q] /\ Jobs(q)' = Jobs(q)
        /\ Jobs(p)' = Jobs(p) \cup {t} /\ Jobs(c)' = {}
    <3>1. /\ DOMAIN ps' = DOMAIN ps \cup {c} /\ ps'[p] = r /\ ps'[c] = k
          /\ \A q \in DOMAIN ps : q # p => ps'[q] = ps[q]
      BY <2>1, <2>2, ProcFacts DEF Forked, Jobs
    <3>2. /\ \A q \in DOMAIN ps : q # p => Jobs(q)' = Jobs(q)
          /\ Jobs(p)' = Jobs(p) \cup {t} /\ Jobs(c)' = {}
      BY <2>1, <2>2, ForkShape
    <3> QED BY <3>1, <3>2
  <2>4. PICK J : J = Jobs(p) \cup {t}
    OBVIOUS
  <2>5. Progress(S, p)'
    BY <2>1, <2>3, <2>4, OwnProgress
  <2>6. \A q \in DOMAIN ps : q # p => Progress(S, q)'
    BY <2>3, OthersProgress
  <2>7. Progress(S, c)'
    <3>1. Duty(k)' = Duty(k)
      BY SameGraph
    <3>2. /\ \A d \in Duty(k)' : Pending(k, {}, d)
          /\ ~Waits(k, {})
      BY <2>1, <3>1 DEF Begins, Waits
    <3> QED BY <2>3, <3>2 DEF Progress
  <2> QED BY <2>3, <2>5, <2>6, <2>7 DEF ProgressInv
<1> QED BY <1>1, <1>2

(* ... the traces of failure, the order of the lists and of the paths. *)
LEMMA MovedFails ==
    ASSUME TreeInv, FailInv, NEW p \in DOMAIN ps, MovedAlone(p) \/ MovedForking(p)
    PROVE  FailInv'
<1>0. SUFFICES ASSUME NEW t \in Target, st'[t] = "failed"
               PROVE  \E q \in DOMAIN ps' : Bad(ps'[q], Jobs(q)')
  BY DEF FailInv
<1>1. ASSUME NEW r, NEW J, Lawful(p, r, J), Bad(ps[p], Jobs(p)) PROVE Bad(r, J)
  BY <1>1 DEF Lawful, Bad
<1>2. CASE MovedAlone(p)
  <2>1. PICK r \in Proc : Put(p, r) /\ Lawful(p, r, Jobs(p)) /\ Told(p, r)
    BY <1>2 DEF MovedAlone
  <2>2. /\ DOMAIN ps' = DOMAIN ps /\ ps'[p] = r
        /\ \A q \in DOMAIN ps : q # p => ps'[q] = ps[q]
        /\ \A q \in DOMAIN ps : Jobs(q)' = Jobs(q)
    BY <2>1, AloneShape
  <2>3. st'[t] = st[t] \/ r.rc # 0
    BY <1>0, <2>1 DEF Told
  <2>4. CASE r.rc # 0
    BY <2>2, <2>4 DEF Bad
  <2>5. CASE st'[t] = st[t]
    <3>1. PICK q \in DOMAIN ps : Bad(ps[q], Jobs(q))
      BY <1>0, <2>5 DEF FailInv
    <3>2. CASE q = p
      <4>1. Bad(r, Jobs(p))
        BY <1>1, <2>1, <3>1, <3>2
      <4> QED BY <2>2, <3>2, <4>1
    <3>3. CASE q # p
      BY <2>2, <3>1, <3>3
    <3> QED BY <3>2, <3>3
  <2> QED BY <2>3, <2>4, <2>5
<1>3. CASE MovedForking(p)
  <2>1. PICK r \in Proc, k \in Proc, u \in Target :
           /\ u \notin Jobs(p) /\ Forked(p, r, u, k) /\ Lawful(p, r, Jobs(p) \cup {u}) /\ Begins(k) /\ st' = st
    BY <1>3 DEF MovedForking
  <2>2. /\ DOMAIN ps \subseteq DOMAIN ps' /\ ps'[p] = r
        /\ \A q \in DOMAIN ps : q # p => ps'[q] = ps[q] /\ Jobs(q)' = Jobs(q)
        /\ Jobs(p)' = Jobs(p) \cup {u}
    <3>1. /\ DOMAIN ps \subseteq DOMAIN ps' /\ ps'[p] = r
          /\ \A q \in DOMAIN ps : q # p => ps'[q] = ps[q]
      BY <2>1, ProcFacts DEF Forked, Jobs
    <3>2. /\ \A q \in DOMAIN ps : q # p => Jobs(q)' = Jobs(q)
          /\ Jobs(p)' = Jobs(p) \cup {u}
      BY <2>1, ForkShape
    <3> QED BY <3>1, <3>2
  <2>3. PICK q \in DOMAIN ps : Bad(ps[q], Jobs(q))
    BY <1>0, <2>1 DEF FailInv
  <2>4. CASE q = p
    <3>1. Bad(r, Jobs(p) \cup {u})
      BY <1>1, <2>1, <2>3, <2>4
    <3> QED BY <2>2, <2>4, <3>1
  <2>5. CASE q # p
    BY <2>2, <2>3, <2>5
  <2> QED BY <2>4, <2>5
<1> QED BY <1>2, <1>3

LEMMA MovedRest ==
    ASSUME TreeInv, Closed, \A q \in DOMAIN ps : Through(ps[q]),
           NEW p \in DOMAIN ps, MovedAlone(p) \/ MovedForking(p)
    PROVE  Closed' /\ \A q \in DOMAIN ps' : Through(ps'[q])
<1>1. CASE MovedAlone(p)
  <2>1. PICK r \in Proc : Put(p, r) /\ Lawful(p, r, Jobs(p)) /\ Told(p, r)
    BY <1>1 DEF MovedAlone
  <2>2. /\ DOMAIN ps' = DOMAIN ps /\ ps'[p] = r
        /\ \A q \in DOMAIN ps : q # p => ps'[q] = ps[q]
    BY <2>1, AloneShape
  <2>3. Through(r)
    BY <2>1 DEF Lawful
  <2> QED BY <2>2, <2>3 DEF Closed
<1>2. CASE MovedForking(p)
  <2>1. PICK r \in Proc, k \in Proc, t \in Target :
           /\ t \notin Jobs(p) /\ Forked(p, r, t, k) /\ Lawful(p, r, Jobs(p) \cup {t}) /\ Begins(k) /\ st' = st
    BY <1>2 DEF MovedForking
  <2>2. PICK c : c = Append(p, t)
    OBVIOUS
  <2>3. /\ DOMAIN ps' = DOMAIN ps \cup {c} /\ ps'[p] = r /\ ps'[c] = k
        /\ \A q \in DOMAIN ps : q # p => ps'[q] = ps[q]
    BY <2>1, <2>2, ProcFacts DEF Forked, Jobs
  <2>4. Through(r) /\ Through(k)
    BY <2>1 DEF Lawful, Begins, Through
  <2>5. ASSUME NEW q \in Seq(Target), IsPrefix(q, c) PROVE q \in DOMAIN ps'
    <3>1. p \in Seq(Target)
      BY ProcFacts
    <3>2. IsPrefix(q, p) \/ q = c
      BY <2>2, <2>5, <3>1, PrefixAppend
    <3> QED BY <2>3, <3>2 DEF Closed
  <2>6. Closed'
    BY <2>3, <2>5 DEF Closed
  <2> QED BY <2>3, <2>4, <2>6
<1> QED BY <1>1, <1>2

-----------------------------------------------------------------------------
(* wait(): p reaps the jobs C, those for the targets T. *)
Reaped(p, C, T, r) ==
    /\ T # {} /\ T \subseteq Jobs(p) /\ C = {Append(p, t) : t \in T}
    /\ r.job = ps[p].job /\ r.tgt = ps[p].tgt /\ r.cmd = ps[p].cmd /\ r.pc = ps[p].pc
    /\ r.todo = ps[p].todo /\ r.locked = ps[p].locked /\ r.blocked = ps[p].blocked
    /\ r.cur = ps[p].cur /\ r.rc = Flag(p, C) /\ r.got = Status(C) /\ r.pc # "exited"
    /\ r.cmd \in {"redo", "unlocked"} => r.pc = "waitall" /\ r.todo # <<>> /\ T = Jobs(p) /\ T = {Head(r.todo)}
    /\ p \in DOMAIN ps' /\ DOMAIN ps' \subseteq DOMAIN ps /\ ps'[p] = r
    /\ \A q \in DOMAIN ps' : q # p => ps'[q] = ps[q] /\ Jobs(q)' = Jobs(q)
    /\ \A q \in DOMAIN ps \ DOMAIN ps' : ps[q].pc = "exited" /\ \E t \in T : IsPrefix(Append(p, t), q)
    /\ \A q \in DOMAIN ps, t \in T : IsPrefix(Append(p, t), q) => q \notin DOMAIN ps'
    /\ Jobs(p)' = Jobs(p) \ T
    /\ \A t \in T : /\ Append(p, t) \in DOMAIN ps /\ ps[Append(p, t)].pc = "exited"
                    /\ ps[Append(p, t)].tgt = t /\ ps[Append(p, t)].job \in Kinds(ps[p].cmd)
    /\ \A t \in Target :
          st'[t] = IF ps[p].cmd # "ifchange" \/ t \notin T \/ ps[Append(p, t)].job = "oob" THEN st[t]
                   ELSE IF ps[Append(p, t)].rc = 0 THEN "ok" ELSE "failed"
    /\ r.cyc = ps[p].cyc /\ starts' = starts

LEMMA ReapShape ==
    ASSUME TreeInv, NEW p \in DOMAIN ps, Live(p), NEW C \in SUBSET Finished(p), Reap(p, C)
    PROVE  \E T \in SUBSET Target, r \in Proc : Reaped(p, C, T, r)
<1>0. /\ p \in Seq(Target) /\ DOMAIN ps \subseteq Seq(Target) /\ ps[p] \in Proc
      /\ Shape(ps[p]) /\ Fits(ps[p], Jobs(p)) /\ KidsOK(p)
  BY ProcFacts DEF Tree
<1>1. PICK T \in SUBSET Jobs(p), r \in Proc :
              /\ T # {} /\ C = {Append(p, t) : t \in T}
              /\ r = [ps[p] EXCEPT !.my = r.my, !.rc = Flag(p, C), !.got = Status(C)]
              /\ p \in DOMAIN ps' /\ DOMAIN ps' \subseteq DOMAIN ps /\ ps'[p] = r
              /\ \A q \in DOMAIN ps' : q # p => ps'[q] = ps[q]
              /\ \A q \in DOMAIN ps \ DOMAIN ps' :
                    ~Live(q) /\ \E t \in T : IsPrefix(Append(p, t), q)
              /\ \A q \in DOMAIN ps' : q # p => Jobs(q)' = Jobs(q)
              /\ Jobs(p)' = Jobs(p) \ T
              /\ Tree' /\ pipe' \in Int
  BY ReapFacts
<1>2. /\ r.job = ps[p].job /\ r.tgt = ps[p].tgt /\ r.cmd = ps[p].cmd /\ r.pc = ps[p].pc
      /\ r.todo = ps[p].todo /\ r.locked = ps[p].locked /\ r.blocked = ps[p].blocked
      /\ r.cur = ps[p].cur /\ r.rc = Flag(p, C) /\ r.got = Status(C) /\ r.pc # "exited"
      /\ r.cyc = ps[p].cyc
  BY <1>0, <1>1 DEF Proc, Live
<1>3. T \subseteq Target /\ \A t \in T : Append(p, t) \in DOMAIN ps
  BY DEF Jobs
<1>4. ASSUME r.cmd \in {"redo", "unlocked"}
      PROVE  r.pc = "waitall" /\ r.todo # <<>> /\ T = Jobs(p) /\ T = {Head(r.todo)}
  <2>1. Jobs(p) # {}
    BY <1>1
  <2>2. ~Quiet(ps[p]) /\ \A t \in Jobs(p) : t = Head(ps[p].todo)
    BY <1>0, <1>2, <1>4, <2>1 DEF Fits
  <2>3. r.pc = "waitall"
    BY <1>0, <1>2, <1>4, <2>2 DEF Reap, Ensuring, Quiet, Shape
  <2>4. r.todo # <<>>
    BY <1>0, <1>2, <1>4, <2>3 DEF Shape
  <2>5. PICK h : h = Head(r.todo)
    OBVIOUS
  <2>6. \A t \in Jobs(p) : t = h
    BY <1>2, <2>2, <2>5
  <2>7. T = Jobs(p) /\ T = {h}
    <3>1. T # {} /\ T \subseteq Jobs(p)
      BY <1>1
    <3> QED BY <2>6, <3>1
  <2> QED BY <2>3, <2>4, <2>5, <2>7
<1>5. \A t \in T : /\ Append(p, t) \in DOMAIN ps /\ ps[Append(p, t)].pc = "exited"
                   /\ ps[Append(p, t)].tgt = t /\ ps[Append(p, t)].job \in Kinds(ps[p].cmd)
  <2>1. ASSUME NEW t \in T PROVE ps[Append(p, t)].pc = "exited"
    <3>1. PICK c \in DOMAIN ps : c = Append(p, t)
      BY <1>3
    <3>2. c \in C
      BY <1>1, <3>1
    <3>3. c \in Finished(p) /\ IsPrefix(c, c)
      BY <1>0, <1>3, <3>1, <3>2, PrefixAppend
    <3> QED BY <3>1, <3>3 DEF Finished, Live
  <2> QED BY <1>0, <1>3, <2>1 DEF KidsOK
<1>6. \A q \in DOMAIN ps, t \in T : IsPrefix(Append(p, t), q) => q \notin DOMAIN ps'
  <2>1. DOMAIN ps' = {q \in DOMAIN ps : \A c \in C : ~IsPrefix(c, q)}
    BY DEF Reap
  <2>2. \A t \in T : Append(p, t) \in C
    BY <1>1
  <2> QED BY <2>1, <2>2
<1>7. PICK D : D = IF ps[p].cmd = "ifchange" THEN T ELSE {}
  OBVIOUS
<1>8. {ps[c].tgt : c \in C} = T
  <2>1. \A t \in T : ps[Append(p, t)].tgt = t
    BY <1>5
  <2>2. ASSUME NEW c \in C PROVE ps[c].tgt \in T
    <3>1. C = {Append(p, t) : t \in T}
      BY <1>1
    <3>2. PICK t \in T : c = Append(p, t)
      BY <3>1
    <3> QED BY <2>1, <3>2
  <2>3. \A t \in T : \E c \in C : t = ps[c].tgt
    BY <1>1, <2>1
  <2> QED BY <2>2, <2>3
<1>9. st' = [t \in Target |->
                    IF t \notin D \/ ps[Append(p, t)].job = "oob" THEN st[t]
                    ELSE IF ps[Append(p, t)].rc = 0 THEN "ok" ELSE "failed"]
  BY <1>7, <1>8 DEF Reap, DoneCallbacks
<1>10. \A q \in DOMAIN ps \ DOMAIN ps' : ps[q].pc = "exited"
  BY <1>1 DEF Live
<1>11. \A t \in Target :
          st'[t] = IF ps[p].cmd # "ifchange" \/ t \notin T \/ ps[Append(p, t)].job = "oob" THEN st[t]
                   ELSE IF ps[Append(p, t)].rc = 0 THEN "ok" ELSE "failed"
  BY <1>7, <1>9
<1>12. starts' = starts
  BY DEF Reap
<1>13. Reaped(p, C, T, r)
  BY <1>1, <1>2, <1>4, <1>5, <1>6, <1>10, <1>11, <1>12 DEF Reaped
<1> QED BY <1>3, <1>13

(* The status of the jobs. *)
LEMMA ReapedStatus ==
    ASSUME NEW p \in DOMAIN ps, NEW C, NEW T, NEW r \in Proc, Reaped(p, C, T, r), r.rc = 0
    PROVE  ps[p].rc = 0
BY DEF Reaped, Flag

LEMMA ReapedKid ==
    ASSUME NEW p \in DOMAIN ps, NEW C, NEW T \in SUBSET Target, NEW r \in Proc, Reaped(p, C, T, r),
           NEW t \in T, NEW c \in DOMAIN ps, c = Append(p, t), ps[c].rc # 0
    PROVE  /\ Bad(r, Jobs(p) \ T) /\ r.got # 0
           /\ r.rc = 0 => r.cmd \notin {"ifchange", "spawn"}
<1>1. c \in C
  BY DEF Reaped
<1>2. /\ r.rc = Flag(p, C) /\ r.got = Status(C) /\ r.cmd = ps[p].cmd
      /\ r.cmd \in {"redo", "unlocked"} => r.pc = "waitall" /\ T = Jobs(p)
      /\ r.cmd \in {"ifchange", "redo", "unlocked", "spawn"}
  BY DEF Reaped, Proc
<1>3. Status(C) = 1
  BY <1>1 DEF Status
<1>4. r.cmd \in {"ifchange", "spawn"} => r.rc # 0
  BY <1>2, <1>3 DEF Flag
<1>5. r.cmd \in {"redo", "unlocked"} => Jobs(p) \ T = {}
  BY <1>2
<1>6. Bad(r, Jobs(p) \ T)
  BY <1>2, <1>3, <1>4, <1>5 DEF Bad, Waits
<1> QED BY <1>2, <1>3, <1>4, <1>6

LEMMA ReapedTold ==
    ASSUME TreeInv, NEW p \in DOMAIN ps, NEW C, NEW T \in SUBSET Target, NEW r \in Proc, Reaped(p, C, T, r)
    PROVE  Told(p, r)
<1>0. SUFFICES ASSUME NEW d \in Target, st'[d] # st[d]
               PROVE  (st'[d] = "ok" /\ Earned(d)) \/ (st'[d] = "failed" /\ r.rc # 0)
  BY DEF Told
<1>1. /\ ps[p].cmd = "ifchange" /\ r.cmd = "ifchange" /\ d \in T /\ ps[Append(p, d)].job # "oob"
      /\ st'[d] = IF ps[Append(p, d)].rc = 0 THEN "ok" ELSE "failed"
  BY <1>0 DEF Reaped
<1>2. PICK c \in DOMAIN ps : c = Append(p, d)
  BY <1>1 DEF Reaped
<1>3. ps[c].pc = "exited" /\ ps[c].tgt = d /\ ps[c].job \in {"do", "oob"}
  BY <1>1, <1>2 DEF Reaped, Kinds
<1>4. CASE ps[c].rc = 0
  <2>1. ps[c].job = "do"
    BY <1>1, <1>2, <1>3
  <2>2. Earned(d)
    BY <1>3, <1>4, <2>1 DEF Earned
  <2> QED BY <1>1, <1>2, <1>4, <2>2
<1>5. CASE ps[c].rc # 0
  BY <1>1, <1>2, <1>5, ReapedKid
<1> QED BY <1>4, <1>5

LEMMA ReapedProgress ==
    ASSUME TreeInv, graph' = graph, NEW S, ProgressInv(S), Lasts(S),
           NEW p \in DOMAIN ps, NEW C, NEW T \in SUBSET Target, NEW r \in Proc, Reaped(p, C, T, r)
    PROVE  ProgressInv(S)'
<1>1. \A q \in DOMAIN ps' : q # p => Progress(S, q)'
  <2>1. \A q \in DOMAIN ps' : q # p => q \in DOMAIN ps /\ ps'[q] = ps[q] /\ Jobs(q)' = Jobs(q)
    BY DEF Reaped
  <2> QED BY <2>1, OthersProgress
<1>2. Duty(r)' = Duty(r) /\ Args' = Args /\ Duty(r) = Duty(ps[p]) /\ Duty(r) \subseteq Target
  BY SameGraph, DutyIn DEF Reaped, Duty
<1>3. PICK J : J = Jobs(p) \ T
  OBVIOUS
<1>4. ASSUME NEW d \in Duty(r) PROVE Pending(r, J, d) \/ r.rc # 0 \/ Settled(S, d)'
  <2>1. Pending(ps[p], Jobs(p), d) \/ ps[p].rc # 0 \/ Settled(S, d)
    BY <1>2 DEF ProgressInv, Progress
  <2>2. Settled(S, d) => Settled(S, d)'
    BY <1>2 DEF Lasts
  <2>3. r.rc = 0 => ps[p].rc = 0
    BY ReapedStatus
  <2>4. CASE Pending(ps[p], Jobs(p), d) /\ d \notin T
    BY <1>3, <2>4 DEF Pending, Reaped
  <2>5. CASE d \in T
    <3>0. PICK c \in DOMAIN ps : c = Append(p, d)
      BY <2>5 DEF Reaped
    <3>1. ps[c].pc = "exited" /\ ps[c].tgt = d /\ ps[c].job \in Kinds(r.cmd) /\ r.pc # "exited"
      BY <2>5, <3>0 DEF Reaped
    <3>2. CASE r.cmd \in {"redo", "unlocked"}
      <4>1. r.todo # <<>> /\ r.todo \in Seq(Target) /\ d = Head(r.todo)
        BY <2>5, <3>2 DEF Reaped, Proc
      <4>2. d \in Range(r.todo)
        BY <4>1, ListFacts
      <4> QED BY <3>1, <4>2 DEF Pending
    <3>3. CASE r.cmd \in {"ifchange", "spawn"}
      <4>1. ASSUME ps[c].rc # 0 PROVE r.rc # 0
        <5>1. /\ Bad(r, Jobs(p) \ T) /\ r.got # 0
              /\ r.rc = 0 => r.cmd \notin {"ifchange", "spawn"}
          BY <2>5, <3>0, <4>1, ReapedKid
        <5> QED BY <3>3, <5>1
      <4>2. CASE ps[c].job = "do"
        <5>1. r.cmd = "ifchange" /\ ps[p].cmd = "ifchange"
          BY <3>1, <3>3, <4>2 DEF Kinds, Reaped
        <5>2. ps[c].rc = 0 => st'[d] = "ok"
          BY <1>2, <2>5, <3>0, <4>2, <5>1 DEF Reaped
        <5> QED BY <4>1, <5>2 DEF Settled
      <4>3. CASE ps[c].job # "do"
        <5>1. Duty(ps[c]) = {d}
          BY <3>1, <3>3, <4>3 DEF Kinds, Duty
        <5>2. ps[c].rc # 0 \/ Settled(S, d)
          <6>1. Pending(ps[c], Jobs(c), d) \/ ps[c].rc # 0 \/ Settled(S, d)
            BY <5>1 DEF ProgressInv, Progress
          <6> QED BY <3>1, <6>1 DEF Pending
        <5> QED BY <2>2, <4>1, <5>2
      <4> QED BY <4>2, <4>3
    <3> QED BY <3>2, <3>3 DEF Proc
  <2> QED BY <2>1, <2>2, <2>3, <2>4, <2>5
<1>5. ASSUME Waits(r, J), r.got = 0 PROVE \A d \in Range(Args[Head(r.todo)]) : Settled(S, d)'
  <2>1. PICK t \in Target : t = Head(r.todo) /\ T = {t}
    <3>1. r.cmd \in {"redo", "unlocked"}
      BY <1>5 DEF Waits
    <3> QED BY <3>1 DEF Reaped
  <2>2. PICK c \in DOMAIN ps : c = Append(p, t)
    BY <2>1 DEF Reaped
  <2>3. ps[c].pc = "exited" /\ ps[c].tgt = t /\ ps[c].job = "do"
    BY <1>5, <2>1, <2>2 DEF Reaped, Waits, Kinds
  <2>4. ps[c].rc = 0
    BY <1>5, <2>1, <2>2, ReapedKid
  <2>5. Earned(t)
    BY <2>3, <2>4 DEF Earned
  <2>6. \A e \in Range(Args[t]) : Settled(S, e)
    BY <2>5, EarnedSettles
  <2>7. Range(Args[t]) \subseteq Target
    <3>1. Args[t] \in Seq(Target)
      BY GraphTypes, ProcFacts DEF Shared
    <3> QED BY <3>1, ListFacts
  <2> QED BY <2>1, <2>6, <2>7 DEF Lasts
<1>6. /\ \A d \in Duty(r)' : Pending(r, J, d) \/ r.rc # 0 \/ Settled(S, d)'
      /\ Waits(r, J) /\ r.got = 0 => \A d \in Range(Args'[Head(r.todo)]) : Settled(S, d)'
  BY <1>2, <1>4, <1>5
<1>7. ps'[p] = r /\ Jobs(p)' = J
  BY <1>3 DEF Reaped
<1>8. Progress(S, p)'
  BY <1>6, <1>7 DEF Progress
<1> QED BY <1>1, <1>8 DEF ProgressInv

(* A process with a proper descendant has a job. *)
LEMMA DescendantJob ==
    ASSUME Tree, Closed, NEW c \in DOMAIN ps, NEW q \in DOMAIN ps, IsPrefix(c, q), c # q
    PROVE  Jobs(c) # {}
<1>1. c \in Seq(Target) /\ q \in Seq(Target)
  BY DEF Tree
<1>2. Len(c) <= Len(q) /\ (\A i \in 1..Len(c) : c[i] = q[i]) /\ Len(c) \in Nat /\ Len(q) \in Nat
  BY <1>1, PrefixFacts
<1>3. Len(c) # Len(q)
  BY <1>1, <1>2, SeqEqual
<1>4. Len(c) + 1 \in 1..Len(q)
  BY <1>2, <1>3
<1>5. PICK u \in Target : u = q[Len(c) + 1]
  BY <1>1, <1>4
<1>6. PICK b \in Seq(Target) : b = Append(c, u)
  BY <1>1, AppendFacts
<1>7. Len(b) = Len(c) + 1 /\ (\A i \in 1..Len(c) : b[i] = c[i]) /\ b[Len(c) + 1] = u
  BY <1>1, <1>6
<1>8. \A i \in 1..Len(b) : b[i] = q[i]
  BY <1>2, <1>5, <1>7
<1>9. IsPrefix(b, q)
  BY <1>1, <1>4, <1>7, <1>8, PrefixFacts
<1>10. b \in DOMAIN ps
  BY <1>9 DEF Closed
<1> QED BY <1>6, <1>10 DEF Jobs

LEMMA ReapedFails ==
    ASSUME TreeInv, Closed, FailInv,
           NEW p \in DOMAIN ps, NEW C, NEW T \in SUBSET Target, NEW r \in Proc, Reaped(p, C, T, r)
    PROVE  FailInv'
<1>0. SUFFICES ASSUME NEW t \in Target, st'[t] = "failed"
               PROVE  \E q \in DOMAIN ps' : Bad(ps'[q], Jobs(q)')
  BY DEF FailInv
<1>1. p \in DOMAIN ps' /\ ps'[p] = r /\ Jobs(p)' = Jobs(p) \ T
  BY DEF Reaped
<1>2. SUFFICES ASSUME ~Bad(r, Jobs(p) \ T) PROVE \E q \in DOMAIN ps' : Bad(ps'[q], Jobs(q)')
  BY <1>1
<1>3. r.rc = 0
  BY <1>2 DEF Bad
<1>4. st[t] = "failed"
  BY <1>0, <1>3, ReapedTold DEF Told
<1>5. PICK q \in DOMAIN ps : Bad(ps[q], Jobs(q))
  BY <1>4 DEF FailInv
<1>6. CASE q = p
  <2>1. ps[p].rc = 0
    BY <1>3, ReapedStatus
  <2>2. Jobs(p) # {}
    BY DEF Reaped
  <2> QED BY <1>5, <1>6, <2>1, <2>2 DEF Bad, Waits
<1>7. CASE q \in DOMAIN ps' /\ q # p
  <2>1. ps'[q] = ps[q] /\ Jobs(q)' = Jobs(q)
    BY <1>7 DEF Reaped
  <2> QED BY <1>5, <1>7, <2>1
<1>8. CASE q \notin DOMAIN ps'
  <2>1. PICK u \in T : ps[q].pc = "exited" /\ IsPrefix(Append(p, u), q)
    BY <1>8 DEF Reaped
  <2>2. PICK c \in DOMAIN ps : c = Append(p, u)
    BY <2>1 DEF Reaped
  <2>3. ps[q].rc # 0
    BY <1>5, <2>1 DEF Bad, Waits
  <2>4. ps[c].rc # 0
    <3>1. CASE q = c
      BY <2>3, <3>1
    <3>2. CASE q # c
      <4>1. Jobs(c) # {}
        BY <2>1, <2>2, <3>2, DescendantJob DEF TreeInv
      <4>2. ps[c].pc = "exited" /\ Fits(ps[c], Jobs(c))
        BY <2>2, ProcFacts DEF Reaped
      <4> QED BY <4>1, <4>2 DEF Fits
    <3> QED BY <3>1, <3>2
  <2> QED BY <1>2, <2>2, <2>4, ReapedKid
<1> QED BY <1>6, <1>7, <1>8

LEMMA ReapedRest ==
    ASSUME TreeInv, Closed, \A q \in DOMAIN ps : Through(ps[q]),
           NEW p \in DOMAIN ps, NEW C, NEW T \in SUBSET Target, NEW r \in Proc, Reaped(p, C, T, r)
    PROVE  Closed' /\ \A q \in DOMAIN ps' : Through(ps'[q])
<1>1. \A q \in DOMAIN ps' : q \in DOMAIN ps /\ (q # p => ps'[q] = ps[q]) /\ ps'[p] = r
  BY DEF Reaped
<1>2. Through(r)
  <2>1. r.rc = 0 => ps[p].rc = 0
    BY ReapedStatus
  <2> QED BY <2>1 DEF Through, Reaped
<1>3. ASSUME NEW q \in DOMAIN ps', NEW b \in Seq(Target), IsPrefix(b, q) PROVE b \in DOMAIN ps'
  <2>1. b \in DOMAIN ps /\ q \in DOMAIN ps /\ q \in Seq(Target) /\ p \in Seq(Target)
    BY <1>1, <1>3, ProcFacts DEF Closed, Tree
  <2>2. SUFFICES ASSUME b \notin DOMAIN ps' PROVE FALSE
    OBVIOUS
  <2>3. PICK t \in T : IsPrefix(Append(p, t), b)
    BY <2>1, <2>2 DEF Reaped
  <2>4. PICK c \in Seq(Target) : c = Append(p, t)
    BY <2>1, AppendFacts
  <2>5. /\ Len(c) <= Len(b) /\ \A i \in 1..Len(c) : c[i] = b[i]
        /\ Len(b) <= Len(q) /\ \A i \in 1..Len(b) : b[i] = q[i]
    BY <1>3, <2>1, <2>3, <2>4, PrefixFacts
  <2>6. Len(c) <= Len(q) /\ \A i \in 1..Len(c) : c[i] = q[i]
    BY <2>1, <2>4, <2>5
  <2>7. IsPrefix(c, q)
    BY <2>1, <2>6, PrefixFacts
  <2> QED BY <2>1, <2>4, <2>7 DEF Reaped
<1>4. Closed'
  BY <1>3 DEF Closed
<1> QED BY <1>1, <1>2, <1>4

-----------------------------------------------------------------------------
(* A target of a knot is never recorded as built, and so settled once and  *)
(* for all when it is done with.                                           *)
LEMMA KnotHolds ==
    ASSUME TreeInv, CyclesFail, NEW K \in Knots[graph], ProgressInv(K), NEW p, NEW r, Told(p, r)
    PROVE  /\ \A t \in K : st'[t] # "ok"
           /\ Lasts(K)
<1>0. graph \in DOMAIN Graphs /\ st \in [Target -> Verdicts] /\ Args = Graphs[graph].args
  BY DEF TreeInv, Shared, Args
<1>1. K \subseteq Target /\ \A t \in K : Range(Args[t]) \cap K # {}
  BY <1>0 DEF Knots
<1>2. ASSUME NEW t \in K, st'[t] = "ok" PROVE FALSE
  <2>1. t \in Target /\ st[t] # "ok"
    BY <1>1 DEF CyclesFail
  <2>2. Earned(t)
    BY <1>2, <2>1 DEF Told
  <2>3. PICK e \in Range(Args[t]) : e \in K
    BY <1>1
  <2>4. Settled(K, e)
    BY <2>1, <2>2, EarnedSettles
  <2> QED BY <2>3, <2>4 DEF Settled, CyclesFail
<1>3. ASSUME NEW d \in Target, Settled(K, d) PROVE Settled(K, d)'
  <2>1. d \notin K
    BY <1>3 DEF Settled, CyclesFail
  <2>2. st'[d] \in {"ok", "failed"}
    BY <1>3 DEF Settled, Told
  <2> QED BY <2>1, <2>2 DEF Settled
<1> QED BY <1>2, <1>3 DEF Lasts

(* Every step is one of the above. *)
LEMMA StepResult ==
    ASSUME TreeInv, \A q \in DOMAIN ps : Through(ps[q]), NEW p \in DOMAIN ps, Step(p)
    PROVE  \/ MovedAlone(p) \/ MovedForking(p)
           \/ \E C : \E T \in SUBSET Target, r \in Proc : Reaped(p, C, T, r)
<1>0. Live(p) /\ Through(ps[p])
  BY DEF Step
<1>1. CASE IfchangeStep(p)
  BY <1>0, <1>1, FirstPassResult, LoopHeadResult, SecondPassResult, WaitedLockResult, ExitResults
     DEF IfchangeStep
<1>2. CASE BuildStep(p)
  BY <1>0, <1>2, BuildLockResult, BuildUnlockedResult, BuildPoolResult, BuildStartResult, BuildDoneResult
     DEF BuildStep
<1>3. CASE WaitAllRelease(p) \/ ReadToken(p)
  BY <1>0, <1>3, TokenResult
<1>4. CASE WaitAllDone(p)
  BY <1>0, <1>4, WaitAllDoneResult
<1>5. CASE SelfCheckFails(p) \/ CommandEnd(p)
  BY <1>0, <1>5, ExitResults
<1>6. CASE SpawnNext(p) \/ Spawn(p)
  BY <1>0, <1>6, SpawnResult
<1>7. CASE OobSecond(p)
  BY <1>0, <1>7, OobSecondResult
<1>8. ASSUME NEW C \in SUBSET Finished(p), Reap(p, C)
      PROVE  \E D : \E T \in SUBSET Target, r \in Proc : Reaped(p, D, T, r)
  <2>1. PICK T \in SUBSET Target, r \in Proc : Reaped(p, C, T, r)
    BY <1>0, <1>8, ReapShape
  <2> QED BY <2>1
<1> QED BY <1>1, <1>2, <1>3, <1>4, <1>5, <1>6, <1>7, <1>8 DEF Step

LEMMA ResultStep ==
    ASSUME ResultInv, NEW p \in DOMAIN ps, Step(p), graph' = graph
    PROVE  ResultInv'
<1>0. /\ TreeInv /\ Closed /\ FailInv /\ CyclesFail /\ Live(p)
      /\ \A q \in DOMAIN ps : Through(ps[q])
      /\ \A K \in Knots[graph] : ProgressInv(K)
  BY DEF ResultInv, Step
<1>1. TreeInv'
  <2>1. Next
    BY DEF Next
  <2> QED BY <1>0, <2>1, TreeStep
<1>2. Knots[graph]' = Knots[graph]
  BY SameGraph
<1>3. SUFFICES Closed' /\ FailInv' /\ (\A q \in DOMAIN ps' : Through(ps'[q]))
               /\ \A K \in Knots[graph] : ProgressInv(K)' /\ \A t \in K : st'[t] # "ok"
  BY <1>1, <1>2 DEF ResultInv, CyclesFail
<1>4. CASE MovedAlone(p) \/ MovedForking(p)
  <2>1. PICK r : Told(p, r)
    <3>1. CASE MovedAlone(p)
      BY <3>1 DEF MovedAlone
    <3>2. CASE MovedForking(p)
      BY <3>2 DEF MovedForking, Told
    <3> QED BY <1>4, <3>1, <3>2
  <2>2. ASSUME NEW K \in Knots[graph] PROVE ProgressInv(K)' /\ \A t \in K : st'[t] # "ok"
    <3>1. Lasts(K) /\ \A t \in K : st'[t] # "ok"
      BY <1>0, <2>1, KnotHolds
    <3>2. ProgressInv(K)'
      BY <1>0, <1>4, <3>1, MovedProgress
    <3> QED BY <3>1, <3>2
  <2>3. FailInv'
    BY <1>0, <1>4, MovedFails
  <2>4. Closed' /\ \A q \in DOMAIN ps' : Through(ps'[q])
    BY <1>0, <1>4, MovedRest
  <2> QED BY <2>2, <2>3, <2>4
<1>5. ASSUME NEW C, NEW T \in SUBSET Target, NEW r \in Proc, Reaped(p, C, T, r)
      PROVE  Closed' /\ FailInv' /\ (\A q \in DOMAIN ps' : Through(ps'[q]))
             /\ \A K \in Knots[graph] : ProgressInv(K)' /\ \A t \in K : st'[t] # "ok"
  <2>1. Told(p, r)
    BY <1>0, <1>5, ReapedTold
  <2>2. ASSUME NEW K \in Knots[graph] PROVE ProgressInv(K)' /\ \A t \in K : st'[t] # "ok"
    <3>1. Lasts(K) /\ \A t \in K : st'[t] # "ok"
      BY <1>0, <2>1, KnotHolds
    <3>2. ProgressInv(K)'
      BY <1>0, <1>5, <3>1, ReapedProgress
    <3> QED BY <3>1, <3>2
  <2>3. FailInv'
    BY <1>0, <1>5, ReapedFails
  <2>4. Closed' /\ \A q \in DOMAIN ps' : Through(ps'[q])
    BY <1>0, <1>5, ReapedRest
  <2> QED BY <2>2, <2>3, <2>4
<1> QED BY <1>0, <1>4, <1>5, StepResult

LEMMA ResultStutter ==
    ASSUME ResultInv, UNCHANGED <<vars, graph>>
    PROVE  ResultInv'
<1>0. /\ ps' = ps /\ st' = st /\ graph' = graph
  BY DEF vars
<1>1. TreeInv'
  BY TreeStep DEF ResultInv
<1>2. Knots[graph]' = Knots[graph] /\ Args' = Args /\ Roots' = Roots
  BY <1>0, SameGraph
<1>3. \A q : Jobs(q)' = Jobs(q)
  BY <1>0 DEF Jobs
<1>4. \A K \in Knots[graph] : ProgressInv(K)'
  <2>1. ASSUME NEW K \in Knots[graph] PROVE ProgressInv(K)'
    <3>1. Lasts(K)
      BY <1>0 DEF Lasts, Settled
    <3>2. \A q \in DOMAIN ps' : Progress(K, q)'
      BY <1>0, <1>3, <3>1, OthersProgress DEF ResultInv
    <3> QED BY <3>2 DEF ProgressInv
  <2> QED BY <2>1
<1>5. Closed' /\ FailInv' /\ CyclesFail' /\ \A q \in DOMAIN ps' : Through(ps'[q])
  BY <1>0, <1>2, <1>3 DEF ResultInv, Closed, FailInv, CyclesFail
<1> QED BY <1>1, <1>2, <1>4, <1>5 DEF ResultInv

LEMMA ResultInit ==
    ASSUME Init
    PROVE  ResultInv /\ \A S : ProgressInv(S)
<1>1. TreeInv
  BY TreeInit
<1>2. PICK k \in Proc : ps = [p \in {Top} |-> k] /\ k.job = "top" /\ k.todo = Roots /\ k.pc = "next" /\ k.rc = 0
  <2>1. graph \in DOMAIN Graphs
    BY DEF Init
  <2>2. PICK c \in TopCommands : ps = [p \in {Top} |-> Job("top", None, c, Roots, {})]
    BY DEF Init
  <2>3. c \in {"ifchange", "redo", "unlocked", "spawn"} /\ Roots \in Seq(Target)
    BY <2>1, GraphTypes DEF TopCommands
  <2>4. PICK k \in Proc : k = Job("top", None, c, Roots, {})
    BY <2>3, FreshJob
  <2> QED BY <2>2, <2>3, <2>4, FreshJob
<1>3. DOMAIN ps = {Top} /\ ps[Top] = k
  BY <1>2
<1>4. Closed
  <2>1. ASSUME NEW p \in Seq(Target), IsPrefix(p, Top) PROVE p = Top
    <3>1. Len(p) <= Len(Top) /\ Len(Top) = 0 /\ Len(p) \in Nat
      BY <2>1 DEF IsPrefix, Top
    <3>2. Len(p) = 0 => p = <<>>
      BY EmptySeq
    <3> QED BY <3>1, <3>2 DEF Top
  <2> QED BY <1>3, <2>1 DEF Closed
<1>5. FailInv /\ CyclesFail
  <2>1. \A t \in Target : st[t] = "dirty"
    BY DEF Init
  <2>2. \A K \in Knots[graph] : K \subseteq Target
    BY DEF Init, Knots
  <2> QED BY <2>1, <2>2 DEF FailInv, CyclesFail
<1>6. \A p \in DOMAIN ps : Through(ps[p])
  BY <1>2, <1>3 DEF Through
<1>7. ASSUME NEW K PROVE ProgressInv(K)
  <2>1. Duty(k) = Range(k.todo) /\ ~Waits(k, Jobs(Top))
    BY <1>2 DEF Duty, Waits
  <2>2. \A d \in Duty(k) : Pending(k, Jobs(Top), d)
    BY <1>2, <2>1 DEF Pending
  <2> QED BY <1>3, <2>1, <2>2 DEF ProgressInv, Progress
<1> QED BY <1>1, <1>4, <1>5, <1>6, <1>7 DEF ResultInv

(* The invariant holds throughout: whatever a command is there for is      *)
(* still before it, settled, or accounted for by a failure it has seen.    *)
THEOREM ResultsCorrect == Spec => []ResultInv
<1>1. ResultInv /\ [Next]_<<vars, graph>> => ResultInv'
  <2>1. SUFFICES ASSUME ResultInv, [Next]_<<vars, graph>> PROVE ResultInv'
    OBVIOUS
  <2>2. CASE UNCHANGED <<vars, graph>>
    BY <2>1, <2>2, ResultStutter
  <2>3. CASE Next
    <3>1. ASSUME NEW p \in DOMAIN ps, Step(p), graph' = graph PROVE ResultInv'
      BY <2>1, <3>1, ResultStep
    <3> QED BY <2>2, <2>3, <3>1 DEF Next
  <2> QED BY <2>1, <2>2, <2>3
<1> QED BY <1>1, ResultInit, PTL DEF Spec

(* No target of a dependency cycle is ever recorded as built, on any graph *)
(* and under any interleaving, whichever process meets the cycle and       *)
(* however its failure travels up (run_ifchange, build_one, redo-unlocked).*)
THEOREM CyclesNeverBuild == Spec => []CyclesFail
<1>1. ResultInv => CyclesFail
  BY DEF ResultInv
<1> QED BY <1>1, ResultsCorrect, PTL

(* When the toplevel command has reported success, no process is left and  *)
(* no target has failed, so that what it was asked for is built.           *)
LEMMA SuccessFollows == ResultInv => SuccessMeansBuilt
<1>0. SUFFICES ASSUME ResultInv, ~Live(Top), ps[Top].rc = 0, NEW t \in Range(Roots) PROVE st[t] = "ok"
  BY DEF SuccessMeansBuilt
<1>1. /\ TreeInv /\ Tree /\ Closed /\ FailInv /\ Top \in DOMAIN ps /\ ps[Top].job = "top"
      /\ graph \in DOMAIN Graphs /\ Range(Roots) \subseteq Target
  <2>1. TreeInv /\ Tree /\ Closed /\ FailInv /\ Top \in DOMAIN ps /\ ps[Top].job = "top"
        /\ graph \in DOMAIN Graphs
    BY <1>0 DEF ResultInv, TreeInv, Tree, Shared
  <2>2. Roots \in Seq(Target)
    BY <2>1, GraphTypes
  <2> QED BY <2>1, <2>2, ListFacts
<1>2. ps[Top].pc = "exited" /\ Fits(ps[Top], Jobs(Top))
  BY <1>0, <1>1, ProcFacts DEF Live
<1>3. Jobs(Top) = {}
  BY <1>0, <1>2 DEF Fits
<1>4. \A q \in DOMAIN ps : q = Top
  <2>1. ASSUME NEW q \in DOMAIN ps, q # Top PROVE FALSE
    <3>1. q \in Seq(Target) /\ Top \in Seq(Target)
      BY <1>1, ProcFacts
    <3>2. Len(Top) = 0 /\ Len(q) \in Nat
      BY <3>1 DEF Top
    <3>3. IsPrefix(Top, q)
      <4>1. Len(Top) <= Len(q) /\ \A i \in 1..Len(Top) : Top[i] = q[i]
        BY <3>2
      <4> QED BY <3>1, <4>1, PrefixFacts
    <3> QED BY <1>1, <1>3, <2>1, <3>3, DescendantJob
  <2> QED BY <2>1
<1>5. st[t] # "failed"
  BY <1>0, <1>1, <1>2, <1>4 DEF FailInv, Bad, Waits
<1>6. Settled({}, t)
  <2>1. {} \in Knots[graph]
    BY <1>1 DEF Knots
  <2>2. Progress({}, Top)
    BY <1>0, <1>1, <2>1 DEF ResultInv, ProgressInv
  <2>3. Duty(ps[Top]) = Range(Roots)
    BY <1>1 DEF Duty
  <2> QED BY <1>0, <1>2, <2>2, <2>3 DEF Progress, Pending
<1> QED BY <1>5, <1>6 DEF Settled

(* An exit status 0 of redo is to be believed, under --keep-going and -j   *)
(* too: no failure of a job, of a lock holder elsewhere or of a command    *)
(* that returned early is lost on its way up.                              *)
THEOREM SuccessIsReal == Spec => []SuccessMeansBuilt
BY SuccessFollows, ResultsCorrect, PTL

-----------------------------------------------------------------------------
(* The tokens.  A command in state r with jobs for J has one or none; it   *)
(* has one when it ends, when build_one starts and returns, and whenever   *)
(* run_ifchange has nothing to wait for.  The toplevel command alone may   *)
(* have none then: it puts its own into the pipe to count them.            *)
Needs(p, r, J) ==
    /\ p # Top
    /\ \/ r.pc \in {"end", "exited"}
       \/ r.cmd \in {"redo", "unlocked"} /\ (r.pc \in {"next", "own"} \/ (r.pc = "waitall" /\ J = {}))
       \/ /\ r.cmd = "ifchange" /\ r.pc \in {"next", "loop"}
          /\ J = {} /\ r.locked = <<>> /\ r.blocked = <<>>
Hold(p, r, J) == r.my \in {0, 1} /\ (Needs(p, r, J) => r.my = 1)

Holders == {p \in DOMAIN ps : ps[p].my = 1}

(* No token is made: those in the pipe and those in the processes' hands   *)
(* are MaxJobs at most.  (An early return loses some.)                     *)
TokenInv ==
    /\ IsFiniteSet(DOMAIN ps) /\ pipe \in Nat
    /\ \A p \in DOMAIN ps : Hold(p, ps[p], Jobs(p))
    /\ pipe + Cardinality(Holders) <= MaxJobs

(* The steps of p that may change who holds a token. *)
PassedAlone(p) ==
    \E r \in Proc :
       /\ Put(p, r) /\ Hold(p, r, Jobs(p))
       /\ pipe' \in Nat /\ pipe' + r.my <= pipe + ps[p].my
PassedForking(p) ==
    \E r \in Proc, k \in Proc, t \in Target :
       /\ t \notin Jobs(p) /\ Forked(p, r, t, k) /\ pipe' = pipe
       /\ ps[p].my = 1 /\ r.my = 0 /\ k.my = 1
       /\ Hold(p, r, Jobs(p) \cup {t})

LEMMA HoldersCount ==
    ASSUME TokenInv
    PROVE  IsFiniteSet(Holders) /\ Cardinality(Holders) \in Nat
BY FS_Subset, FS_CardinalityType DEF TokenInv, Holders

LEMMA PassedAloneStep ==
    ASSUME TreeInv, TokenInv, graph' = graph, NEW p \in DOMAIN ps, PassedAlone(p)
    PROVE  TokenInv'
<1>1. PICK r \in Proc : /\ Put(p, r) /\ Hold(p, r, Jobs(p))
                        /\ pipe' \in Nat /\ pipe' + r.my <= pipe + ps[p].my
  BY DEF PassedAlone
<1>2. /\ DOMAIN ps' = DOMAIN ps /\ ps'[p] = r /\ MaxJobs' = MaxJobs
      /\ \A q \in DOMAIN ps : q # p => ps'[q] = ps[q]
      /\ \A q \in DOMAIN ps : Jobs(q)' = Jobs(q)
  BY <1>1, AloneShape DEF MaxJobs
<1>3. \A q \in DOMAIN ps' : Hold(q, ps[q], Jobs(q))'
  BY <1>1, <1>2 DEF TokenInv, Hold
<1>4. /\ IsFiniteSet(Holders) /\ Cardinality(Holders) \in Nat /\ pipe \in Nat
      /\ ps[p].my \in {0, 1} /\ r.my \in {0, 1}
      /\ pipe + Cardinality(Holders) <= MaxJobs
  BY <1>1, HoldersCount DEF TokenInv, Hold
<1>5. PICK a \in {0, 1}, b \in {0, 1} : a = r.my /\ b = ps[p].my /\ pipe' + a <= pipe + b
  BY <1>1, <1>4
<1>6. MaxJobs \in Int /\ pipe' \in Nat
  BY <1>1, SchedulerAssumption DEF MaxJobs, TreeInv, Shared
<1>7. Cardinality(Holders') = Cardinality(Holders) + a - b
  <2>1. CASE a = b
    <3>1. Holders' = Holders
      <4>1. ps'[p].my = ps[p].my
        BY <1>2, <1>5, <2>1
      <4> QED BY <1>2, <4>1 DEF Holders
    <3> QED BY <1>4, <2>1, <3>1
  <2>2. CASE a = 1 /\ b = 0
    <3>1. Holders' = Holders \cup {p} /\ p \notin Holders
      <4>1. ps'[p].my = 1 /\ ps[p].my # 1 /\ p \in DOMAIN ps
        BY <1>2, <1>5, <2>2
      <4> QED BY <1>2, <4>1 DEF Holders
    <3>2. Cardinality(Holders') = Cardinality(Holders) + 1
      BY <1>4, <3>1, FS_AddElement
    <3> QED BY <1>4, <2>2, <3>2
  <2>3. CASE a = 0 /\ b = 1
    <3>1. Holders' = Holders \ {p} /\ p \in Holders
      <4>1. ps'[p].my # 1 /\ ps[p].my = 1 /\ p \in DOMAIN ps
        BY <1>2, <1>5, <2>3
      <4> QED BY <1>2, <4>1 DEF Holders
    <3>2. Cardinality(Holders') = Cardinality(Holders) - 1
      BY <1>4, <3>1, FS_RemoveElement
    <3> QED BY <1>4, <2>3, <3>2
  <2> QED BY <2>1, <2>2, <2>3
<1>8. pipe' + Cardinality(Holders') <= MaxJobs
  <2>1. PICK m \in Int, n \in Nat, h \in Nat : m = MaxJobs /\ n = pipe' /\ h = Cardinality(Holders)
    BY <1>4, <1>6
  <2>2. pipe \in Nat /\ n + a <= pipe + b /\ pipe + h <= m
    BY <1>4, <1>5, <2>1
  <2>3. n + (h + a - b) <= m
    BY <2>2
  <2> QED BY <1>7, <2>1, <2>3
<1> QED BY <1>2, <1>3, <1>6, <1>8 DEF TokenInv

LEMMA PassedForkingStep ==
    ASSUME TreeInv, TreeInv', TokenInv, graph' = graph, NEW p \in DOMAIN ps, PassedForking(p)
    PROVE  TokenInv'
<1>1. PICK r \in Proc, k \in Proc, t \in Target :
         /\ t \notin Jobs(p) /\ Forked(p, r, t, k) /\ pipe' = pipe
         /\ ps[p].my = 1 /\ r.my = 0 /\ k.my = 1
         /\ Hold(p, r, Jobs(p) \cup {t})
  BY DEF PassedForking
<1>2. PICK c : c = Append(p, t)
  OBVIOUS
<1>3. /\ \A q \in DOMAIN ps : q # p => Jobs(q)' = Jobs(q)
      /\ Jobs(p)' = Jobs(p) \cup {t} /\ Jobs(c)' = {}
  BY <1>1, <1>2, ForkShape
<1>4. c \notin DOMAIN ps /\ c # p
  BY <1>1, <1>2, ProcFacts DEF Jobs
<1>5. /\ DOMAIN ps' = DOMAIN ps \cup {c} /\ ps'[c] = k /\ ps'[p] = r /\ MaxJobs' = MaxJobs
      /\ \A q \in DOMAIN ps : q # p => ps'[q] = ps[q]
  BY <1>1, <1>2, <1>4 DEF Forked, MaxJobs
<1>6. Hold(c, k, {})
  BY <1>1 DEF Hold
<1>7. \A q \in DOMAIN ps' : Hold(q, ps[q], Jobs(q))'
  BY <1>1, <1>3, <1>5, <1>6 DEF TokenInv, Hold
<1>8. /\ IsFiniteSet(Holders) /\ Cardinality(Holders) \in Nat /\ pipe \in Nat
      /\ pipe + Cardinality(Holders) <= MaxJobs
  BY HoldersCount DEF TokenInv
<1>9. Holders' = (Holders \ {p}) \cup {c} /\ p \in Holders /\ c \notin Holders \ {p}
  BY <1>1, <1>4, <1>5 DEF Holders
<1>10. IsFiniteSet(Holders \ {p}) /\ Cardinality(Holders \ {p}) = Cardinality(Holders) - 1
  BY <1>8, <1>9, FS_RemoveElement
<1>11. Cardinality(Holders') = Cardinality(Holders)
  <2>1. Cardinality(Holders') = Cardinality(Holders \ {p}) + 1
    BY <1>9, <1>10, FS_AddElement
  <2> QED BY <1>8, <1>10, <2>1
<1>12. IsFiniteSet(DOMAIN ps')
  BY <1>5, FS_AddElement DEF TokenInv
<1> QED BY <1>1, <1>5, <1>7, <1>8, <1>11, <1>12 DEF TokenInv

(* A step that leaves p its token, or its want of one. *)
LEMMA SameToken ==
    ASSUME TokenInv, NEW p \in DOMAIN ps, NEW r \in Proc, Put(p, r), pipe' = pipe, r.my = ps[p].my,
           Needs(p, r, Jobs(p)) => r.my = 1
    PROVE  PassedAlone(p)
BY DEF PassedAlone, TokenInv, Hold

(* release_mine *)
LEMMA GivenBack ==
    ASSUME TokenInv, NEW p \in DOMAIN ps, NEW b \in Proc, PutReleasing(p, b), b.my = 1, ps[p].my = 1,
           ~Needs(p, b, Jobs(p))
    PROVE  PassedAlone(p)
<1>1. PICK r : r = [b EXCEPT !.my = @ - 1]
  OBVIOUS
<1>2. /\ r \in Proc /\ r.cmd = b.cmd /\ r.pc = b.pc /\ r.locked = b.locked /\ r.blocked = b.blocked
      /\ r.my = 0
  <2>1. r \in Proc /\ r.cmd = b.cmd /\ r.pc = b.pc /\ r.locked = b.locked /\ r.blocked = b.blocked
    BY <1>1, TokenOnly
  <2>2. r.my = b.my - 1
    BY <1>1 DEF Proc
  <2> QED BY <2>1, <2>2
<1>3. Hold(p, r, Jobs(p))
  BY <1>2 DEF Hold, Needs
<1>4. Put(p, r) /\ pipe' = pipe + 1 /\ pipe \in Nat
  BY <1>1 DEF PutReleasing, TokenInv
<1> QED BY <1>2, <1>3, <1>4 DEF PassedAlone

LEMMA OneLess ==
    ASSUME NEW b \in Proc, NEW r, r = [b EXCEPT !.my = @ - 1], b.my = 1
    PROVE  r \in Proc /\ r.cmd = b.cmd /\ r.pc = b.pc /\ r.my = 0
<1>1. r \in Proc /\ r.cmd = b.cmd /\ r.pc = b.pc
  BY TokenOnly
<1>2. r.my = b.my - 1
  BY DEF Proc
<1> QED BY <1>1, <1>2

(* jobserver::start *)
LEMMA HandedOn ==
    ASSUME NEW p \in DOMAIN ps, NEW b \in Proc, NEW k \in Proc, NEW t \in Target, t \notin Jobs(p),
           Fork(p, b, t, k), pipe' = pipe, b.my = 1, ps[p].my = 1, k.my = 1,
           b.pc \in {"next", "loop", "waitall"}, b.pc = "next" => b.cmd \in {"ifchange", "spawn"}
    PROVE  PassedForking(p)
<1>1. PICK r : r = [b EXCEPT !.my = @ - 1]
  OBVIOUS
<1>2. /\ r \in Proc /\ r.cmd = b.cmd /\ r.pc = b.pc /\ r.my = 0
  BY <1>1, OneLess
<1>3. Hold(p, r, Jobs(p) \cup {t})
  BY <1>2 DEF Hold, Needs
<1>4. Forked(p, r, t, k)
  BY <1>1 DEF Fork, Forked
<1> QED BY <1>2, <1>3, <1>4 DEF PassedForking

(* p exits, with a token or as the toplevel command. *)
LEMMA ExitToken ==
    ASSUME TreeInv, TokenInv, NEW p \in DOMAIN ps, NEW code \in {0, 1}, Exit(p, code),
           pipe' \in Nat /\ pipe' <= pipe, p = Top \/ ps[p].my = 1
    PROVE  PassedAlone(p)
<1>1. ps[p] \in Proc /\ ps[p].my \in {0, 1} /\ pipe \in Nat
  BY ProcFacts DEF TokenInv, Hold
<1>2. PICK r \in Proc : r = [ps[p] EXCEPT !.pc = "exited", !.rc = code]
  <2>1. code \in 0..2
    OBVIOUS
  <2> QED BY <1>1, <2>1 DEF Proc
<1>3. r.my = ps[p].my
  BY <1>1, <1>2 DEF Proc
<1>4. Put(p, r) /\ Hold(p, r, Jobs(p))
  BY <1>1, <1>2, <1>3 DEF Exit, Put, Hold, Needs
<1> QED BY <1>1, <1>3, <1>4 DEF PassedAlone

LEMMA ExitTokens ==
    ASSUME TreeInv, TokenInv, NEW p \in DOMAIN ps, CycleFound(p) \/ SelfCheckFails(p) \/ CommandEnd(p)
    PROVE  PassedAlone(p)
<1>1. ps[p].my \in {0, 1} /\ pipe \in Nat /\ (Needs(p, ps[p], Jobs(p)) => ps[p].my = 1)
  BY DEF TokenInv, Hold
<1>2. CASE CycleFound(p)
  BY <1>1, <1>2, ExitToken DEF CycleFound
<1>3. CASE SelfCheckFails(p)
  <2>1. p = Top
    BY <1>3 DEF SelfCheckFails, AllTokens
  <2> QED BY <1>1, <1>3, <2>1, ExitToken DEF SelfCheckFails
<1>4. CASE CommandEnd(p)
  <2>1. PICK code \in {0, 1} : Exit(p, code)
    BY <1>4 DEF CommandEnd
  <2>2. p = Top \/ ps[p].my = 1
    BY <1>1, <1>4 DEF CommandEnd, Needs
  <2>3. pipe' = pipe
    BY <1>4 DEF CommandEnd
  <2> QED BY <1>1, <2>1, <2>2, <2>3, ExitToken
<1> QED BY <1>2, <1>3, <1>4

LEMMA HandleToken ==
    ASSUME TreeInv, TokenInv, NEW p \in DOMAIN ps, Live(p), NEW r \in Proc, NEW t \in Target,
           ps[p].cmd = "ifchange", owner[t] = None, ps[p].my = 1, r.my = 1,
           r.cmd = "ifchange", r.pc \in {"next", "loop"}, Handle(p, r, t)
    PROVE  PassedAlone(p) \/ PassedForking(p)
<1>0. /\ LocksOK(p) /\ Shared /\ ps[p].pc # "exited" /\ p # None /\ r.cyc \subseteq Target
      /\ graph \in DOMAIN Graphs
  BY ProcFacts DEF Live, Shared, Proc
<1>1. t \notin Jobs(p)
  BY <1>0 DEF LocksOK, Owns
<1>2. CASE Put(p, r) /\ pipe' = pipe
  BY <1>2, SameToken
<1>3. CASE PutReleasing(p, [r EXCEPT !.blocked = Append(@, t)])
  <2>1. Append(r.blocked, t) \in Seq(Target) /\ Append(r.blocked, t) # <<>>
    BY AppendFacts DEF Proc, Top
  <2>2. PICK b \in Proc : b = [r EXCEPT !.blocked = Append(@, t)]
    BY <2>1 DEF Proc
  <2>3. b.my = 1 /\ b.cmd = "ifchange" /\ b.pc = r.pc /\ b.blocked # <<>>
    BY <2>1, <2>2 DEF Proc
  <2>4. ~Needs(p, b, Jobs(p))
    BY <2>3 DEF Needs
  <2> QED BY <1>3, <2>2, <2>3, <2>4, GivenBack
<1>4. CASE Fork(p, r, t, DoJob(t, r.cyc)) /\ pipe' = pipe
  <2>1. PICK k \in Proc : k = DoJob(t, r.cyc)
    BY <1>0, DoJobFacts
  <2>2. k.my = 1
    BY <2>1 DEF DoJob, Job
  <2> QED BY <1>1, <1>4, <2>1, <2>2, HandedOn
<1>5. CASE Fork(p, r, t, OobJob(t, DirtyOob(t), r.cyc)) /\ pipe' = pipe
  <2>0. DirtyOob(t) \in SUBSET Target
    <3>1. OobDeps[t] \in {{}, Range(Args[t])} /\ Args[t] \in Seq(Target)
      BY <1>0, GraphTypes
    <3> QED BY <3>1, ListFacts DEF DirtyOob
  <2>1. PICK k \in Proc : k = OobJob(t, DirtyOob(t), r.cyc)
    BY <1>0, <2>0, OobJobFacts
  <2>2. k.my = 1
    BY <2>1 DEF OobJob, Job
  <2> QED BY <1>1, <1>5, <2>1, <2>2, HandedOn
<1> QED BY <1>2, <1>3, <1>4, <1>5 DEF Handle

(* What a process with a token, or without, looks like. *)
LEMMA TokenFacts ==
    ASSUME TreeInv, TokenInv, NEW p \in DOMAIN ps
    PROVE  /\ ps[p] \in Proc /\ Shape(ps[p]) /\ Fits(ps[p], Jobs(p))
           /\ ps[p].my \in {0, 1} /\ (Needs(p, ps[p], Jobs(p)) => ps[p].my = 1)
           /\ ps[p].todo \in Seq(Target) /\ ps[p].locked \in Seq(Target) /\ ps[p].blocked \in Seq(Target)
           /\ pipe \in Nat /\ (Kids(p) = {} <=> Jobs(p) = {})
BY ProcFacts, KidsAre DEF TokenInv, Hold, Proc

LEMMA FirstPassToken ==
    ASSUME TreeInv, TokenInv, NEW p \in DOMAIN ps, Live(p), FirstPass(p)
    PROVE  PassedAlone(p) \/ PassedForking(p)
<1>0. /\ ps[p] \in Proc /\ ps[p].my = 1 /\ ps[p].cmd = "ifchange" /\ ps[p].pc = "next"
      /\ ps[p].todo # <<>> /\ ps[p].todo \in Seq(Target) /\ ps[p].locked \in Seq(Target)
  BY TokenFacts DEF FirstPass
<1>1. PICK t \in Target, l \in Seq(Target) : t = Head(ps[p].todo) /\ l = Tail(ps[p].todo)
  BY <1>0, ListFacts
<1>2. PICK r \in Proc : r = [ps[p] EXCEPT !.todo = l]
  BY <1>0 DEF Proc
<1>3. r.my = 1 /\ r.cmd = "ifchange" /\ r.pc = "next" /\ r.locked = ps[p].locked
  BY <1>0, <1>2 DEF Proc
<1>4. CASE owner[t] = None /\ Handle(p, r, t)
  BY <1>0, <1>3, <1>4, HandleToken
<1>5. CASE Put(p, [r EXCEPT !.locked = Append(@, t)]) /\ pipe' = pipe
  <2>1. Append(r.locked, t) \in Seq(Target)
    BY <1>0, <1>3
  <2>2. PICK b \in Proc : b = [r EXCEPT !.locked = Append(@, t)]
    BY <2>1 DEF Proc
  <2>3. b.my = 1
    BY <1>3, <2>2 DEF Proc
  <2> QED BY <1>0, <1>5, <2>2, <2>3, SameToken
<1> QED BY <1>1, <1>2, <1>4, <1>5 DEF FirstPass

LEMMA LoopHeadToken ==
    ASSUME TreeInv, TokenInv, NEW p \in DOMAIN ps, LoopHead(p)
    PROVE  PassedAlone(p)
<1>0. /\ ps[p] \in Proc /\ ps[p].my \in {0, 1} /\ (Needs(p, ps[p], Jobs(p)) => ps[p].my = 1)
      /\ ps[p].locked \in Seq(Target) /\ ps[p].blocked \in Seq(Target) /\ pipe' = pipe
      /\ ps[p].cmd = "ifchange" /\ ps[p].pc \in {"next", "loop"} /\ (Kids(p) = {} <=> Jobs(p) = {})
  BY TokenFacts DEF LoopHead
<1>1. PICK pc \in {"end", "waitall"} :
         pc = IF ps[p].locked \o ps[p].blocked = <<>> /\ Kids(p) = {} THEN "end" ELSE "waitall"
  OBVIOUS
<1>2. PICK r \in Proc : r = [ps[p] EXCEPT !.todo = <<>>, !.pc = pc]
  <2>1. <<>> \in Seq(Target)
    OBVIOUS
  <2> QED BY <1>0, <2>1 DEF Proc
<1>3. r.my = ps[p].my /\ r.cmd = "ifchange" /\ r.pc = pc
  BY <1>0, <1>2 DEF Proc
<1>4. pc = "end" => ps[p].locked = <<>> /\ ps[p].blocked = <<>> /\ Jobs(p) = {}
  <2>1. ps[p].locked \o ps[p].blocked = <<>> => ps[p].locked = <<>> /\ ps[p].blocked = <<>>
    BY <1>0, NoneLeft
  <2> QED BY <1>0, <1>1, <2>1
<1>5. Needs(p, r, Jobs(p)) => r.my = 1
  BY <1>0, <1>3, <1>4 DEF Needs
<1>6. Put(p, r)
  BY <1>1, <1>2 DEF LoopHead
<1> QED BY <1>0, <1>3, <1>5, <1>6, SameToken

LEMMA CheckedToken ==
    ASSUME TreeInv, TokenInv, NEW p \in DOMAIN ps, Live(p), NEW r \in Proc, NEW t \in Target,
           ps[p].cmd = "ifchange", owner[t] = None, ps[p].my = 1, r.my = 1,
           r.cmd = "ifchange", r.pc = "loop", Checked(p, r, t)
    PROVE  PassedAlone(p) \/ PassedForking(p)
<1>1. CASE Handle(p, r, t)
  BY <1>1, HandleToken
<1>2. CASE Put(p, [r EXCEPT !.rc = 2]) /\ pipe' = pipe
  <2>1. PICK b \in Proc : b = [r EXCEPT !.rc = 2]
    <3>1. 2 \in 0..2
      OBVIOUS
    <3> QED BY <3>1 DEF Proc
  <2>2. b.my = 1
    BY <2>1 DEF Proc
  <2> QED BY <1>2, <2>1, <2>2, SameToken
<1> QED BY <1>1, <1>2 DEF Checked

LEMMA LockWaitToken ==
    ASSUME TokenInv, NEW p \in DOMAIN ps, NEW r \in Proc, NEW t \in Target, ps[p].my = 1, r.my = 1,
           r.cmd = "ifchange", LockWait(p, r, t)
    PROVE  PassedAlone(p)
<1>1. PICK b \in Proc : b = [r EXCEPT !.pc = "lockwait", !.cur = t]
  BY DEF Proc
<1>2. b.my = 1 /\ b.cmd = "ifchange" /\ b.pc = "lockwait"
  BY <1>1 DEF Proc
<1>3. ~Needs(p, b, Jobs(p))
  BY <1>2 DEF Needs
<1> QED BY <1>1, <1>2, <1>3, GivenBack DEF LockWait

LEMMA SecondPassToken ==
    ASSUME TreeInv, TokenInv, NEW p \in DOMAIN ps, Live(p),
           SecondPassLocked(p) \/ SecondPassBlocked(p) \/ SecondPassEnd(p)
    PROVE  PassedAlone(p) \/ PassedForking(p)
<1>0. /\ ps[p] \in Proc /\ ps[p].my = 1 /\ ps[p].cmd = "ifchange" /\ ps[p].pc = "self"
      /\ ps[p].locked \in Seq(Target) /\ ps[p].blocked \in Seq(Target)
  BY TokenFacts DEF SecondPassLocked, SecondPassBlocked, SecondPassEnd, Shape
<1>1. CASE SecondPassLocked(p)
  <2>1. PICK t \in Target, l \in Seq(Target) : t = Head(ps[p].locked) /\ l = Tail(ps[p].locked)
    BY <1>0, <1>1, ListFacts DEF SecondPassLocked
  <2>2. PICK r \in Proc : r = [ps[p] EXCEPT !.locked = l, !.pc = "loop"]
    BY <1>0 DEF Proc
  <2>3. r.my = 1 /\ r.cmd = "ifchange" /\ r.pc = "loop"
    BY <1>0, <2>2 DEF Proc
  <2>4. (owner[t] = None /\ Checked(p, r, t)) \/ LockWait(p, r, t)
    BY <1>1, <2>1, <2>2 DEF SecondPassLocked
  <2> QED BY <1>0, <2>3, <2>4, CheckedToken, LockWaitToken
<1>2. CASE SecondPassBlocked(p)
  <2>1. PICK t \in Target, l \in Seq(Target) : t = Head(ps[p].blocked) /\ l = Tail(ps[p].blocked)
    BY <1>0, <1>2, ListFacts DEF SecondPassBlocked
  <2>2. PICK r \in Proc : r = [ps[p] EXCEPT !.blocked = l, !.pc = "loop"]
    BY <1>0 DEF Proc
  <2>3. r.my = 1 /\ r.cmd = "ifchange" /\ r.pc = "loop" /\ r.locked = ps[p].locked
    BY <1>0, <2>2 DEF Proc
  <2>4. CASE owner[t] = None /\ Checked(p, r, t)
    BY <1>0, <2>3, <2>4, CheckedToken
  <2>5. CASE Put(p, [r EXCEPT !.locked = Append(@, t)]) /\ pipe' = pipe
    <3>1. Append(r.locked, t) \in Seq(Target)
      BY <1>0, <2>3
    <3>2. PICK b \in Proc : b = [r EXCEPT !.locked = Append(@, t)]
      BY <3>1 DEF Proc
    <3>3. b.my = 1
      BY <2>3, <3>2 DEF Proc
    <3> QED BY <1>0, <2>5, <3>2, <3>3, SameToken
  <2> QED BY <1>2, <2>1, <2>2, <2>4, <2>5 DEF SecondPassBlocked
<1>3. CASE SecondPassEnd(p)
  <2>1. PICK r \in Proc : r = [ps[p] EXCEPT !.pc = "end"]
    BY <1>0 DEF Proc
  <2>2. r.my = 1
    BY <1>0, <2>1 DEF Proc
  <2> QED BY <1>0, <1>3, <2>1, <2>2, SameToken DEF SecondPassEnd
<1> QED BY <1>1, <1>2, <1>3

LEMMA WaitedLockToken ==
    ASSUME TreeInv, TokenInv, NEW p \in DOMAIN ps, Live(p), LockWaitDone(p) \/ GiveUpLock(p) \/ Relock(p)
    PROVE  PassedAlone(p) \/ PassedForking(p)
<1>0. /\ ps[p] \in Proc /\ ps[p].my \in {0, 1} /\ ps[p].cmd = "ifchange" /\ ps[p].cur \in Target
  BY TokenFacts DEF LockWaitDone, GiveUpLock, Relock, Shape
<1>1. CASE LockWaitDone(p) \/ GiveUpLock(p)
  <2>1. PICK pc \in {"gotlock", "relock"} : Put(p, [ps[p] EXCEPT !.pc = pc]) /\ pipe' = pipe
    BY <1>1 DEF LockWaitDone, GiveUpLock
  <2>2. PICK r \in Proc : r = [ps[p] EXCEPT !.pc = pc]
    BY <1>0 DEF Proc
  <2>3. r.my = ps[p].my /\ r.pc = pc /\ r.cmd = "ifchange"
    BY <1>0, <2>2 DEF Proc
  <2>4. ~Needs(p, r, Jobs(p))
    BY <2>3 DEF Needs
  <2> QED BY <2>1, <2>2, <2>3, <2>4, SameToken
<1>2. CASE Relock(p)
  <2>1. PICK t \in Target : t = ps[p].cur
    BY <1>0
  <2>2. PICK r \in Proc : r = [ps[p] EXCEPT !.pc = "loop", !.cur = None]
    BY <1>0 DEF Proc
  <2>3. r.my = ps[p].my /\ r.cmd = "ifchange" /\ r.pc = "loop"
    BY <1>0, <2>2 DEF Proc
  <2>4. ps[p].my = 1 /\ ((owner[t] = None /\ Checked(p, r, t)) \/ LockWait(p, r, t))
    BY <1>0, <1>2, <2>1, <2>2 DEF Relock
  <2> QED BY <1>0, <2>3, <2>4, CheckedToken, LockWaitToken
<1> QED BY <1>1, <1>2

LEMMA BuildLockToken ==
    ASSUME TreeInv, TokenInv, NEW p \in DOMAIN ps, BuildLock(p) \/ BuildUnlocked(p)
    PROVE  PassedAlone(p)
<1>0. /\ ps[p] \in Proc /\ ps[p].my \in {0, 1} /\ (Needs(p, ps[p], Jobs(p)) => ps[p].my = 1)
      /\ ps[p].cmd \in {"redo", "unlocked"} /\ ps[p].pc = "next" /\ pipe' = pipe
      /\ ps[p].todo \in Seq(Target) /\ ps[p].todo # <<>>
  BY TokenFacts DEF BuildLock, BuildUnlocked
<1>1. PICK l \in Seq(Target) : l = Tail(ps[p].todo)
  BY <1>0, ListFacts
<1>2. p = Top \/ ps[p].my = 1
  BY <1>0 DEF Needs
<1>3. PICK r \in Proc : Put(p, r) /\ r.my = ps[p].my
  <2>1. CASE Put(p, [ps[p] EXCEPT !.pc = "own"])
    <3>1. PICK r \in Proc : r = [ps[p] EXCEPT !.pc = "own"]
      BY <1>0 DEF Proc
    <3>2. r.my = ps[p].my
      BY <1>0, <3>1 DEF Proc
    <3> QED BY <2>1, <3>1, <3>2
  <2>2. CASE Put(p, [ps[p] EXCEPT !.todo = Tail(@)])
    <3>1. PICK r \in Proc : r = [ps[p] EXCEPT !.todo = l]
      BY <1>0 DEF Proc
    <3>2. r.my = ps[p].my
      BY <1>0, <3>1 DEF Proc
    <3> QED BY <1>1, <2>2, <3>1, <3>2
  <2>3. CASE Put(p, [ps[p] EXCEPT !.todo = Tail(@), !.rc = 1])
    <3>1. PICK r \in Proc : r = [ps[p] EXCEPT !.todo = l, !.rc = 1]
      <4>1. 1 \in 0..2
        OBVIOUS
      <4> QED BY <1>0, <4>1 DEF Proc
    <3>2. r.my = ps[p].my
      BY <1>0, <3>1 DEF Proc
    <3> QED BY <1>1, <2>3, <3>1, <3>2
  <2> QED BY <2>1, <2>2, <2>3 DEF BuildLock, BuildUnlocked
<1>4. Needs(p, r, Jobs(p)) => r.my = 1
  BY <1>2, <1>3 DEF Needs
<1> QED BY <1>0, <1>3, <1>4, SameToken

(* The toplevel command never meets a full pool: nobody else is running. *)
LEMMA TopFindsSlot ==
    ASSUME TreeInv, Closed, ps[Top].pc = "own", NEW t
    PROVE  SlotFree(t)
<1>0. /\ Top \in DOMAIN ps /\ Tree /\ Shared /\ Fits(ps[Top], Jobs(Top)) /\ SlotsOK(Top)
  BY ProcFacts DEF TreeInv, Tree
<1>1. Jobs(Top) = {}
  BY <1>0 DEF Fits, Quiet
<1>2. ASSUME NEW q \in DOMAIN ps PROVE q = Top
  <2>1. q \in Seq(Target) /\ Top \in Seq(Target)
    BY <1>0 DEF Tree
  <2>2. IsPrefix(Top, q)
    <3>1. PICK o \in Seq(Target) : o = Top
      BY <2>1
    <3>2. Len(o) = 0 /\ Len(q) \in Nat
      BY <2>1, <3>1 DEF Top
    <3>3. Len(o) <= Len(q) /\ \A i \in 1..Len(o) : o[i] = q[i]
      BY <3>2
    <3>4. IsPrefix(o, q)
      BY <2>1, <3>3, PrefixFacts
    <3> QED BY <3>1, <3>4
  <2> QED BY <1>0, <1>1, <2>2, DescendantJob
<1>3. slot = {}
  <2>1. \A u \in Pooled : <<Top, u>> \notin slot
    BY <1>0, <1>1 DEF SlotsOK, Uses, Scripts
  <2>2. slot \subseteq (DOMAIN ps) \X Pooled
    BY <1>0 DEF Shared
  <2> QED BY <1>2, <2>1, <2>2
<1>4. Cardinality(slot) = 0 /\ Depth \in Nat \ {0}
  BY <1>0, <1>3, FS_EmptySet, GraphTypes DEF Shared
<1> QED BY <1>4 DEF SlotFree

LEMMA BuildPoolToken ==
    ASSUME TreeInv, Closed, TokenInv, NEW p \in DOMAIN ps, BuildPool(p)
    PROVE  PassedAlone(p)
<1>0. /\ ps[p] \in Proc /\ ps[p].my \in {0, 1} /\ (Needs(p, ps[p], Jobs(p)) => ps[p].my = 1)
      /\ ps[p].cmd \in {"redo", "unlocked"} /\ ps[p].pc \in {"own", "poolwait"}
  BY TokenFacts DEF BuildPool, Shape
<1>1. CASE Put(p, [ps[p] EXCEPT !.pc = "bstart"]) /\ pipe' = pipe
  <2>1. PICK r \in Proc : r = [ps[p] EXCEPT !.pc = "bstart"]
    BY <1>0 DEF Proc
  <2>2. r.my = ps[p].my /\ r.pc = "bstart"
    BY <1>0, <2>1 DEF Proc
  <2>3. ~Needs(p, r, Jobs(p))
    BY <2>2 DEF Needs
  <2> QED BY <1>1, <2>1, <2>2, <2>3, SameToken
<1>2. CASE /\ ~SlotFree(Head(ps[p].todo)) /\ ps[p].pc = "own"
           /\ PutReleasing(p, [ps[p] EXCEPT !.pc = "poolwait"])
  <2>1. p # Top
    BY <1>2, TopFindsSlot
  <2>2. ps[p].my = 1
    BY <1>0, <1>2, <2>1 DEF Needs
  <2>3. PICK r \in Proc : r = [ps[p] EXCEPT !.pc = "poolwait"]
    BY <1>0 DEF Proc
  <2>4. r.my = 1 /\ r.pc = "poolwait"
    BY <1>0, <2>2, <2>3 DEF Proc
  <2>5. ~Needs(p, r, Jobs(p))
    BY <2>4 DEF Needs
  <2> QED BY <1>2, <2>2, <2>3, <2>4, <2>5, GivenBack
<1> QED BY <1>1, <1>2 DEF BuildPool

LEMMA BuildStartToken ==
    ASSUME TreeInv, TokenInv, NEW p \in DOMAIN ps, BuildStart(p)
    PROVE  PassedForking(p)
<1>0. /\ ps[p] \in Proc /\ ps[p].my = 1 /\ ps[p].todo # <<>> /\ ps[p].todo \in Seq(Target)
      /\ Jobs(p) = {} /\ ps[p].cyc \subseteq Target /\ graph \in DOMAIN Graphs /\ pipe' = pipe
  BY TokenFacts, ProcFacts DEF BuildStart, Shape, Fits, Quiet, Proc, Shared
<1>1. PICK t \in Target : t = Head(ps[p].todo)
  BY <1>0, ListFacts
<1>2. PICK b \in Proc : b = [ps[p] EXCEPT !.pc = "waitall"]
  BY <1>0 DEF Proc
<1>3. b.my = 1 /\ b.pc = "waitall"
  BY <1>0, <1>2 DEF Proc
<1>4. PICK k \in Proc : k = DoJob(t, ps[p].cyc)
  BY <1>0, DoJobFacts
<1>5. k.my = 1
  BY <1>4 DEF DoJob, Job
<1>6. Fork(p, b, t, k) /\ t \notin Jobs(p)
  BY <1>0, <1>1, <1>2, <1>4 DEF BuildStart
<1> QED BY <1>0, <1>3, <1>5, <1>6, HandedOn

(* The end of wait_all. *)
LEMMA AfterToken ==
    ASSUME TokenInv, NEW p \in DOMAIN ps, NEW b \in Proc, AfterWaitAll(p, b), b.my = ps[p].my,
           Needs(p, b, Jobs(p)) => b.my = 1
    PROVE  PassedAlone(p)
<1>1. CASE p = Top /\ b.my >= 1 /\ PutReleasing(p, b)
  <2>1. b.my = 1 /\ ~Needs(p, b, Jobs(p))
    BY <1>1 DEF TokenInv, Hold, Needs
  <2> QED BY <1>1, <2>1, GivenBack
<1>2. CASE Put(p, b) /\ pipe' = pipe
  BY <1>2, SameToken
<1> QED BY <1>1, <1>2 DEF AfterWaitAll

LEMMA BuildDoneToken ==
    ASSUME TreeInv, TokenInv, NEW p \in DOMAIN ps, BuildDone(p)
    PROVE  PassedAlone(p)
<1>0. /\ ps[p] \in Proc /\ ps[p].my \in {0, 1} /\ (Needs(p, ps[p], Jobs(p)) => ps[p].my = 1)
      /\ ps[p].cmd \in {"redo", "unlocked"} /\ ps[p].pc = "waitall" /\ Jobs(p) = {}
      /\ ps[p].todo # <<>> /\ ps[p].todo \in Seq(Target) /\ ps[p].rc \in 0..2
  BY TokenFacts DEF BuildDone, AfterWaitAll, Shape, Proc
<1>1. PICK l \in Seq(Target) : l = Tail(ps[p].todo)
  BY <1>0, ListFacts
<1>2. PICK c \in 0..2 : c = IF ps[p].got # 0 THEN 1 ELSE ps[p].rc
  BY <1>0
<1>3. PICK b \in Proc : b = [ps[p] EXCEPT !.pc = "next", !.todo = l, !.rc = c]
  BY <1>0 DEF Proc
<1>4. b.my = ps[p].my
  BY <1>0, <1>3 DEF Proc
<1>5. AfterWaitAll(p, b)
  BY <1>1, <1>2, <1>3 DEF BuildDone
<1>6. p = Top \/ b.my = 1
  BY <1>0, <1>4 DEF Needs
<1>7. Needs(p, b, Jobs(p)) => b.my = 1
  BY <1>6 DEF Needs
<1> QED BY <1>4, <1>5, <1>7, AfterToken

(* redo with -j is the toplevel command. *)
LEMMA SpawnIsTop ==
    ASSUME TreeInv, NEW p \in DOMAIN ps, ps[p].cmd = "spawn"
    PROVE  p = Top
<1>1. ps[p].job = "top"
  BY ProcFacts DEF Shape
<1> QED BY <1>1, ParentOf DEF Kinds

LEMMA WaitAllToken ==
    ASSUME TreeInv, TokenInv, NEW p \in DOMAIN ps, WaitAllDone(p) \/ WaitAllRelease(p)
    PROVE  PassedAlone(p)
<1>0. /\ ps[p] \in Proc /\ ps[p].my \in {0, 1} /\ ps[p].pc = "waitall" /\ (Kids(p) = {} <=> Jobs(p) = {})
  BY TokenFacts DEF WaitAllDone, WaitAllRelease, AfterWaitAll
<1>1. CASE WaitAllDone(p)
  <2>1. PICK pc \in {"self", "end"} : pc = IF ps[p].cmd = "ifchange" THEN "self" ELSE "end"
    OBVIOUS
  <2>2. PICK b \in Proc : b = [ps[p] EXCEPT !.pc = pc]
    BY <1>0 DEF Proc
  <2>3. b.my = ps[p].my /\ b.pc = pc /\ b.cmd = ps[p].cmd
    BY <1>0, <2>2 DEF Proc
  <2>4. AfterWaitAll(p, b) /\ ps[p].cmd \in {"ifchange", "spawn"}
    BY <1>1, <2>1, <2>2 DEF WaitAllDone
  <2>5. pc = "end" => p = Top
    BY <2>1, <2>4, SpawnIsTop
  <2>6. ~Needs(p, b, Jobs(p))
    BY <2>3, <2>5 DEF Needs
  <2> QED BY <2>3, <2>4, <2>6, AfterToken
<1>2. CASE WaitAllRelease(p)
  <2>1. ps[p].my = 1 /\ Jobs(p) # {} /\ PutReleasing(p, ps[p])
    BY <1>0, <1>2 DEF WaitAllRelease
  <2>2. ~Needs(p, ps[p], Jobs(p))
    BY <1>0, <2>1 DEF Needs
  <2> QED BY <1>0, <2>1, <2>2, GivenBack
<1> QED BY <1>1, <1>2

LEMMA ReadTokenToken ==
    ASSUME TreeInv, TokenInv, NEW p \in DOMAIN ps, ReadToken(p)
    PROVE  PassedAlone(p)
<1>0. ps[p] \in Proc /\ ps[p].my = 0 /\ pipe \in Nat /\ pipe > 0 /\ pipe' = pipe - 1
  BY TokenFacts DEF ReadToken, Ensuring
<1>1. PICK r \in Proc : r = [ps[p] EXCEPT !.my = 1]
  <2>1. 1 \in Int
    OBVIOUS
  <2> QED BY <1>0, <2>1 DEF Proc
<1>2. r.my = 1
  BY <1>0, <1>1 DEF Proc
<1>3. Put(p, r)
  BY <1>0, <1>1 DEF ReadToken, Put
<1>4. Hold(p, r, Jobs(p)) /\ pipe' \in Nat /\ pipe' + r.my <= pipe + ps[p].my
  BY <1>0, <1>2 DEF Hold
<1> QED BY <1>3, <1>4 DEF PassedAlone

LEMMA SpawnToken ==
    ASSUME TreeInv, TokenInv, NEW p \in DOMAIN ps, SpawnNext(p) \/ Spawn(p)
    PROVE  PassedAlone(p) \/ PassedForking(p)
<1>0. /\ ps[p] \in Proc /\ Fits(ps[p], Jobs(p)) /\ ps[p].cmd = "spawn" /\ ps[p].pc \in {"next", "spawn"}
      /\ Shape(ps[p])
      /\ ps[p].todo \in Seq(Target) /\ ps[p].cyc \in SUBSET Target /\ pipe' = pipe
      /\ ps[p].my \in {0, 1}
  BY TokenFacts, ProcFacts DEF SpawnNext, Spawn, Proc, Shape
<1>1. CASE SpawnNext(p)
  <2>0. PICK l \in {"waitall", "spawn"} : l = "spawn" <=> ~(ps[p].todo = <<>> \/ Stop(p))
    OBVIOUS
  <2>1. PICK r \in Proc : r = [ps[p] EXCEPT !.pc = l]
    BY <1>0 DEF Proc
  <2>2. r.my = ps[p].my /\ r.pc = l /\ r.cmd = "spawn"
    BY <1>0, <2>1 DEF Proc
  <2>3. ~Needs(p, r, Jobs(p))
    BY <2>2 DEF Needs
  <2>4. Put(p, r)
    BY <1>1, <2>0, <2>1 DEF SpawnNext, Put
  <2> QED BY <1>0, <2>1, <2>2, <2>3, <2>4, SameToken
<1>2. CASE Spawn(p)
  <2>0. ps[p].todo # <<>> /\ ps[p].my = 1
    BY <1>0, <1>2 DEF Spawn, Shape
  <2>1. PICK t \in Target, l \in Seq(Target) : t = Head(ps[p].todo) /\ l = Tail(ps[p].todo)
    BY <1>0, <2>0, ListFacts
  <2>2. t \notin Jobs(p)
    BY <1>0, <2>0, <2>1, ListFacts DEF Fits
  <2>3. PICK b \in Proc : b = [ps[p] EXCEPT !.todo = l, !.pc = "next"]
    BY <1>0 DEF Proc
  <2>4. b.my = 1 /\ b.pc = "next" /\ b.cmd = "spawn" /\ ps[p].my = 1
    BY <1>0, <2>0, <2>3 DEF Proc
  <2>5. PICK m \in Seq(Target) : m = <<t>>
    <3>1. <<t>> \in Seq(Target)
      OBVIOUS
    <3> QED BY <3>1
  <2>6. PICK k \in Proc : k = Job("redo", t, "redo", m, ps[p].cyc)
    BY <1>0, FreshJob
  <2>7. k.my = 1
    BY <2>6 DEF Job
  <2>8. Fork(p, b, t, k)
    BY <1>2, <2>1, <2>3, <2>5, <2>6 DEF Spawn
  <2> QED BY <1>0, <2>2, <2>4, <2>7, <2>8, HandedOn
<1> QED BY <1>1, <1>2

LEMMA OobSecondToken ==
    ASSUME TreeInv, TokenInv, NEW p \in DOMAIN ps, OobSecond(p)
    PROVE  PassedAlone(p)
<1>0. /\ ps[p] \in Proc /\ ps[p].job = "oob" /\ ps[p].pc = "end" /\ ps[p].cyc \in SUBSET Target
      /\ (Needs(p, ps[p], Jobs(p)) => ps[p].my = 1) /\ pipe' = pipe
  BY TokenFacts DEF OobSecond, Proc
<1>1. p # Top
  BY <1>0, ProcFacts DEF Tree
<1>2. ps[p].my = 1
  BY <1>0, <1>1 DEF Needs
<1>3. PICK t \in Target : t = ps[p].tgt
  BY <1>1, ParentOf
<1>4. PICK l \in Seq(Target) : l = <<t>>
  <2>1. <<t>> \in Seq(Target)
    OBVIOUS
  <2> QED BY <2>1
<1>5. PICK r \in Proc : r = Job("oob", t, "unlocked", l, ps[p].cyc)
  BY <1>0, FreshJob
<1>6. r.my = 1 /\ Put(p, r)
  BY <1>3, <1>4, <1>5 DEF Job, OobSecond
<1> QED BY <1>0, <1>2, <1>6, SameToken

(* wait() takes over the tokens of the jobs that ended: each of them had   *)
(* one.                                                                    *)
LEMMA ReapToken ==
    ASSUME TreeInv, TokenInv, graph' = graph, NEW p \in DOMAIN ps,
           NEW C \in SUBSET Finished(p), Reap(p, C)
    PROVE  TokenInv'
<1>0. /\ ps[p] \in Proc /\ ps[p].my = 0 /\ pipe \in Nat /\ IsFiniteSet(DOMAIN ps)
      /\ C # {} /\ C \subseteq DOMAIN ps /\ p \in Seq(Target) /\ MaxJobs' = MaxJobs
  BY TokenFacts, ProcFacts DEF Reap, TokenInv, Finished, Kids, MaxJobs
<1>15. MaxJobs \in Int
  BY SchedulerAssumption DEF MaxJobs, TreeInv, Shared
<1>1. PICK T \in SUBSET Jobs(p), r \in Proc :
              /\ C = {Append(p, t) : t \in T}
              /\ p \in DOMAIN ps' /\ DOMAIN ps' \subseteq DOMAIN ps /\ ps'[p] = r
              /\ \A q \in DOMAIN ps' : q # p => ps'[q] = ps[q]
              /\ \A q \in DOMAIN ps' : q # p => Jobs(q)' = Jobs(q)
  BY ReapFacts
<1>2. PICK n \in Nat : n = Cardinality(C) /\ n >= 1
  <2>1. IsFiniteSet(C)
    BY <1>0, FS_Subset
  <2>2. Cardinality(C) \in Nat /\ Cardinality(C) # 0
    BY <1>0, <2>1, FS_CardinalityType, FS_EmptySet
  <2> QED BY <2>2
<1>3. ps'[p].my = 1 /\ pipe' = pipe + n - 1
  <2>0. n = ps[p].my + Cardinality(C)
    BY <1>0, <1>2
  <2>1. PICK s : s = [ps[p] EXCEPT !.my = IF n > 1 THEN 1 ELSE n, !.rc = Flag(p, C), !.got = Status(C)]
    OBVIOUS
  <2>2. /\ ps' = [q \in {q \in DOMAIN ps : \A c \in C : ~IsPrefix(c, q)} |-> IF q = p THEN s ELSE ps[q]]
        /\ pipe' = IF n > 1 THEN pipe + n - 1 ELSE pipe
    BY <2>0, <2>1 DEF Reap
  <2>3. ps'[p].my = IF n > 1 THEN 1 ELSE n
    BY <1>0, <1>1, <2>1, <2>2 DEF Proc
  <2> QED BY <1>0, <1>2, <2>2, <2>3
<1>4. C \subseteq Holders
  <2>1. ASSUME NEW c \in C PROVE ps[c].my = 1
    <3>1. PICK t \in Target : c = Append(p, t)
      BY <1>1 DEF Jobs
    <3>2. c \in Seq(Target) /\ c # Top /\ c \in DOMAIN ps
      BY <1>0, <3>1, AppendFacts
    <3>3. IsPrefix(c, c)
      BY <3>2, PrefixFacts
    <3>4. ps[c].pc = "exited"
      BY <3>2, <3>3 DEF Finished, Live
    <3> QED BY <3>2, <3>4 DEF TokenInv, Hold, Needs
  <2> QED BY <1>0, <2>1 DEF Holders
<1>5. \A c \in C : c \notin DOMAIN ps'
  <2>1. \A c \in C : IsPrefix(c, c)
    <3>1. \A c \in C : c \in Seq(Target)
      BY <1>0 DEF TreeInv, Tree
    <3> QED BY <3>1, PrefixFacts
  <2> QED BY <2>1 DEF Reap
<1>6. Holders' \subseteq (Holders \ C) \cup {p} /\ p \notin Holders
  BY <1>0, <1>1, <1>5 DEF Holders
<1>7. IsFiniteSet(Holders) /\ Cardinality(Holders) \in Nat /\ pipe + Cardinality(Holders) <= MaxJobs
  BY HoldersCount DEF TokenInv
<1>8. IsFiniteSet(Holders \ C) /\ Cardinality(Holders \ C) = Cardinality(Holders) - n
  <2>1. Holders \cap C = C
    BY <1>4
  <2> QED BY <1>2, <1>7, <2>1, FS_Difference
<1>9. /\ IsFiniteSet((Holders \ C) \cup {p})
      /\ Cardinality((Holders \ C) \cup {p}) = Cardinality(Holders) - n + 1
  BY <1>6, <1>8, FS_AddElement
<1>10. Cardinality(Holders') <= Cardinality(Holders) - n + 1 /\ Cardinality(Holders') \in Nat
  BY <1>6, <1>9, FS_Subset, FS_CardinalityType
<1>11. pipe' \in Nat /\ pipe' + Cardinality(Holders') <= MaxJobs
  BY <1>0, <1>15, <1>2, <1>3, <1>7, <1>10
<1>12. \A q \in DOMAIN ps' : Hold(q, ps[q], Jobs(q))'
  BY <1>1, <1>3 DEF TokenInv, Hold
<1>13. IsFiniteSet(DOMAIN ps')
  BY <1>0, <1>1, FS_Subset
<1> QED BY <1>0, <1>11, <1>12, <1>13 DEF TokenInv

LEMMA TokenStep ==
    ASSUME TreeInv, Closed, TokenInv, TreeInv', [Next]_<<vars, graph>>
    PROVE  TokenInv'
<1>1. ASSUME NEW p \in DOMAIN ps, Step(p), graph' = graph PROVE TokenInv'
  <2>0. Live(p)
    BY <1>1 DEF Step
  <2>1. CASE IfchangeStep(p)
    <3>1. PassedAlone(p) \/ PassedForking(p)
      BY <2>0, <2>1, FirstPassToken, LoopHeadToken, SecondPassToken, WaitedLockToken, ExitTokens
         DEF IfchangeStep
    <3> QED BY <1>1, <3>1, PassedAloneStep, PassedForkingStep
  <2>2. CASE BuildStep(p)
    <3>1. PassedAlone(p) \/ PassedForking(p)
      BY <2>2, BuildLockToken, BuildPoolToken, BuildStartToken, BuildDoneToken DEF BuildStep
    <3> QED BY <1>1, <3>1, PassedAloneStep, PassedForkingStep
  <2>3. CASE \/ WaitAllRelease(p) \/ WaitAllDone(p) \/ SelfCheckFails(p) \/ SpawnNext(p) \/ Spawn(p)
             \/ OobSecond(p) \/ CommandEnd(p) \/ ReadToken(p)
    <3>1. PassedAlone(p) \/ PassedForking(p)
      BY <2>3, WaitAllToken, ExitTokens, SpawnToken, OobSecondToken, ReadTokenToken
    <3> QED BY <1>1, <3>1, PassedAloneStep, PassedForkingStep
  <2>4. CASE \E C \in SUBSET Finished(p) : Reap(p, C)
    BY <1>1, <2>4, ReapToken
  <2> QED BY <1>1, <2>1, <2>2, <2>3, <2>4 DEF Step
<1>2. CASE UNCHANGED <<vars, graph>>
  <2>1. ps' = ps /\ pipe' = pipe /\ graph' = graph
    BY <1>2 DEF vars
  <2> QED BY <2>1 DEF TokenInv, Holders, Hold, Needs, Jobs, MaxJobs
<1> QED BY <1>1, <1>2 DEF Next, vars

LEMMA TokenInit ==
    ASSUME Init
    PROVE  TokenInv
<1>0. graph \in DOMAIN Graphs /\ pipe = MaxJobs - 1 /\ MaxJobs \in Nat \ {0}
  BY SchedulerAssumption DEF Init, MaxJobs
<1>1. PICK c : ps = [p \in {Top} |-> Job("top", None, c, Roots, {})]
  BY DEF Init
<1>2. DOMAIN ps = {Top} /\ ps[Top].my = 1
  BY <1>1 DEF Job
<1>3. Holders = {Top}
  BY <1>2 DEF Holders
<1>4. IsFiniteSet({Top}) /\ Cardinality({Top}) = 1
  BY FS_Singleton
<1> QED BY <1>0, <1>2, <1>3, <1>4 DEF TokenInv, Hold

LEMMA TypesFollow == TreeInv /\ TokenInv => TypeOK
<1> SUFFICES ASSUME TreeInv, TokenInv PROVE TypeOK
  OBVIOUS
<1>1. Shared
  BY DEF TreeInv
<1>2. pipe \in 0..MaxJobs
  <2>1. Cardinality(Holders) \in Nat /\ pipe \in Nat /\ pipe + Cardinality(Holders) <= MaxJobs
    BY HoldersCount DEF TokenInv
  <2>2. MaxJobs \in Nat
    BY <1>1, SchedulerAssumption DEF MaxJobs, Shared
  <2> QED BY <2>1, <2>2
<1>3. ASSUME NEW p \in DOMAIN ps
      PROVE  /\ ps[p].cmd \in {"ifchange", "redo", "unlocked", "spawn"}
             /\ ps[p].my \in {-1, 0, 1} /\ ps[p].rc \in 0..2 /\ ps[p].cyc \subseteq Target
             /\ Range(ps[p].todo) \cup Range(ps[p].locked) \cup Range(ps[p].blocked) \subseteq Target
  <2>1. /\ ps[p].todo \in Seq(Target) /\ ps[p].locked \in Seq(Target) /\ ps[p].blocked \in Seq(Target)
        /\ ps[p].cmd \in {"ifchange", "redo", "unlocked", "spawn"}
        /\ ps[p].my \in {-1, 0, 1} /\ ps[p].rc \in 0..2 /\ ps[p].cyc \subseteq Target
    BY TokenFacts DEF Proc
  <2>2. Range(ps[p].todo) \subseteq Target /\ Range(ps[p].locked) \subseteq Target
        /\ Range(ps[p].blocked) \subseteq Target
    BY <2>1, ListFacts
  <2> QED BY <2>1, <2>2
<1> QED BY <1>1, <1>2, <1>3 DEF TypeOK, Shared

(* Tokens are handed on, given back and taken over, never made: those in   *)
(* the pipe and in the hands of commands are MaxJobs at most, however many *)
(* jobs end at once and however commands return.                           *)
THEOREM NoTokenMade == Spec => []TokenInv
<1>1. Init => TokenInv
  BY TokenInit
<1>2. TreeInv /\ Closed /\ TokenInv /\ TreeInv' /\ [Next]_<<vars, graph>> => TokenInv'
  BY TokenStep
<1>3. ResultInv => TreeInv /\ Closed
  BY DEF ResultInv
<1> QED BY <1>1, <1>2, <1>3, ResultsCorrect, PTL DEF Spec

(* Every variable keeps its type; the pipe never holds more tokens than -j *)
(* allows.                                                                 *)
THEOREM SchedulerTypes == Spec => []TypeOK
BY TypesFollow, NoTokenMade, TreeCorrect, PTL

-----------------------------------------------------------------------------
(* d is among what x needs, directly or not: it is in every set that has   *)
(* the arguments of x and of its own members.                              *)
Below(x, d) == \A U \in SUBSET Target :
    Range(Args[x]) \subseteq U /\ (\A y \in U : Range(Args[y]) \subseteq U) => d \in U
Under(x, d) == d = x \/ Below(x, d)

(* No target needs itself. *)
Acyclic == \A K \in Knots[graph] : K = {}

(* Where a process comes from: the targets on its path need what it was    *)
(* started for, and REDO_CYCLES names some of them.                        *)
Stems(p, r) ==
    /\ Lists(r) \subseteq Scope(r)
    /\ r.job = "redo" => r.cmd = "redo" /\ r.tgt \in Range(Roots)
    /\ r.job = "do" /\ r.cmd = "redo" => r.tgt \in UsesRedo
    /\ r.cyc \subseteq Range(p)
    /\ \A u \in Range(p) : Under(u, r.tgt)
Origins == \A p \in DOMAIN ps : Stems(p, ps[p])

(* No command leaves a job behind. *)
Whole == \A p \in DOMAIN ps : ps[p].pc = "exited" => Jobs(p) = {}

(* A job that may still record a result for its target finds it not built. *)
Owed(k) == k.job = "do" \/ k.cmd = "ifchange" \/ k.todo # <<>>
Due == \A p \in DOMAIN ps : \A d \in Jobs(p) \ Forced : Owed(ps[Append(p, d)]) => st[d] # "ok"

(* What was built stays built, and was built from what is. *)
Unforced == Target \ Forced
Supported == \A t \in Target : st[t] = "ok" => \A d \in Range(Args[t]) : Settled(Unforced, d)

OrderInv ==
    /\ ResultInv /\ Origins
    /\ Acyclic => Whole /\ Due /\ Supported /\ ProgressInv(Unforced)

-----------------------------------------------------------------------------
(* What is needed, and by whom. *)
LEMMA ArgsIn ==
    ASSUME graph \in DOMAIN Graphs, NEW t \in Target
    PROVE  Range(Args[t]) \subseteq Target /\ Range(Roots) \subseteq Target
BY GraphTypes, ListFacts

LEMMA UnderNext ==
    ASSUME NEW u, NEW x \in Target, NEW d \in Range(Args[x]), Under(u, x)
    PROVE  Below(u, d)
<1>1. SUFFICES ASSUME NEW U \in SUBSET Target, Range(Args[u]) \subseteq U,
                      \A y \in U : Range(Args[y]) \subseteq U
               PROVE  d \in U
  BY DEF Below
<1>2. CASE x = u
  BY <1>1, <1>2
<1>3. CASE Below(u, x)
  BY <1>1, <1>3 DEF Below
<1> QED BY <1>2, <1>3 DEF Under

LEMMA BelowFirst ==
    ASSUME NEW x, NEW e \in Range(Args[x]), NEW d, Under(e, d)
    PROVE  Below(x, d)
<1>1. SUFFICES ASSUME NEW U \in SUBSET Target, Range(Args[x]) \subseteq U,
                      \A y \in U : Range(Args[y]) \subseteq U
               PROVE  d \in U
  BY DEF Below
<1>2. e \in U /\ Range(Args[e]) \subseteq U
  BY <1>1
<1> QED BY <1>1, <1>2 DEF Under, Below

(* The targets above one that needs itself are a knot. *)
LEMMA NoneBelowItself ==
    ASSUME Acyclic, graph \in DOMAIN Graphs, NEW x \in Target
    PROVE  ~Below(x, x)
<1>1. SUFFICES ASSUME Below(x, x) PROVE FALSE
  OBVIOUS
<1>2. PICK K \in SUBSET Target : K = {y \in Target : Below(y, x)}
  OBVIOUS
<1>3. ASSUME NEW y \in K PROVE Range(Args[y]) \cap K # {}
  <2>1. y \in Target /\ Below(y, x) /\ Range(Args[y]) \subseteq Target
    BY <1>2, ArgsIn
  <2>2. SUFFICES ASSUME \A e \in Range(Args[y]) : e # x /\ ~Below(e, x) PROVE FALSE
    BY <1>1, <1>2, <2>1
  <2>3. PICK U \in SUBSET Target : U = {z \in Target : z # x /\ ~Below(z, x)}
    OBVIOUS
  <2>4. ASSUME NEW z \in U, NEW e \in Range(Args[z]) PROVE e \in U
    <3>1. z \in Target /\ ~Below(z, x) /\ e \in Target
      BY <2>3, ArgsIn
    <3>2. ~Under(e, x)
      BY <3>1, BelowFirst
    <3> QED BY <2>3, <3>1, <3>2 DEF Under
  <2>5. Range(Args[y]) \subseteq U
    BY <2>1, <2>2, <2>3
  <2>6. x \in U
    BY <2>1, <2>4, <2>5 DEF Below
  <2> QED BY <2>3, <2>6
<1>4. K \in Knots[graph]
  BY <1>3 DEF Knots, Args
<1>5. x \in K
  BY <1>1, <1>2
<1> QED BY <1>4, <1>5 DEF Acyclic

-----------------------------------------------------------------------------
(* Where processes come from. *)
LEMMA SameOrder ==
    ASSUME graph' = graph
    PROVE  /\ Args' = Args /\ Forced' = Forced /\ Unforced' = Unforced /\ Acyclic' = Acyclic
           /\ \A p, r : Stems(p, r)' = Stems(p, r)
BY DEF Args, Roots, UsesRedo, Forced, Unforced, Acyclic, Knots, Stems, Scope, Lists, Under, Below

LEMMA Rooted ==
    ASSUME TreeInv, NEW p \in DOMAIN ps
    PROVE  /\ ps[p].job = "top" => p = Top
           /\ p = Top => ps[p].job = "top"
           /\ p # Top => ps[p].tgt \in Target
           /\ Range(Top) = {}
<1>1. p # Top => ps[p].tgt \in Target /\ ps[p].job # "top"
  BY ParentOf DEF Kinds
<1>2. ps[Top].job = "top"
  BY ProcFacts DEF Tree
<1>3. Range(Top) = {}
  BY DEF Range, Top
<1> QED BY <1>1, <1>2, <1>3

LEMMA StemOwn ==
    ASSUME Origins, NEW p \in DOMAIN ps, NEW r \in Proc, Keeps(p, r), r.job = ps[p].job, r.tgt = ps[p].tgt
    PROVE  Stems(p, r)
<1>1. Stems(p, ps[p])
  BY DEF Origins
<1>2. CASE r.cmd = ps[p].cmd /\ Lists(r) \subseteq Lists(ps[p])
  BY <1>1, <1>2 DEF Stems, Keeps, Scope
<1>3. CASE r.job = "oob" /\ r.cmd = "unlocked" /\ Lists(r) \subseteq {r.tgt}
  BY <1>1, <1>3 DEF Stems, Keeps, Scope
<1> QED BY <1>2, <1>3 DEF Keeps

LEMMA StemKid ==
    ASSUME TreeInv, Origins, NEW p \in DOMAIN ps, NEW t \in Target, NEW k \in Proc, Springs(p, t, k)
    PROVE  Stems(Append(p, t), k)
<1>1. /\ Stems(p, ps[p]) /\ p \in Seq(Target)
  BY ProcFacts DEF Origins
<1>2. Range(Append(p, t)) = Range(p) \cup {t}
  BY <1>1, ListFacts
<1>3. k.cyc \subseteq Range(p) \cup {t} /\ k.tgt = t
  BY <1>1 DEF Stems, Springs, Sprung
<1>4. ASSUME NEW u \in Range(p) PROVE Under(u, t)
  <2>1. p # Top /\ ps[p].tgt \in Target /\ ps[p].job # "top"
    BY <1>4, Rooted
  <2>2. Under(u, ps[p].tgt) /\ t \in Scope(ps[p])
    BY <1>1, <1>4 DEF Stems, Springs
  <2>3. CASE t = ps[p].tgt
    BY <2>2, <2>3
  <2>4. CASE t \in Range(Args[ps[p].tgt])
    BY <2>1, <2>2, <2>4, UnderNext DEF Under
  <2> QED BY <2>1, <2>2, <2>3, <2>4 DEF Scope
<1>5. Under(t, t)
  BY DEF Under
<1>6. k.job = "redo" => k.tgt \in Range(Roots)
  <2>1. k.job = "redo" => ps[p].job = "top"
    BY ProcFacts DEF Springs, Shape
  <2>2. t \in Scope(ps[p])
    BY <1>1 DEF Stems, Springs
  <2> QED BY <1>3, <2>1, <2>2 DEF Scope
<1> QED BY <1>2, <1>3, <1>4, <1>5, <1>6 DEF Stems, Springs, Sprung

LEMMA OriginStep ==
    ASSUME TreeInv, Origins, graph' = graph, NEW p \in DOMAIN ps,
           \/ MovedAlone(p) \/ MovedForking(p)
           \/ \E C : \E T \in SUBSET Target, r \in Proc : Reaped(p, C, T, r)
    PROVE  Origins'
<1>0. \A q, r : Stems(q, r)' = Stems(q, r)
  BY SameOrder
<1>1. CASE MovedAlone(p)
  <2>1. PICK r \in Proc : Put(p, r) /\ Lawful(p, r, Jobs(p)) /\ Keeps(p, r)
    BY <1>1 DEF MovedAlone
  <2>2. /\ DOMAIN ps' = DOMAIN ps /\ ps'[p] = r
        /\ \A q \in DOMAIN ps : q # p => ps'[q] = ps[q]
    BY <2>1, AloneShape
  <2>3. Stems(p, r)
    BY <2>1, StemOwn DEF Lawful
  <2>4. \A q \in DOMAIN ps' : Stems(q, ps'[q])
    BY <2>2, <2>3 DEF Origins
  <2> QED BY <1>0, <2>4 DEF Origins
<1>2. CASE MovedForking(p)
  <2>1. PICK r \in Proc, k \in Proc, t \in Target :
           t \notin Jobs(p) /\ Forked(p, r, t, k) /\ Lawful(p, r, Jobs(p) \cup {t}) /\ Keeps(p, r) /\ Springs(p, t, k)
    BY <1>2 DEF MovedForking
  <2>2. PICK c : c = Append(p, t)
    OBVIOUS
  <2>3. /\ DOMAIN ps' = DOMAIN ps \cup {c} /\ ps'[p] = r /\ ps'[c] = k
        /\ \A q \in DOMAIN ps : q # p => ps'[q] = ps[q]
    BY <2>1, <2>2, ProcFacts DEF Forked, Jobs
  <2>4. Stems(p, r)
    BY <2>1, StemOwn DEF Lawful
  <2>5. Stems(c, k)
    BY <2>1, <2>2, StemKid
  <2>6. \A q \in DOMAIN ps' : Stems(q, ps'[q])
    BY <2>3, <2>4, <2>5 DEF Origins
  <2> QED BY <1>0, <2>6 DEF Origins
<1>3. ASSUME NEW C, NEW T \in SUBSET Target, NEW r \in Proc, Reaped(p, C, T, r) PROVE Origins'
  <2>1. /\ DOMAIN ps' \subseteq DOMAIN ps /\ ps'[p] = r
        /\ \A q \in DOMAIN ps' : q # p => ps'[q] = ps[q]
    BY <1>3 DEF Reaped
  <2>2. Stems(p, r)
    <3>1. Keeps(p, r) /\ r.job = ps[p].job /\ r.tgt = ps[p].tgt
      BY <1>3 DEF Keeps, Reaped, Lists
    <3> QED BY <3>1, StemOwn
  <2>3. \A q \in DOMAIN ps' : Stems(q, ps'[q])
    BY <2>1, <2>2 DEF Origins
  <2> QED BY <1>0, <2>3 DEF Origins
<1> QED BY <1>1, <1>2, <1>3

-----------------------------------------------------------------------------
(* Who may build a target that nobody forces. *)
LEMMA NoCycleFound ==
    ASSUME TreeInv, Origins, Acyclic, NEW p \in DOMAIN ps
    PROVE  ~CycleFound(p)
<1>0. SUFFICES ASSUME CycleFound(p) PROVE FALSE
  OBVIOUS
<1>1. /\ ps[p] \in Proc /\ ps[p].todo \in Seq(Target) /\ ps[p].cmd = "ifchange" /\ ps[p].pc = "next"
      /\ ps[p].todo # <<>> /\ Fits(ps[p], Jobs(p)) /\ LocksOK(p) /\ Stems(p, ps[p])
      /\ graph \in DOMAIN Graphs
  BY <1>0, ProcFacts DEF CycleFound, Proc, Origins, Shared
<1>2. PICK t \in Target : t = Head(ps[p].todo) /\ t \in Range(ps[p].todo)
  BY <1>1, ListFacts
<1>3. owner[t] # p
  BY <1>1, <1>2 DEF LocksOK, Owns, Fits
<1>4. t \in Range(p) /\ t \in Scope(ps[p])
  BY <1>0, <1>1, <1>2, <1>3 DEF CycleFound, LockError, Stems, Lists
<1>5. ps[p].job \notin {"top", "redo"} /\ ps[p].tgt \in Target
  BY <1>1, <1>4, Rooted DEF Stems
<1>6. t \in Range(Args[ps[p].tgt]) /\ Under(t, ps[p].tgt)
  BY <1>1, <1>4, <1>5 DEF Scope, Stems
<1>7. Below(t, t)
  BY <1>5, <1>6, UnderNext
<1> QED BY <1>1, <1>7, NoneBelowItself

(* What redo asks for is forced. *)
LEMMA RedoForces ==
    ASSUME TreeInv, Origins, NEW p \in DOMAIN ps, ps[p].cmd \in {"redo", "spawn"}
    PROVE  Scope(ps[p]) \subseteq Forced
<1>1. Stems(p, ps[p]) /\ Shape(ps[p]) /\ ps[p] \in Proc
  BY ProcFacts DEF Origins
<1>2. CASE ps[p].job = "top"
  BY <1>2 DEF Scope, Forced
<1>3. CASE ps[p].job = "redo"
  BY <1>1, <1>3 DEF Scope, Forced, Stems
<1>4. CASE ps[p].job = "do"
  <2>1. ps[p].tgt \in UsesRedo
    BY <1>1, <1>4 DEF Stems, Shape
  <2> QED BY <1>4, <2>1 DEF Scope, Forced
<1>5. ps[p].job # "oob"
  BY <1>1 DEF Shape
<1> QED BY <1>1, <1>2, <1>3, <1>4, <1>5 DEF Proc

(* redo-unlocked runs under the lock of the command that started it. *)
LEMMA OobOwned ==
    ASSUME TreeInv, Whole, NEW p \in DOMAIN ps, ps[p].job = "oob"
    PROVE  \E o \in DOMAIN ps, d \in Target :
              /\ p = Append(o, d) /\ ps[p].tgt = d /\ d \in Jobs(o)
              /\ ps[o].cmd = "ifchange" /\ owner[d] = o
<1>1. p # Top
  BY Rooted
<1>2. PICK o \in DOMAIN ps, d \in Target :
              /\ p = Append(o, d) /\ d \in Jobs(o) /\ ps[p].tgt = d
              /\ ps[p].job \in Kinds(ps[o].cmd)
  BY <1>1, ParentOf
<1>3. ps[o].cmd = "ifchange" /\ LocksOK(o)
  BY <1>2, ProcFacts DEF Kinds
<1>4. ps[o].pc # "exited"
  BY <1>2 DEF Whole
<1>5. owner[d] = o
  BY <1>2, <1>3, <1>4 DEF LocksOK, Owns
<1> QED BY <1>2, <1>3, <1>5

(* A job for a target that nobody forces runs under the target's lock. *)
LEMMA JobOwned ==
    ASSUME TreeInv, Origins, Whole, NEW p \in DOMAIN ps, NEW d \in Jobs(p), d \notin Forced
    PROVE  /\ owner[d] # None
           /\ \/ ps[p].cmd = "ifchange" /\ owner[d] = p
              \/ /\ ps[p].cmd = "unlocked" /\ ps[p].tgt = d
                 /\ \E o \in DOMAIN ps : p = Append(o, d) /\ owner[d] = o
<1>0. /\ ps[p] \in Proc /\ Shape(ps[p]) /\ Fits(ps[p], Jobs(p)) /\ KidsOK(p) /\ LocksOK(p)
      /\ d \in Target /\ ps[p].pc # "exited" /\ ps[p].todo \in Seq(Target) /\ None \notin DOMAIN ps
      /\ Stems(p, ps[p])
  BY ProcFacts DEF Jobs, Whole, Proc, Origins
<1>1. CASE ps[p].cmd = "ifchange"
  BY <1>0, <1>1 DEF LocksOK, Owns
<1>2. ASSUME ps[p].cmd \in {"redo", "unlocked"} PROVE ps[p].todo # <<>> /\ d = Head(ps[p].todo)
  <2>1. ~Quiet(ps[p]) /\ d = Head(ps[p].todo)
    BY <1>0, <1>2 DEF Fits
  <2>2. ps[p].pc = "waitall"
    BY <1>0, <1>2, <2>1 DEF Quiet, Shape, Proc
  <2> QED BY <1>0, <1>2, <2>1, <2>2 DEF Shape
<1>3. CASE ps[p].cmd = "redo"
  <2>1. d \in Scope(ps[p])
    BY <1>0, <1>2, <1>3, ListFacts DEF Stems, Lists
  <2> QED BY <1>3, <2>1, RedoForces
<1>4. CASE ps[p].cmd = "spawn"
  <2>1. PICK c \in DOMAIN ps : c = Append(p, d)
    BY DEF Jobs
  <2>2. ps[c].job = "redo" /\ ps[c].tgt = d
    BY <1>0, <1>4, <2>1 DEF KidsOK, Kinds
  <2>3. d \in Range(Roots)
    BY <2>2 DEF Origins, Stems
  <2> QED BY <2>3 DEF Forced
<1>5. CASE ps[p].cmd = "unlocked"
  <2>1. ps[p].job = "oob" /\ ps[p].todo = <<ps[p].tgt>>
    BY <1>0, <1>2, <1>5 DEF Shape
  <2>2. ps[p].tgt = d
    BY <1>2, <1>5, <2>1
  <2>3. PICK o \in DOMAIN ps, u \in Target : p = Append(o, u) /\ ps[p].tgt = u /\ owner[u] = o
    BY <2>1, OobOwned
  <2> QED BY <1>0, <1>5, <2>2, <2>3
<1> QED BY <1>0, <1>1, <1>3, <1>4, <1>5 DEF Proc

-----------------------------------------------------------------------------
(* Steps on a source tree without cycles. *)
LEMMA WholeStep ==
    ASSUME TreeInv, Origins, Acyclic, Whole, NEW p \in DOMAIN ps,
           \/ MovedAlone(p) \/ MovedForking(p)
           \/ \E C : \E T \in SUBSET Target, r \in Proc : Reaped(p, C, T, r)
    PROVE  Whole'
<1>1. CASE MovedAlone(p)
  <2>1. PICK r \in Proc : Put(p, r) /\ Keeps(p, r)
    BY <1>1 DEF MovedAlone
  <2>2. /\ DOMAIN ps' = DOMAIN ps /\ ps'[p] = r
        /\ \A q \in DOMAIN ps : q # p => ps'[q] = ps[q]
        /\ \A q \in DOMAIN ps : Jobs(q)' = Jobs(q)
    BY <2>1, AloneShape
  <2>3. r.pc = "exited" => Jobs(p) = {}
    BY <2>1, NoCycleFound DEF Keeps
  <2> QED BY <2>2, <2>3 DEF Whole
<1>2. CASE MovedForking(p)
  <2>1. PICK r \in Proc, k \in Proc, t \in Target :
           t \notin Jobs(p) /\ Forked(p, r, t, k) /\ r.pc # "exited" /\ Begins(k)
    BY <1>2 DEF MovedForking
  <2>2. PICK c : c = Append(p, t)
    OBVIOUS
  <2>3. /\ DOMAIN ps' = DOMAIN ps \cup {c} /\ ps'[p] = r /\ ps'[c] = k
        /\ \A q \in DOMAIN ps : q # p => ps'[q] = ps[q]
    BY <2>1, <2>2, ProcFacts DEF Forked, Jobs
  <2>4. \A q \in DOMAIN ps : q # p => Jobs(q)' = Jobs(q)
    BY <2>1, <2>2, ForkShape
  <2>5. k.pc # "exited"
    BY <2>1 DEF Begins
  <2> QED BY <2>1, <2>3, <2>4, <2>5 DEF Whole
<1>3. ASSUME NEW C, NEW T \in SUBSET Target, NEW r \in Proc, Reaped(p, C, T, r) PROVE Whole'
  <2>1. /\ DOMAIN ps' \subseteq DOMAIN ps /\ ps'[p] = r /\ r.pc # "exited"
        /\ \A q \in DOMAIN ps' : q # p => ps'[q] = ps[q] /\ Jobs(q)' = Jobs(q)
    BY <1>3 DEF Reaped
  <2> QED BY <2>1 DEF Whole
<1> QED BY <1>1, <1>2, <1>3

(* A job is started for a target that is not built, if nobody forces it. *)
LEMMA StartDue ==
    ASSUME TreeInv, Origins, Whole, Due, NEW p \in DOMAIN ps, NEW t \in Target, NEW k \in Proc,
           Springs(p, t, k), t \notin Forced
    PROVE  st[t] # "ok"
<1>0. /\ ps[p] \in Proc /\ Shape(ps[p]) /\ t \in Scope(ps[p])
  BY ProcFacts DEF Springs, Origins, Stems
<1>1. CASE ps[p].cmd = "ifchange"
  BY <1>1 DEF Springs
<1>2. CASE ps[p].cmd \in {"redo", "spawn"}
  BY <1>0, <1>2, RedoForces
<1>3. CASE ps[p].cmd = "unlocked"
  <2>1. ps[p].job = "oob" /\ ps[p].todo # <<>>
    BY <1>0, <1>3 DEF Shape, Springs
  <2>2. PICK o \in DOMAIN ps, d \in Target : p = Append(o, d) /\ ps[p].tgt = d /\ d \in Jobs(o)
    BY <2>1, OobOwned
  <2>3. t = d
    BY <1>0, <1>3, <2>1, <2>2 DEF Scope
  <2>4. Owed(ps[Append(o, t)])
    BY <2>1, <2>2, <2>3 DEF Owed
  <2> QED BY <2>2, <2>3, <2>4 DEF Due
<1> QED BY <1>0, <1>1, <1>2, <1>3 DEF Proc

(* What a command alone records is its own job's, if nobody forces it. *)
LEMMA RecordsOwn ==
    ASSUME TreeInv, Origins, Whole, Due, NEW p \in DOMAIN ps, NEW r \in Proc, Records(p, r),
           NEW d \in Target \ Forced, st'[d] # st[d]
    PROVE  \/ owner[d] = None /\ st'[d] = "ok"
           \/ /\ \E o \in DOMAIN ps : p = Append(o, d) /\ owner[d] = o
              /\ st[d] # "ok" /\ ps[p].job = "oob" /\ r.cmd = "unlocked" /\ r.todo = <<>> /\ Jobs(p) = {}
<1>1. \/ owner[d] = None /\ st'[d] = "ok"
      \/ ps[p].cmd = "redo" /\ d \in Lists(ps[p])
      \/ /\ ps[p].cmd = "unlocked" /\ ps[p].todo # <<>> /\ d = ps[p].tgt
         /\ r.cmd = "unlocked" /\ r.todo = <<>> /\ Jobs(p) = {}
  BY DEF Records
<1>2. CASE ps[p].cmd = "redo" /\ d \in Lists(ps[p])
  BY <1>2, RedoForces DEF Origins, Stems
<1>3. CASE /\ ps[p].cmd = "unlocked" /\ ps[p].todo # <<>> /\ d = ps[p].tgt
           /\ r.cmd = "unlocked" /\ r.todo = <<>> /\ Jobs(p) = {}
  <2>1. ps[p].job = "oob"
    BY <1>3, ProcFacts DEF Shape
  <2>2. PICK o \in DOMAIN ps : p = Append(o, d) /\ d \in Jobs(o) /\ owner[d] = o
    BY <1>3, <2>1, OobOwned
  <2>3. Owed(ps[Append(o, d)])
    BY <1>3, <2>2 DEF Owed
  <2>4. st[d] # "ok"
    BY <2>2, <2>3 DEF Due
  <2> QED BY <1>3, <2>1, <2>2, <2>4
<1> QED BY <1>1, <1>2, <1>3

(* A command that goes on owes no more than before. *)
LEMMA OwesLess ==
    ASSUME NEW p \in DOMAIN ps, NEW r \in Proc, r.job = ps[p].job, Keeps(p, r), Owed(r)
    PROVE  Owed(ps[p])
BY DEF Owed, Keeps

LEMMA DueStep ==
    ASSUME TreeInv, Origins, Whole, Due, graph' = graph, NEW p \in DOMAIN ps,
           \/ MovedAlone(p) \/ MovedForking(p)
           \/ \E C : \E T \in SUBSET Target, r \in Proc : Reaped(p, C, T, r)
    PROVE  Due'
<1>0. p \in Seq(Target) /\ DOMAIN ps \subseteq Seq(Target) /\ Forced' = Forced
  BY ProcFacts, SameOrder DEF Tree
<1>1. CASE MovedAlone(p)
  <2>1. PICK r \in Proc : Put(p, r) /\ r.job = ps[p].job /\ Keeps(p, r) /\ Records(p, r)
    BY <1>1 DEF MovedAlone, Lawful
  <2>2. /\ DOMAIN ps' = DOMAIN ps /\ ps'[p] = r
        /\ \A q \in DOMAIN ps : q # p => ps'[q] = ps[q]
        /\ \A q \in DOMAIN ps : Jobs(q)' = Jobs(q)
    BY <2>1, AloneShape
  <2>3. ASSUME NEW q \in DOMAIN ps, NEW d \in Jobs(q), d \notin Forced, Owed(ps'[Append(q, d)])
        PROVE  st'[d] # "ok"
    <3>1. PICK c \in DOMAIN ps : c = Append(q, d)
      BY DEF Jobs
    <3>2. d \in Target \ Forced
      BY <2>3 DEF Jobs
    <3>3. Owed(ps[c])
      BY <2>1, <2>2, <2>3, <3>1, OwesLess
    <3>4. st[d] # "ok"
      BY <2>3, <3>1, <3>3 DEF Due
    <3>5. CASE st'[d] # st[d]
      <4>1. /\ owner[d] # None
            /\ \/ ps[q].cmd = "ifchange" /\ owner[d] = q
               \/ /\ ps[q].cmd = "unlocked" /\ ps[q].tgt = d
                  /\ \E o \in DOMAIN ps : q = Append(o, d) /\ owner[d] = o
        BY <2>3, JobOwned
      <4>2. PICK o \in DOMAIN ps :
               /\ p = Append(o, d) /\ owner[d] = o
               /\ ps[p].job = "oob" /\ r.cmd = "unlocked" /\ r.todo = <<>> /\ Jobs(p) = {}
        BY <2>1, <3>2, <3>5, <4>1, RecordsOwn
      <4>3. q = o
        BY <2>3, <4>1, <4>2
      <4>4. ~Owed(r) /\ c = p
        BY <2>1, <3>1, <4>2, <4>3 DEF Owed
      <4> QED BY <2>2, <2>3, <3>1, <4>4
    <3> QED BY <3>4, <3>5
  <2> QED BY <1>0, <2>2, <2>3 DEF Due
<1>2. CASE MovedForking(p)
  <2>1. PICK r \in Proc, k \in Proc, t \in Target :
           /\ t \notin Jobs(p) /\ Forked(p, r, t, k) /\ r.job = ps[p].job /\ Keeps(p, r)
           /\ Springs(p, t, k) /\ st' = st
    BY <1>2 DEF MovedForking, Lawful
  <2>2. PICK c : c = Append(p, t)
    OBVIOUS
  <2>3. /\ DOMAIN ps' = DOMAIN ps \cup {c} /\ ps'[p] = r
        /\ \A q \in DOMAIN ps : q # p => ps'[q] = ps[q]
    BY <2>1, <2>2, ProcFacts DEF Forked, Jobs
  <2>4. /\ \A q \in DOMAIN ps : q # p => Jobs(q)' = Jobs(q)
        /\ Jobs(p)' = Jobs(p) \cup {t} /\ Jobs(c)' = {}
    BY <2>1, <2>2, ForkShape
  <2>5. t \notin Forced => st[t] # "ok"
    BY <2>1, StartDue
  <2>6. ASSUME NEW q \in DOMAIN ps, NEW d \in Jobs(q), d \notin Forced, Owed(ps'[Append(q, d)])
        PROVE  st[d] # "ok"
    <3>1. PICK b \in DOMAIN ps : b = Append(q, d)
      BY DEF Jobs
    <3>2. Owed(ps[b])
      BY <2>1, <2>3, <2>6, <3>1, OwesLess
    <3> QED BY <2>6, <3>1, <3>2 DEF Due
  <2>7. ASSUME NEW q \in DOMAIN ps', NEW d \in Jobs(q)', d \notin Forced, Owed(ps'[Append(q, d)])
        PROVE  st'[d] # "ok"
    <3>1. q \in DOMAIN ps /\ (d \in Jobs(q) \/ d = t)
      BY <2>3, <2>4, <2>7
    <3> QED BY <2>1, <2>5, <2>6, <2>7, <3>1
  <2> QED BY <1>0, <2>7 DEF Due
<1>3. ASSUME NEW C, NEW T \in SUBSET Target, NEW r \in Proc, Reaped(p, C, T, r) PROVE Due'
  <2>1. /\ DOMAIN ps' \subseteq DOMAIN ps /\ ps'[p] = r /\ Jobs(p)' = Jobs(p) \ T /\ T \subseteq Jobs(p)
        /\ \A q \in DOMAIN ps' : q # p => ps'[q] = ps[q] /\ Jobs(q)' = Jobs(q)
        /\ r.job = ps[p].job /\ r.cmd = ps[p].cmd /\ r.todo = ps[p].todo
    BY <1>3 DEF Reaped
  <2>2. ASSUME NEW q \in DOMAIN ps', NEW d \in Jobs(q)', d \notin Forced, Owed(ps'[Append(q, d)])
        PROVE  st'[d] # "ok"
    <3>1. q \in DOMAIN ps /\ d \in Jobs(q) /\ d \in Target /\ Append(q, d) \in DOMAIN ps'
      BY <2>1, <2>2 DEF Jobs
    <3>2. PICK c \in DOMAIN ps' : c = Append(q, d)
      BY <3>1
    <3>3. Owed(ps[c])
      BY <2>1, <2>2, <3>2 DEF Owed
    <3>4. st[d] # "ok"
      BY <2>2, <3>1, <3>2, <3>3 DEF Due
    <3>5. CASE st'[d] # st[d]
      <4>1. ps[p].cmd = "ifchange" /\ d \in T /\ ps[Append(p, d)].job # "oob"
        BY <1>3, <3>1, <3>5 DEF Reaped
      <4>2. owner[d] = p
        BY <2>1, <2>2, <4>1, JobOwned
      <4>3. \/ q = p
            \/ ps[q].cmd = "unlocked" /\ q = Append(p, d)
        BY <2>2, <3>1, <4>2, JobOwned
      <4>4. q # p
        BY <2>1, <2>2, <4>1
      <4>5. ps[q].cmd = "unlocked" => ps[q].job = "oob"
        BY <3>1, ProcFacts DEF Shape
      <4> QED BY <4>1, <4>3, <4>4, <4>5
    <3> QED BY <3>4, <3>5
  <2> QED BY <1>0, <2>2 DEF Due
<1> QED BY <1>1, <1>2, <1>3

(* What is built stays built, unless it is forced. *)
LEMMA OrderLasts ==
    ASSUME TreeInv, Origins, Whole, Due, NEW p \in DOMAIN ps,
           \/ MovedAlone(p) \/ MovedForking(p)
           \/ \E C : \E T \in SUBSET Target, r \in Proc : Reaped(p, C, T, r),
           NEW S, S = Unforced
    PROVE  Lasts(S) /\ \E r : Told(p, r)
<1>1. ASSUME NEW r, Told(p, r),
             \A d \in Target \ Forced : st'[d] # st[d] => st'[d] = "ok" \/ st[d] # "ok"
      PROVE  Lasts(S)
  <2>1. SUFFICES ASSUME NEW d \in Target, Settled(S, d), st'[d] # st[d] PROVE Settled(S, d)'
    BY DEF Lasts, Settled
  <2>2. st'[d] = "ok" \/ st'[d] = "failed"
    BY <1>1, <2>1 DEF Told
  <2>3. d \in Forced => d \notin S
    BY DEF Unforced
  <2>4. d \notin Forced => d \in S
    BY DEF Unforced
  <2>5. d \notin Forced => st'[d] = "ok"
    BY <1>1, <2>1, <2>4 DEF Settled
  <2> QED BY <2>2, <2>3, <2>5 DEF Settled
<1>2. CASE MovedAlone(p)
  <2>1. PICK r \in Proc : Told(p, r) /\ Records(p, r)
    BY <1>2 DEF MovedAlone
  <2>2. \A d \in Target \ Forced : st'[d] # st[d] => st'[d] = "ok" \/ st[d] # "ok"
    BY <2>1, RecordsOwn
  <2> QED BY <1>1, <2>1, <2>2
<1>3. CASE MovedForking(p)
  <2>1. \A r : Told(p, r)
    BY <1>3 DEF MovedForking, Told
  <2>2. st' = st
    BY <1>3 DEF MovedForking
  <2> QED BY <1>1, <2>1, <2>2
<1>4. ASSUME NEW C, NEW T \in SUBSET Target, NEW r \in Proc, Reaped(p, C, T, r)
      PROVE  Lasts(S) /\ Told(p, r)
  <2>1. Told(p, r)
    BY <1>4, ReapedTold
  <2>2. ASSUME NEW d \in Target \ Forced, st'[d] # st[d] PROVE st[d] # "ok"
    <3>1. ps[p].cmd = "ifchange" /\ d \in T /\ ps[Append(p, d)].job # "oob" /\ d \in Jobs(p)
      BY <1>4, <2>2 DEF Reaped
    <3>2. ps[Append(p, d)].job \in {"do", "oob"}
      BY <3>1, ProcFacts DEF KidsOK, Kinds
    <3>3. Owed(ps[Append(p, d)])
      BY <3>1, <3>2 DEF Owed
    <3> QED BY <3>1, <3>3 DEF Due
  <2> QED BY <1>1, <2>1, <2>2
<1> QED BY <1>2, <1>3, <1>4

LEMMA SupportedStep ==
    ASSUME TreeInv, Supported, graph' = graph, NEW S, S = Unforced, ProgressInv(S), Lasts(S),
           NEW p \in DOMAIN ps, NEW r, Told(p, r)
    PROVE  Supported'
<1>0. Args' = Args /\ Unforced' = S /\ graph \in DOMAIN Graphs
  BY SameOrder DEF TreeInv, Shared
<1>1. ASSUME NEW t \in Target, st'[t] = "ok", NEW d \in Range(Args[t]) PROVE Settled(S, d)'
  <2>1. d \in Target
    BY <1>0, ArgsIn
  <2>2. st[t] = "ok" \/ Earned(t)
    BY <1>1 DEF Told
  <2>3. CASE st[t] = "ok"
    <3>1. Settled(S, d)
      BY <1>1, <2>3 DEF Supported
    <3> QED BY <2>1, <3>1 DEF Lasts
  <2>4. CASE Earned(t)
    <3>1. Settled(S, d)
      BY <1>1, <2>4, EarnedSettles
    <3> QED BY <2>1, <3>1 DEF Lasts
  <2> QED BY <2>2, <2>3, <2>4
<1> QED BY <1>0, <1>1 DEF Supported

LEMMA OrderStep ==
    ASSUME OrderInv, NEW p \in DOMAIN ps, Step(p), graph' = graph
    PROVE  OrderInv'
<1>0. TreeInv /\ Origins /\ \A q \in DOMAIN ps : Through(ps[q])
  BY DEF OrderInv, ResultInv
<1>1. \/ MovedAlone(p) \/ MovedForking(p)
      \/ \E C : \E T \in SUBSET Target, r \in Proc : Reaped(p, C, T, r)
  BY <1>0, StepResult
<1>2. ResultInv'
  BY ResultStep DEF OrderInv
<1>3. Origins'
  BY <1>0, <1>1, OriginStep
<1>4. ASSUME Acyclic PROVE Whole' /\ Due' /\ Supported' /\ ProgressInv(Unforced)'
  <2>0. Whole /\ Due /\ Supported /\ ProgressInv(Unforced)
    BY <1>4 DEF OrderInv
  <2>1. Whole'
    BY <1>0, <1>1, <1>4, <2>0, WholeStep
  <2>2. Due'
    BY <1>0, <1>1, <2>0, DueStep
  <2>3. PICK S : S = Unforced
    OBVIOUS
  <2>4. ProgressInv(S)
    BY <2>0, <2>3
  <2>5. Lasts(S) /\ \E r : Told(p, r)
    BY <1>0, <1>1, <2>0, <2>3, OrderLasts
  <2>6. Supported'
    BY <1>0, <2>0, <2>3, <2>4, <2>5, SupportedStep
  <2>7. ProgressInv(S)'
    <3>1. CASE MovedAlone(p) \/ MovedForking(p)
      BY <1>0, <2>4, <2>5, <3>1, MovedProgress
    <3>2. ASSUME NEW C, NEW T \in SUBSET Target, NEW r \in Proc, Reaped(p, C, T, r)
          PROVE  ProgressInv(S)'
      BY <1>0, <2>4, <2>5, <3>2, ReapedProgress
    <3> QED BY <1>1, <3>1, <3>2
  <2>8. Unforced' = S
    BY <2>3, SameOrder
  <2> QED BY <2>1, <2>2, <2>6, <2>7, <2>8
<1>5. Acyclic' = Acyclic
  BY SameOrder
<1> QED BY <1>2, <1>3, <1>4, <1>5 DEF OrderInv

LEMMA OrderStutter ==
    ASSUME OrderInv, UNCHANGED <<vars, graph>>
    PROVE  OrderInv'
<1>0. /\ ps' = ps /\ st' = st /\ graph' = graph
  BY DEF vars
<1>1. ResultInv'
  BY ResultStutter DEF OrderInv
<1>2. /\ Args' = Args /\ Forced' = Forced /\ Unforced' = Unforced /\ Acyclic' = Acyclic
      /\ \A p, r : Stems(p, r)' = Stems(p, r)
  BY <1>0, SameOrder
<1>3. \A q : Jobs(q)' = Jobs(q)
  BY <1>0 DEF Jobs
<1>4. Origins'
  BY <1>0, <1>2 DEF OrderInv, Origins
<1>5. ASSUME Acyclic PROVE Whole' /\ Due' /\ Supported' /\ ProgressInv(Unforced)'
  <2>1. Whole' /\ Due' /\ Supported'
    BY <1>0, <1>2, <1>3, <1>5 DEF OrderInv, Whole, Due, Supported, Settled
  <2>2. PICK S : S = Unforced
    OBVIOUS
  <2>3. ProgressInv(S) /\ TreeInv
    BY <1>5, <2>2 DEF OrderInv, ResultInv
  <2>4. Lasts(S)
    BY <1>0 DEF Lasts, Settled
  <2>5. \A q \in DOMAIN ps' : Progress(S, q)'
    BY <1>0, <1>3, <2>3, <2>4, OthersProgress
  <2> QED BY <1>2, <2>1, <2>2, <2>5 DEF ProgressInv
<1> QED BY <1>1, <1>2, <1>4, <1>5 DEF OrderInv

LEMMA OrderInit ==
    ASSUME Init
    PROVE  OrderInv
<1>1. ResultInv /\ \A S : ProgressInv(S)
  BY ResultInit
<1>2. PICK k \in Proc : /\ ps = [p \in {Top} |-> k] /\ k.job = "top" /\ k.todo = Roots /\ k.pc = "next"
                        /\ k.locked = <<>> /\ k.blocked = <<>> /\ k.cyc = {}
  <2>1. graph \in DOMAIN Graphs
    BY DEF Init
  <2>2. PICK c \in TopCommands : ps = [p \in {Top} |-> Job("top", None, c, Roots, {})]
    BY DEF Init
  <2>3. c \in {"ifchange", "redo", "unlocked", "spawn"} /\ Roots \in Seq(Target)
    BY <2>1, GraphTypes DEF TopCommands
  <2>4. PICK k \in Proc : k = Job("top", None, c, Roots, {})
    BY <2>3, FreshJob
  <2> QED BY <2>2, <2>3, <2>4, FreshJob
<1>3. DOMAIN ps = {Top} /\ ps[Top] = k
  BY <1>2
<1>4. Origins
  <2>1. Range(<<>>) = {} /\ Range(Top) = {}
    BY DEF Range, Top
  <2>2. Stems(Top, k)
    BY <1>2, <2>1 DEF Stems, Lists, Scope
  <2> QED BY <1>3, <2>2 DEF Origins
<1>5. Whole
  BY <1>2, <1>3 DEF Whole
<1>6. Due /\ Supported
  <2>1. \A t \in Target : st[t] = "dirty"
    BY DEF Init
  <2> QED BY <2>1 DEF Due, Supported, Jobs
<1> QED BY <1>1, <1>4, <1>5, <1>6 DEF OrderInv

(* The invariant holds throughout: what a process has on its lists is what *)
(* the target it was started for needs, and on a source tree without       *)
(* cycles every result rests on results.                                   *)
THEOREM OrderCorrect == Spec => []OrderInv
<1>1. OrderInv /\ [Next]_<<vars, graph>> => OrderInv'
  <2>1. SUFFICES ASSUME OrderInv, [Next]_<<vars, graph>> PROVE OrderInv'
    OBVIOUS
  <2>2. CASE UNCHANGED <<vars, graph>>
    BY <2>1, <2>2, OrderStutter
  <2>3. CASE Next
    <3>1. ASSUME NEW p \in DOMAIN ps, Step(p), graph' = graph PROVE OrderInv'
      BY <2>1, <3>1, OrderStep
    <3> QED BY <2>2, <2>3, <3>1 DEF Next
  <2> QED BY <2>1, <2>2, <2>3
<1> QED BY <1>1, OrderInit, PTL DEF Spec

(* The source tree is the same throughout a run. *)
LEMMA StaysAcyclic == Acyclic /\ Spec => []Acyclic
<1>1. Acyclic /\ [Next]_<<vars, graph>> => Acyclic'
  <2>1. [Next]_<<vars, graph>> => graph' = graph
    BY DEF Next
  <2> QED BY <2>1, SameOrder
<1> QED BY <1>1, PTL DEF Spec

(* On a source tree without cycles, a target is recorded as built only     *)
(* when everything it asked for is, and no later failure or rebuild takes  *)
(* that back: whoever built it, found it built or checked it under its     *)
(* lock (run_ifchange's two passes, redo-unlocked, the done callbacks).    *)
THEOREM BuiltFromBuilt == Acyclic /\ Spec => []DepsFirst
<1>1. OrderInv /\ Acyclic => DepsFirst
  <2>1. SUFFICES ASSUME OrderInv, Acyclic, NEW t \in Target, st[t] = "ok", NEW d \in Range(Args[t]) \ Forced
                 PROVE  st[d] = "ok"
    BY DEF DepsFirst
  <2>2. d \in Unforced
    <3>1. graph \in DOMAIN Graphs
      BY <2>1 DEF OrderInv, ResultInv, TreeInv, Shared
    <3> QED BY <2>1, <3>1, ArgsIn DEF Unforced
  <2> QED BY <2>1, <2>2 DEF OrderInv, Supported, Settled
<1> QED BY <1>1, OrderCorrect, StaysAcyclic, PTL

(* On a source tree without cycles, a target that only redo-ifchange asks  *)
(* for is not started again once it was built in the run: its state is     *)
(* read again under the lock (isdirty after Lock::trylock and waitlock).   *)
THEOREM NothingBuiltTwice == Acyclic /\ Spec => BuiltOnce
<1>1. ASSUME OrderInv, Acyclic, [Next]_<<vars, graph>>
      PROVE  [\A t \in Target \ Forced : starts'[t] > starts[t] => st[t] # "ok"]_vars
  <2>0. /\ TreeInv /\ Origins /\ Whole /\ Due /\ starts \in [Target -> Nat]
        /\ \A q \in DOMAIN ps : Through(ps[q])
    BY <1>1 DEF OrderInv, ResultInv, TreeInv, Shared
  <2>1. CASE UNCHANGED vars
    BY <2>1
  <2>2. ASSUME NEW p \in DOMAIN ps, Step(p), NEW t \in Target \ Forced, starts'[t] > starts[t]
        PROVE  st[t] # "ok"
    <3>0. starts'[t] # starts[t]
      <4>1. starts[t] \in Nat
        BY <2>0
      <4> QED BY <2>2, <4>1
    <3>1. \/ MovedAlone(p) \/ MovedForking(p)
          \/ \E C : \E T \in SUBSET Target, r \in Proc : Reaped(p, C, T, r)
      BY <2>0, <2>2, StepResult
    <3>2. CASE MovedAlone(p)
      BY <3>0, <3>2 DEF MovedAlone
    <3>3. CASE MovedForking(p)
      <4>1. PICK k \in Proc, u \in Target :
               Springs(p, u, k) /\ \A w \in Target : w # u => starts'[w] = starts[w]
        BY <3>3 DEF MovedForking
      <4>2. t = u
        BY <3>0, <4>1
      <4> QED BY <2>0, <2>2, <4>1, <4>2, StartDue
    <3>4. ASSUME NEW C, NEW T \in SUBSET Target, NEW r \in Proc, Reaped(p, C, T, r) PROVE FALSE
      BY <3>0, <3>4 DEF Reaped
    <3> QED BY <3>1, <3>2, <3>3, <3>4
  <2> QED BY <1>1, <2>1, <2>2 DEF Next, vars
<1> QED BY <1>1, OrderCorrect, StaysAcyclic, PTL DEF Spec, BuiltOnce

-----------------------------------------------------------------------------
(* REDO_CYCLES.  It names the target of every script above a process, and  *)
(* a process that waits for a lock has looked the target up in it.  The    *)
(* target that redo-unlocked was started for is not in it while            *)
(* redo-unlocked builds the checksummed dependencies; those are what that  *)
(* target asks for.                                                        *)
Calm(r, J) ==
    /\ r.pc \in Awaits => r.cur \notin r.cyc
    /\ r.cmd = "ifchange" => J \subseteq Scope(r)
    /\ r.job = "oob" => OobDeps[r.tgt] = Range(Args[r.tgt])
Named == \A p, a \in DOMAIN ps :
    IsPrefix(a, p) /\ ps[a].job = "do" => ps[a].tgt \in ps[p].cyc
NameInv == Named /\ \A p \in DOMAIN ps : Calm(ps[p], Jobs(p))

(* No checksummed dependency leads back to the target it is one of. *)
NoStampLoop == \A t \in Target : \A d \in OobDeps[t] : ~Under(d, t)

LEMMA CalmOwn ==
    ASSUME Origins, NameInv, NEW p \in DOMAIN ps, NEW r \in Proc, NEW J, Keeps(p, r),
           r.job = ps[p].job, r.tgt = ps[p].tgt, J \subseteq Jobs(p) \cup Lists(ps[p])
    PROVE  Calm(r, J)
<1>1. Calm(ps[p], Jobs(p)) /\ Stems(p, ps[p])
  BY DEF NameInv, Origins
<1>2. r.pc \in Awaits => r.cur \notin r.cyc
  BY <1>1 DEF Calm, Keeps
<1>3. ASSUME r.cmd = "ifchange" PROVE J \subseteq Scope(r)
  <2>1. ps[p].cmd = "ifchange"
    BY <1>3 DEF Keeps
  <2>2. Jobs(p) \subseteq Scope(ps[p]) /\ Lists(ps[p]) \subseteq Scope(ps[p]) /\ Scope(r) = Scope(ps[p])
    BY <1>1, <1>3, <2>1 DEF Calm, Stems, Scope
  <2> QED BY <2>2
<1>4. r.job = "oob" => OobDeps[r.tgt] = Range(Args[r.tgt])
  BY <1>1 DEF Calm
<1> QED BY <1>2, <1>3, <1>4 DEF Calm

(* A step of p that starts no job. *)
LEMMA NameAlone ==
    ASSUME Origins, NameInv, graph' = graph, NEW p \in DOMAIN ps, NEW r \in Proc,
           ps'[p] = r, DOMAIN ps' \subseteq DOMAIN ps, p \in DOMAIN ps',
           \A q \in DOMAIN ps' : q # p => ps'[q] = ps[q] /\ Jobs(q)' = Jobs(q),
           Keeps(p, r), r.job = ps[p].job, r.tgt = ps[p].tgt, Jobs(p)' \subseteq Jobs(p)
    PROVE  NameInv'
<1>0. \A k, J : Calm(k, J)' = Calm(k, J)
  BY DEF Calm, Args, OobDeps, Scope, Roots, Awaits
<1>1. ASSUME NEW q \in DOMAIN ps', NEW a \in DOMAIN ps', IsPrefix(a, q), ps'[a].job = "do"
      PROVE  ps'[a].tgt \in ps'[q].cyc
  <2>1. ps[a].job = "do" /\ ps[a].tgt = ps'[a].tgt /\ ps'[q].cyc = ps[q].cyc
    BY <1>1 DEF Keeps
  <2> QED BY <1>1, <2>1 DEF NameInv, Named
<1>2. Calm(r, Jobs(p)')
  BY CalmOwn
<1>3. \A q \in DOMAIN ps' : Calm(ps'[q], Jobs(q)')
  BY <1>2 DEF NameInv
<1> QED BY <1>0, <1>1, <1>3 DEF NameInv, Named

LEMMA NameForking ==
    ASSUME TreeInv, Closed, Origins, NameInv, graph' = graph, NEW p \in DOMAIN ps, MovedForking(p)
    PROVE  NameInv'
<1>0. /\ p \in Seq(Target) /\ DOMAIN ps \subseteq Seq(Target) /\ \A k, J : Calm(k, J)' = Calm(k, J)
  BY ProcFacts DEF Calm, Args, OobDeps, Scope, Roots, Awaits, TreeInv, Tree
<1>1. PICK r \in Proc, k \in Proc, t \in Target :
         /\ t \notin Jobs(p) /\ Forked(p, r, t, k) /\ Lawful(p, r, Jobs(p) \cup {t})
         /\ Begins(k) /\ Keeps(p, r) /\ Springs(p, t, k)
  BY DEF MovedForking
<1>2. PICK c \in Seq(Target) : c = Append(p, t)
  BY <1>0, AppendFacts
<1>3. /\ DOMAIN ps' = DOMAIN ps \cup {c} /\ ps'[p] = r /\ ps'[c] = k /\ c \notin DOMAIN ps
      /\ \A q \in DOMAIN ps : q # p => ps'[q] = ps[q]
      /\ r.job = ps[p].job /\ r.tgt = ps[p].tgt
  BY <1>1, <1>2, ProcFacts DEF Forked, Jobs, Lawful
<1>4. /\ \A q \in DOMAIN ps : q # p => Jobs(q)' = Jobs(q)
      /\ Jobs(p)' = Jobs(p) \cup {t} /\ Jobs(c)' = {}
  BY <1>1, <1>2, ForkShape
<1>5. /\ k.tgt = t /\ ps[p].cyc \subseteq k.cyc /\ (k.job = "do" => t \in k.cyc)
      /\ k.job = "oob" => OobDeps[t] = Range(Args[t])
      /\ t \in Lists(ps[p]) /\ k.pc = "next" /\ r.cyc = ps[p].cyc
  BY <1>1 DEF Springs, Sprung, Begins, Keeps
<1>6. \A q \in DOMAIN ps : ~IsPrefix(c, q)
  BY <1>2, <1>3 DEF Closed
<1>7. \A a \in DOMAIN ps : IsPrefix(a, c) => IsPrefix(a, p)
  <2>1. ASSUME NEW a \in Seq(Target), a # c, IsPrefix(a, c) PROVE IsPrefix(a, p)
    BY <1>0, <1>2, <2>1, PrefixAppend
  <2> QED BY <1>0, <1>3, <2>1
<1>8. ASSUME NEW q \in DOMAIN ps', NEW a \in DOMAIN ps', IsPrefix(a, q), ps'[a].job = "do"
      PROVE  ps'[a].tgt \in ps'[q].cyc
  <2>1. CASE a = c
    BY <1>3, <1>5, <1>6, <1>8, <2>1
  <2>2. CASE a # c
    <3>1. a \in DOMAIN ps /\ ps[a].job = "do" /\ ps[a].tgt = ps'[a].tgt
      BY <1>3, <1>8, <2>2
    <3>2. CASE q = c
      <4>1. ps[a].tgt \in ps[p].cyc
        BY <1>7, <1>8, <3>1, <3>2 DEF NameInv, Named
      <4> QED BY <1>3, <1>5, <3>1, <3>2, <4>1
    <3>3. CASE q # c
      <4>1. q \in DOMAIN ps /\ ps'[q].cyc = ps[q].cyc
        BY <1>3, <1>5, <1>8, <3>3
      <4> QED BY <1>8, <3>1, <4>1 DEF NameInv, Named
    <3> QED BY <3>2, <3>3
  <2> QED BY <2>1, <2>2
<1>9. Calm(r, Jobs(p)') /\ Calm(k, Jobs(c)')
  <2>1. Calm(r, Jobs(p)')
    BY <1>1, <1>3, <1>4, <1>5, CalmOwn
  <2>2. Calm(k, Jobs(c)')
    BY <1>4, <1>5 DEF Calm, Awaits
  <2> QED BY <2>1, <2>2
<1>10. \A q \in DOMAIN ps' : Calm(ps'[q], Jobs(q)')
  BY <1>3, <1>4, <1>9 DEF NameInv
<1> QED BY <1>0, <1>8, <1>10 DEF NameInv, Named

LEMMA NameStep ==
    ASSUME TreeInv, Closed, Origins, NameInv, graph' = graph, NEW p \in DOMAIN ps,
           \/ MovedAlone(p) \/ MovedForking(p)
           \/ \E C : \E T \in SUBSET Target, r \in Proc : Reaped(p, C, T, r)
    PROVE  NameInv'
<1>1. CASE MovedAlone(p)
  <2>1. PICK r \in Proc : Put(p, r) /\ Lawful(p, r, Jobs(p)) /\ Keeps(p, r)
    BY <1>1 DEF MovedAlone
  <2>2. /\ DOMAIN ps' = DOMAIN ps /\ ps'[p] = r
        /\ \A q \in DOMAIN ps : q # p => ps'[q] = ps[q]
        /\ \A q \in DOMAIN ps : Jobs(q)' = Jobs(q)
    BY <2>1, AloneShape
  <2>3. r.job = ps[p].job /\ r.tgt = ps[p].tgt
    BY <2>1 DEF Lawful
  <2> QED BY <2>1, <2>2, <2>3, NameAlone
<1>2. ASSUME NEW C, NEW T \in SUBSET Target, NEW r \in Proc, Reaped(p, C, T, r) PROVE NameInv'
  <2>1. /\ DOMAIN ps' \subseteq DOMAIN ps /\ p \in DOMAIN ps' /\ ps'[p] = r
        /\ \A q \in DOMAIN ps' : q # p => ps'[q] = ps[q] /\ Jobs(q)' = Jobs(q)
        /\ Jobs(p)' \subseteq Jobs(p) /\ r.job = ps[p].job /\ r.tgt = ps[p].tgt
    BY <1>2 DEF Reaped
  <2>2. Keeps(p, r)
    BY <1>2 DEF Keeps, Reaped, Lists
  <2> QED BY <2>1, <2>2, NameAlone
<1> QED BY <1>1, <1>2, NameForking

LEMMA NameInit ==
    ASSUME Init
    PROVE  NameInv
<1>1. PICK c \in TopCommands : ps = [p \in {Top} |-> Job("top", None, c, Roots, {})]
  BY DEF Init
<1>2. /\ DOMAIN ps = {Top} /\ ps[Top].pc = "next" /\ ps[Top].job = "top"
  BY <1>1 DEF Job
<1>3. Jobs(Top) = {}
  <2>1. Top \in Seq(Target)
    BY EmptySeq DEF Top
  <2>2. \A t \in Target : Append(Top, t) # Top
    BY <2>1, AppendFacts
  <2> QED BY <1>2, <2>2 DEF Jobs
<1>4. \A p \in DOMAIN ps : Calm(ps[p], Jobs(p))
  BY <1>2, <1>3 DEF Calm, Awaits
<1> QED BY <1>2, <1>4 DEF NameInv, Named

(* REDO_CYCLES names the target of every script above a process, through   *)
(* every fork, exec and second pass (exec_dofile_in_child, cycles::add).   *)
LEMMA NamesKept == Spec => []NameInv
<1>1. OrderInv /\ NameInv /\ [Next]_<<vars, graph>> => NameInv'
  <2>1. SUFFICES ASSUME OrderInv, NameInv, [Next]_<<vars, graph>> PROVE NameInv'
    OBVIOUS
  <2>2. CASE UNCHANGED <<vars, graph>>
    <3>1. /\ ps' = ps /\ graph' = graph
      BY <2>2 DEF vars
    <3> QED BY <2>1, <3>1
         DEF NameInv, Named, Calm, Jobs, Scope, Args, OobDeps, Roots, Awaits
  <2>3. ASSUME NEW p \in DOMAIN ps, Step(p), graph' = graph PROVE NameInv'
    <3>1. TreeInv /\ Closed /\ Origins /\ \A q \in DOMAIN ps : Through(ps[q])
      BY <2>1 DEF OrderInv, ResultInv
    <3>2. \/ MovedAlone(p) \/ MovedForking(p)
          \/ \E C : \E T \in SUBSET Target, r \in Proc : Reaped(p, C, T, r)
      BY <2>3, <3>1, StepResult
    <3> QED BY <2>1, <2>3, <3>1, <3>2, NameStep
  <2> QED BY <2>1, <2>2, <2>3 DEF Next
<1> QED BY <1>1, NameInit, OrderCorrect, PTL DEF Spec

(* The target somebody waits for: what it is to the process. *)
LEMMA WaitsFor ==
    ASSUME TreeInv, Origins, NameInv, NEW p \in DOMAIN ps, NEW t \in Target, BlockedOn(p, t)
    PROVE  /\ t \in Scope(ps[p]) /\ t \notin ps[p].cyc /\ ps[p].cmd \in {"ifchange", "redo"}
<1>1. /\ ps[p] \in Proc /\ Shape(ps[p]) /\ ps[p].todo \in Seq(Target) /\ Stems(p, ps[p])
      /\ Calm(ps[p], Jobs(p))
  BY ProcFacts DEF Origins, NameInv, Proc
<1>2. CASE ps[p].pc = "lockwait" /\ ps[p].cur = t
  BY <1>1, <1>2 DEF Stems, Lists, Shape, Calm, Awaits
<1>3. CASE ps[p].cmd = "redo" /\ ps[p].todo # <<>> /\ t = Head(ps[p].todo) /\ t \notin ps[p].cyc
  <2>1. t \in Range(ps[p].todo)
    BY <1>1, <1>3, ListFacts
  <2> QED BY <1>1, <1>3, <2>1 DEF Stems, Lists
<1> QED BY <1>2, <1>3 DEF BlockedOn

LEMMA ShortPrefix ==
    ASSUME NEW b \in Seq(Target), NEW u \in Target,
           IsPrefix(b, Append(Top, u)), b # Append(Top, u)
    PROVE  b = Top
<1>1. PICK e \in Seq(Target) : e = Top /\ Len(e) = 0
  BY EmptySeq DEF Top
<1>2. IsPrefix(b, e)
  <2>1. PICK c \in Seq(Target) : c = Append(e, u)
    BY AppendFacts
  <2>2. IsPrefix(b, c) /\ b # c
    BY <1>1, <2>1
  <2> QED BY <2>1, <2>2, PrefixAppend
<1>3. Len(b) <= Len(e)
  BY <1>2, PrefixFacts
<1>4. Len(b) = 0
  BY <1>1, <1>3
<1> QED BY <1>4, EmptySeq DEF Top

(* Only the toplevel command starts jobs of kind "redo". *)
LEMMA RedoFirst ==
    ASSUME TreeInv, NEW p \in DOMAIN ps, ps[p].job = "redo"
    PROVE  \A a \in DOMAIN ps : a # p /\ a # Top => ~IsPrefix(a, p)
<1>1. p # Top
  BY Rooted
<1>2. PICK q \in DOMAIN ps, u \in Target : p = Append(q, u) /\ ps[p].job \in Kinds(ps[q].cmd)
  BY <1>1, ParentOf
<1>3. ps[q].cmd = "spawn" /\ q = Top
  <2>1. ps[q].cmd = "spawn"
    BY <1>2 DEF Kinds
  <2>2. ps[q].job = "top"
    BY <2>1, ProcFacts DEF Shape
  <2> QED BY <2>1, <2>2, Rooted
<1>4. ASSUME NEW a \in DOMAIN ps, a # p, a # Top, IsPrefix(a, p) PROVE FALSE
  <2>1. a \in Seq(Target)
    BY ProcFacts
  <2> QED BY <1>2, <1>3, <1>4, <2>1, ShortPrefix
<1> QED BY <1>4

LEMMA NobodyWaitsAbove == OrderInv /\ NameInv /\ NoStampLoop => NoAncestorWait
<1>0. SUFFICES ASSUME OrderInv, NameInv, NoStampLoop, NEW p \in DOMAIN ps, NEW t \in Target, BlockedOn(p, t),
                      IsPrefix(Append(owner[t], t), p)
               PROVE  FALSE
  BY DEF NoAncestorWait
<1>1. TreeInv /\ Closed /\ Origins
  BY <1>0 DEF OrderInv, ResultInv
<1>2. PICK o \in DOMAIN ps : o = owner[t]
  <2>1. owner[t] # None /\ owner \in [Target -> DOMAIN ps \cup {None}]
    BY <1>0, <1>1 DEF BlockedOn, TreeInv, Shared
  <2> QED BY <2>1
<1>3. /\ p \in Seq(Target) /\ o \in Seq(Target) /\ LocksOK(o) /\ KidsOK(o) /\ ps[o] \in Proc
  BY <1>1, <1>2, ProcFacts
<1>4. PICK a \in DOMAIN ps : a = Append(o, t) /\ IsPrefix(a, p) /\ a \in Seq(Target)
  <2>1. Append(o, t) \in Seq(Target)
    BY <1>3, AppendFacts
  <2>2. Append(o, t) \in DOMAIN ps
    BY <1>0, <1>1, <1>2, <2>1 DEF Closed
  <2> QED BY <1>0, <1>2, <2>1, <2>2
<1>5. /\ ps[a].tgt = t /\ ps[a].job \in Kinds(ps[o].cmd) /\ t \in Jobs(o) /\ a # Top
  BY <1>3, <1>4, AppendFacts DEF KidsOK, Jobs
<1>6. /\ t \in Scope(ps[p]) /\ t \notin ps[p].cyc /\ ps[p].cmd \in {"ifchange", "redo"}
  BY <1>0, <1>1, WaitsFor
<1>7. ps[a].job # "do"
  BY <1>0, <1>4, <1>5, <1>6 DEF NameInv, Named
<1>8. ps[a].job # "redo"
  <2>1. ps[a].job = "redo" => ps[o].cmd = "spawn"
    BY <1>5 DEF Kinds
  <2> QED BY <1>2, <1>3, <2>1 DEF LocksOK, Owns
<1>9. CASE ps[a].job = "oob"
  <2>1. OobDeps[t] = Range(Args[t])
    BY <1>0, <1>4, <1>5, <1>9 DEF NameInv, Calm
  <2>2. CASE p = a
    <3>1. ps[p].cmd = "ifchange"
      BY <1>1, <1>6, <1>9, <2>2, ProcFacts DEF Shape
    <3>2. t \in OobDeps[t]
      BY <1>5, <1>6, <1>9, <2>1, <2>2, <3>1 DEF Scope
    <3> QED BY <1>0, <3>2 DEF NoStampLoop, Under
  <2>3. CASE p # a
    <3>1. PICK u \in Target, b \in DOMAIN ps : b = Append(a, u) /\ IsPrefix(b, p) /\ u \in Jobs(a) /\ u \in Range(p)
      <4>1. Len(a) <= Len(p) /\ \A i \in 1..Len(a) : a[i] = p[i]
        BY <1>3, <1>4, PrefixFacts
      <4>2. Len(a) # Len(p)
        BY <1>3, <1>4, <2>3, <4>1, SeqEqual
      <4>3. PICK n \in Nat : n = Len(a) /\ n + 1 \in 1..Len(p)
        BY <1>3, <1>4, <4>1, <4>2
      <4>4. PICK u \in Target : u = p[n + 1]
        BY <1>3, <4>3
      <4>5. PICK b \in Seq(Target) : b = Append(a, u)
        BY <1>4, AppendFacts
      <4>6. Len(b) = n + 1 /\ (\A i \in 1..n : b[i] = a[i]) /\ b[n + 1] = u
        BY <1>4, <4>3, <4>5
      <4>7. IsPrefix(b, p)
        <5>1. Len(b) <= Len(p)
          BY <1>3, <4>3, <4>6
        <5>2. \A i \in 1..Len(b) : b[i] = p[i]
          BY <4>1, <4>3, <4>4, <4>6
        <5> QED BY <1>3, <5>1, <5>2, PrefixFacts
      <4>8. b \in DOMAIN ps
        BY <1>1, <4>7 DEF Closed
      <4>9. u \in Range(p) /\ u \in Jobs(a)
        <5>1. n + 1 \in DOMAIN p
          BY <1>3, <4>3
        <5> QED BY <4>4, <4>5, <4>8, <5>1 DEF Range, Jobs
      <4> QED BY <4>5, <4>7, <4>8, <4>9
    <3>2. /\ ps[b].tgt = u /\ ps[b].job \in Kinds(ps[a].cmd) /\ ps[a].cmd \in {"ifchange", "unlocked"}
          /\ Fits(ps[a], Jobs(a)) /\ Shape(ps[a]) /\ ps[a] \in Proc
      BY <1>1, <1>9, <3>1, ProcFacts DEF KidsOK, Shape
    <3>3. CASE ps[a].cmd = "unlocked"
      <4>1. ps[b].job = "do" /\ u = Head(ps[a].todo)
        BY <3>1, <3>2, <3>3 DEF Kinds, Fits
      <4>2. ps[a].todo = <<t>>
        <5>1. ps[a].pc # "exited"
          BY <3>1, <3>2, <3>3 DEF Fits
        <5>2. ~Quiet(ps[a])
          BY <3>1, <3>2 DEF Fits
        <5>3. ps[a].pc = "waitall"
          BY <3>2, <3>3, <5>1, <5>2 DEF Quiet, Shape, Proc
        <5> QED BY <1>5, <3>2, <3>3, <5>3 DEF Shape
      <4>3. u = t
        BY <4>1, <4>2
      <4> QED BY <1>0, <1>6, <3>1, <3>2, <4>1, <4>3 DEF NameInv, Named
    <3>4. CASE ps[a].cmd = "ifchange"
      <4>1. u \in OobDeps[t]
        BY <1>0, <1>4, <1>5, <1>9, <2>1, <3>1, <3>4 DEF NameInv, Calm, Scope
      <4>2. ps[p].job \notin {"redo", "top"} /\ ps[p].tgt \in Target /\ ps[p] \in Proc /\ Shape(ps[p])
        <5>1. p # Top
          BY <1>1, <3>1, Rooted
        <5> QED BY <1>1, <1>4, <1>5, <2>3, <5>1, RedoFirst, Rooted, ProcFacts
      <4>3. t \in Range(Args[ps[p].tgt])
        BY <1>6, <4>2 DEF Scope
      <4>4. Under(u, ps[p].tgt)
        BY <1>1, <3>1 DEF Origins, Stems
      <4>5. Under(u, t)
        BY <4>2, <4>3, <4>4, UnderNext DEF Under
      <4> QED BY <1>0, <4>1, <4>5 DEF NoStampLoop
    <3> QED BY <3>2, <3>3, <3>4
  <2> QED BY <2>2, <2>3
<1> QED BY <1>5, <1>7, <1>8, <1>9 DEF Kinds

(* No process waits in fcntl for the lock of a target that an ancestor     *)
(* holds for it, whatever cycles the source tree has among what scripts    *)
(* ask for with redo and redo-ifchange: REDO_CYCLES names the target, and  *)
(* Lock::check looks there before each wait.  Excepted are the trees where *)
(* a checksummed dependency leads back to its target: redo-unlocked builds *)
(* it without naming the target (builder.rs:1594).                         *)
THEOREM NoWaitForAncestor == NoStampLoop /\ Spec => []NoAncestorWait
<1>1. NoStampLoop /\ [Next]_<<vars, graph>> => NoStampLoop'
  <2>1. [Next]_<<vars, graph>> => graph' = graph
    BY DEF Next
  <2> QED BY <2>1 DEF NoStampLoop, OobDeps, Under, Below, Args
<1> QED BY <1>1, NobodyWaitsAbove, OrderCorrect, NamesKept, PTL DEF Spec

=============================================================================
