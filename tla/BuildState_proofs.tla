------------------------- MODULE BuildState_proofs -------------------------
(***************************************************************************)
(* Proofs about BuildState: types, and who may write a target.  None of    *)
(* the results depends on the verdict of isdirty; they depend on what it   *)
(* may save (Scanned).                                                     *)
(***************************************************************************)
EXTENDS BuildState, WellFoundedInduction, TLAPS

-----------------------------------------------------------------------------
(* The inductive invariant.  Its parts take the state as arguments: F for  *)
(* fs, R for row, D for dep, n for run, s for stack.                       *)

OpSet == [op : {"ifchange", "ifcreate", "always", "stamp"}, on : Seq(Source \cup Target)]

RowFields == {"gen", "over", "checked", "changed", "failed", "stamp", "csum"}
CmdFields == {"cmd", "args", "todo", "rc", "me", "noOob"}
JobFields == {"cmd", "t", "via", "sf", "pc", "do", "ops", "ins", "key", "want", "gens"}
OobFields == {"cmd", "t", "list", "me", "pc"}

(* A row of Files; only a file that was there can be an override. *)
IsRow(r, n) ==
    /\ DOMAIN r = RowFields
    /\ r.gen \in BOOLEAN /\ r.over \in BOOLEAN
    /\ r.checked \in 0..n /\ r.changed \in 0..n /\ r.failed \in 0..n
    /\ r.stamp \in {None} \cup (Nat \X Nat)
    /\ r.over => r.stamp # None

(* No stamp of f is newer than f. *)
Past(r, f, F) == r.stamp # None /\ f # Always => r.stamp[1] <= F[f].mtime

RowFor(r, f, F, n) == IsRow(r, n) /\ Past(r, f, F)

IsFile(g) ==
    /\ DOMAIN g = {"mtime", "ino", "data"}
    /\ g.mtime \in Nat /\ g.ino \in {1, 2}

FsOK(F) ==
    /\ DOMAIN F = Source \cup Target
    /\ \A f \in Source \cup Target :
         IsFile(F[f]) /\ (f \in Source => F[f].data \in Data \cup {None})

RowsOK(R, F, n) ==
    /\ DOMAIN R = File
    /\ \A f \in File : RowFor(R[f], f, F, n)

IsDep(x) == DOMAIN x = {"mode", "del"} /\ x.mode \in {"m", "c"} /\ x.del \in BOOLEAN
IsDeps(g) == DOMAIN g \subseteq File /\ \A f \in DOMAIN g : IsDep(g[f])
DepsOK(D) == DOMAIN D = Source \cup Target /\ \A t \in Source \cup Target : IsDeps(D[t])

IsCmd(f) ==
    /\ DOMAIN f = CmdFields
    /\ f.cmd \in {"ifchange", "redo", "unlocked"}
    /\ f.args \in Seq(File) /\ f.todo \in Seq(File)

IsOob(f) ==
    /\ DOMAIN f = OobFields
    /\ f.cmd = "oob" /\ f.t \in File /\ f.list \in Seq(File)

(* A build.  Until Begin its row is that of the table.  After Begin the    *)
(* copy says override only of a file that was missing then, and the row in *)
(* the table, as long as it has no stamp, says that redo makes the file.   *)
IsJob(f, F, R, n) ==
    /\ DOMAIN f = JobFields
    /\ f.cmd = "job" /\ f.t \in File
    /\ RowFor(f.sf, f.t, F, n)
    /\ f.ops \in Seq(OpSet) /\ f.want \in Seq(File)
    /\ f.pc \notin {"begin", "find"} => f.t \in Target /\ f.do \in ToSet(Cands[f.t])
    /\ f.pc \in {"wait", "read"} => f.ops # <<>>
    /\ f.pc = "begin" => f.sf = R[f.t]
    /\ f.pc # "begin" =>
         /\ f.sf.over /\ f.t # Always => F[f.t].data = None \/ f.sf.stamp[1] < F[f.t].mtime
         /\ R[f.t].stamp # None \/ R[f.t].gen

IsFrame(f, F, R, n) == IsCmd(f) \/ IsOob(f) \/ IsJob(f, F, R, n)

(* A process below the top of the stack waits for the one above it. *)
Waits(f) == f.cmd = "job" => f.pc \in {"wait", "wanted"}

IsSeq(s) == s \in Seq(ToSet(s))
StackOK(s, F, R, n) ==
    /\ IsSeq(s)
    /\ \A i \in 1..Len(s) : IsFrame(s[i], F, R, n)
    /\ \A i \in 1..Len(s) : i < Len(s) => Waits(s[i])

(* What is not committed about a target is at most a scan of isdirty. *)
InSync(R, S) ==
    \A t \in Target : /\ S[t].stamp = R[t].stamp /\ S[t].over = R[t].over
                      /\ R[t].gen => S[t].gen

TablesOK(R, D, S, F, n) ==
    /\ RowsOK(R, F, n) /\ RowsOK(S.row, F, n)
    /\ DepsOK(D) /\ DepsOK(S.dep)
    /\ InSync(R, S.row)

GhostsOK ==
    /\ run \in 0..MaxRuns /\ edits \in 0..MaxEdits
    /\ world \in Data
    /\ manual \subseteq Target /\ built \subseteq Target
    /\ sure \subseteq File /\ adopted \subseteq File

TypeInv ==
    /\ tree \in DOMAIN Trees
    /\ FsOK(fs)
    /\ TablesOK(row, dep, saved, fs, run)
    /\ StackOK(stack, fs, row, run)
    /\ GhostsOK

(* Redo's own output: a target that exists, and that neither the user      *)
(* wrote nor redo took for a source, has a row that says so, except        *)
(* between the rename and the commit of a build.                           *)
Own(r, mtime) == r.gen /\ ~r.over /\ (r.stamp = None \/ r.stamp[1] = mtime)
Window(s, t) == s # <<>> /\ Last(s).cmd = "job" /\ Last(s).pc \in {"record", "hit"} /\ Last(s).t = t
OwnInv ==
    \A t \in Target \ (manual \cup adopted) :
        fs[t].data # None => Window(stack, t) \/ Own(row[t], fs[t].mtime)

(* What the user wrote is there and its row shows it; no build of it is    *)
(* under way; and if nothing crashes, a target without a stamp is not      *)
(* redo's unless a build of it is under way.                               *)
Lives(f, t) == f.cmd = "job" /\ f.pc # "begin" /\ f.t = t
Building(s, t) == \E i \in 1..Len(s) : Lives(s[i], t)
HandInv ==
    /\ \A t \in manual : /\ fs[t].data # None /\ ~Building(stack, t)
                         /\ row[t].gen /\ ~row[t].over =>
                               row[t].stamp # None /\ row[t].stamp[1] < fs[t].mtime
    /\ May("Crashes") => manual = {}
    /\ ~May("Crashes") => \A t \in Target : row[t].gen /\ row[t].stamp = None => Building(stack, t)

-----------------------------------------------------------------------------
(* Induction over the natural numbers, for a set of them. *)
LEMMA NatSetInduction ==
    ASSUME NEW P \in SUBSET Nat, 0 \in P, \A n \in P : n + 1 \in P
    PROVE  P = Nat
<1> DEFINE R == OpToRel(<, Nat)
           Q == Nat \ P
<1>1. \A a, b \in Nat : a < b => <<a, b>> \in R
  BY DEF OpToRel
<1>2. IsWellFoundedOn(R, Nat)
  BY NatLessThanWellFounded
<1>3. SUFFICES ASSUME Q # {} PROVE FALSE
  OBVIOUS
<1>4. Q \subseteq Nat
  OBVIOUS
<1> HIDE DEF R
<1>5. PICK x \in Q : \A y \in Q : ~(<<y, x>> \in R)
  <2> HIDE DEF Q
  <2> QED BY <1>2, <1>3, <1>4, WFMin
<1>6. x # 0 /\ x - 1 \in Nat /\ x - 1 < x /\ x \in Nat /\ (x - 1) + 1 = x
  OBVIOUS
<1>7. <<x - 1, x>> \in R
  BY <1>1, <1>6
<1>8. x - 1 \in P
  BY <1>5, <1>6, <1>7
<1> QED
  BY <1>6, <1>8

(* The recursion of InOrder, and that it has a solution of every length. *)
Sel(q, S, g, i) ==
    IF i = 0 THEN <<>> ELSE IF q[i] \in S THEN Append(g[i - 1], q[i]) ELSE g[i - 1]

LEMMA InOrderExists ==
    ASSUME NEW S, NEW q, NEW N \in Nat
    PROVE  \E g : g = [i \in 0..N |-> Sel(q, S, g, i)]
<1> USE DEF Sel
<1> DEFINE Step(g, i) == Sel(q, S, g, i)
           P == {n \in Nat : \E g : g = [i \in 0..n |-> Step(g, i)]}
<1>1. 0 \in P
  <2> DEFINE g == [i \in 0..0 |-> <<>>]
  <2>1. g = [i \in 0..0 |-> Step(g, i)]
    OBVIOUS
  <2> QED
    BY <2>1
<1>2. ASSUME NEW n \in P PROVE n + 1 \in P
  <2>1. PICK g : g = [i \in 0..n |-> Step(g, i)]
    OBVIOUS
  <2> DEFINE h == [i \in 0..(n + 1) |-> IF i = n + 1 THEN Step(g, i) ELSE g[i]]
  <2>2. \A i \in 0..(n + 1) : h[i] = Step(h, i)
    <3> SUFFICES ASSUME NEW i \in 0..(n + 1) PROVE h[i] = Step(h, i)
      OBVIOUS
    <3>1. CASE i = 0
      BY <3>1, <2>1
    <3>2. CASE i # 0 /\ i # n + 1
      <4>1. i \in 0..n /\ i - 1 \in 0..n /\ i - 1 # n + 1
        BY <3>2
      <4>2. h[i] = g[i] /\ h[i - 1] = g[i - 1]
        BY <4>1, <3>2
      <4>3. g[i] = Step(g, i)
        BY <4>1, <2>1
      <4> QED
        BY <4>2, <4>3
    <3>3. CASE i = n + 1
      <4>1. i - 1 \in 0..n /\ i - 1 \in 0..(n + 1) /\ i - 1 # n + 1
        BY <3>3
      <4>2. h[i] = Step(g, i) /\ h[i - 1] = g[i - 1]
        BY <3>3, <4>1
      <4> QED
        BY <4>2
    <3> QED
      BY <3>1, <3>2, <3>3
  <2>3. h = [i \in 0..(n + 1) |-> Step(h, i)]
    BY <2>2
  <2>4. n + 1 \in Nat /\ \E k : k = [i \in 0..(n + 1) |-> Step(k, i)]
    <3> HIDE DEF h
    <3> QED BY <2>3
  <2> QED
    BY <2>4
<1>3. P = Nat
  <2> HIDE DEF P
  <2>1. P \in SUBSET Nat
    BY DEF P
  <2> QED
    BY <1>1, <1>2, <2>1, NatSetInduction
<1> QED
  BY <1>3

(* InOrder only lists files of Order. *)
LEMMA InOrderType ==
    ASSUME NEW S, Order \in Seq(File)
    PROVE  InOrder(S) \in Seq(File)
<1> DEFINE N == Len(Order)
           Step(g, i) == Sel(Order, S, g, i)
           sel == CHOOSE g : g = [i \in 0..N |-> Step(g, i)]
           P == {n \in Nat : n <= N => sel[n] \in Seq(File)}
<1>0. N \in Nat
  OBVIOUS
<1>1. sel = [i \in 0..N |-> Step(sel, i)]
  <2>1. \E g : g = [i \in 0..N |-> Step(g, i)]
    <3>1. \A q : \A M \in Nat : \E g : g = [i \in 0..M |-> Sel(q, S, g, i)]
      BY InOrderExists
    <3> HIDE DEF N
    <3> QED BY <1>0, <3>1, Zenon
  <2> QED
    <3> HIDE DEF N, Step
    <3> QED BY <2>1
<1>2. \A i \in 0..N : sel[i] = Step(sel, i)
  BY <1>1
<1> HIDE DEF sel
<1>3. 0 \in P
  <2>1. sel[0] = <<>>
    BY <1>0, <1>2 DEF Sel
  <2>2. sel[0] \in Seq(File)
    BY <2>1
  <2> QED
    BY <2>2
<1>4. ASSUME NEW n \in P PROVE n + 1 \in P
  <2> SUFFICES ASSUME n + 1 <= N PROVE sel[n + 1] \in Seq(File)
    OBVIOUS
  <2>1. n + 1 \in 0..N /\ n \in 0..N /\ (n + 1) - 1 = n /\ n + 1 \in 1..N
    OBVIOUS
  <2>2. sel[n] \in Seq(File) /\ Order[n + 1] \in File
    BY <2>1
  <2>3. sel[n + 1] = IF Order[n + 1] \in S THEN Append(sel[n], Order[n + 1]) ELSE sel[n]
    BY <2>1, <1>2 DEF Sel
  <2> QED
    BY <2>2, <2>3
<1>5. P = Nat
  <2> HIDE DEF P
  <2>1. P \in SUBSET Nat
    BY DEF P
  <2> QED
    BY <1>3, <1>4, <2>1, NatSetInduction
<1>6. N \in Nat /\ sel[N] \in Seq(File)
  BY <1>5
<1> QED
  BY <1>6 DEF InOrder, sel, Sel

-----------------------------------------------------------------------------
(* What is assumed about the source tree. *)
LEMMA TreeFacts ==
    ASSUME tree \in DOMAIN Trees
    PROVE  /\ Phony \cup Flaky \cup HandEdited \subseteq Target
           /\ Source \cap Target = {} /\ Always \notin Source \cup Target
           /\ Order \in Seq(File)
           /\ \A t \in Target : Cands[t] \in Seq(Source) /\ Cands[t] # <<>>
           /\ \A f \in Source \cup {Always} : Cands[f] = <<>>
           /\ \A t \in Target : \A do \in ToSet(Cands[t]) : \A v \in Data : Script[do][v] \in Seq(OpSet)
           /\ Commands \subseteq [cmd : {"ifchange", "redo"}, args : Seq(Source \cup Target)]
  BY BuildStateAssumption
     DEF Source, Target, Order, Cands, Script, Phony, Flaky, Commands, HandEdited, File, OpSet

(* The constants that are no data. *)
LEMMA ConstFacts ==
    /\ MaxRuns \in Nat /\ MaxEdits \in Nat
    /\ 0 \in Data /\ None \notin Data /\ Hand # None /\ None \notin Nat \X Nat
  BY BuildStateAssumption

-----------------------------------------------------------------------------
(* Sequences: replacing, covering and dropping the last element. *)
LEMMA SeqOwn ==
    ASSUME NEW S, NEW s \in Seq(S)
    PROVE  IsSeq(s)
  BY DEF IsSeq, ToSet

LEMMA SeqFacts ==
    ASSUME NEW s, IsSeq(s)
    PROVE  /\ Len(s) \in Nat /\ DOMAIN s = 1..Len(s)
           /\ s # <<>> => Len(s) \in 1..Len(s) /\ Last(s) = s[Len(s)]
           /\ s = <<>> => Len(s) = 0
           /\ Len(s) = 0 => s = <<>>
  BY DEF IsSeq, Last

LEMMA SubSeqFacts ==
    ASSUME NEW S, NEW s \in Seq(S), NEW n \in 0..Len(s)
    PROVE  /\ SubSeq(s, 1, n) \in Seq(S) /\ Len(SubSeq(s, 1, n)) = n
           /\ \A i \in 1..n : SubSeq(s, 1, n)[i] = s[i]
  OBVIOUS

LEMMA FrontFacts ==
    ASSUME NEW s, IsSeq(s), s # <<>>
    PROVE  /\ IsSeq(Front(s)) /\ Len(Front(s)) = Len(s) - 1
           /\ \A i \in 1..(Len(s) - 1) : Front(s)[i] = s[i]
<1> DEFINE S == ToSet(s)
           n == Len(s) - 1
<1>1. s \in Seq(S) /\ n \in 0..Len(s)
  BY SeqFacts DEF IsSeq
<1>2. Front(s) = SubSeq(s, 1, n)
  BY DEF Front
<1> HIDE DEF S, n
<1>3. /\ SubSeq(s, 1, n) \in Seq(S) /\ Len(SubSeq(s, 1, n)) = n
      /\ \A i \in 1..n : SubSeq(s, 1, n)[i] = s[i]
  BY <1>1, SubSeqFacts
<1>4. IsSeq(Front(s)) /\ Len(Front(s)) = n /\ \A i \in 1..n : Front(s)[i] = s[i]
  BY <1>2, <1>3, SeqOwn
<1> QED
  BY <1>4 DEF n

LEMMA AppendFacts ==
    ASSUME NEW s, IsSeq(s), NEW x
    PROVE  /\ IsSeq(Append(s, x)) /\ Len(Append(s, x)) = Len(s) + 1
           /\ \A i \in 1..Len(s) : Append(s, x)[i] = s[i]
           /\ Append(s, x)[Len(s) + 1] = x
           /\ Append(s, x) # <<>>
<1>1. s \in Seq(ToSet(s)) /\ Len(s) \in Nat
  BY SeqFacts DEF IsSeq
<1> DEFINE S == ToSet(s) \cup {x}
<1>2. s \in Seq(S)
  BY <1>1 DEF ToSet
<1> HIDE DEF S
<1>3. x \in S
  BY DEF S
<1>4. Append(s, x) \in Seq(S) /\ Len(Append(s, x)) = Len(s) + 1
  BY <1>2, <1>3
<1>5. IsSeq(Append(s, x))
  BY <1>4, SeqOwn
<1> QED
  BY <1>1, <1>2, <1>3, <1>4, <1>5

LEMMA PutFacts ==
    ASSUME NEW s, IsSeq(s), s # <<>>, NEW x
    PROVE  LET p == Append(Front(s), x) IN
           /\ IsSeq(p) /\ p # <<>> /\ Len(p) = Len(s)
           /\ p[Len(s)] = x /\ Last(p) = x
           /\ \A i \in 1..(Len(s) - 1) : p[i] = s[i]
<1> DEFINE p == Append(Front(s), x)
<1>1. Len(s) \in Nat /\ Len(s) # 0
  BY SeqFacts
<1>2. IsSeq(Front(s)) /\ Len(Front(s)) = Len(s) - 1 /\ \A i \in 1..(Len(s) - 1) : Front(s)[i] = s[i]
  BY FrontFacts
<1>3. IsSeq(p) /\ Len(p) = Len(s) /\ p # <<>> /\ p[Len(s)] = x
      /\ \A i \in 1..(Len(s) - 1) : p[i] = s[i]
  BY <1>1, <1>2, AppendFacts
<1>4. Last(p) = x
  BY <1>3 DEF Last
<1> QED
  BY <1>3, <1>4

-----------------------------------------------------------------------------
(* The operations on rows, in a state with well-typed files. *)
Sane == tree \in DOMAIN Trees /\ FsOK(fs) /\ run \in Nat

LEMMA StampFacts ==
    ASSUME Sane, NEW f \in File
    PROVE  /\ Stamp(f) \in Nat \X Nat /\ Stamp(f) # None
           /\ Stamp(f)[1] \in Nat
           /\ f # Always => f \in Source \cup Target /\ fs[f].mtime \in Nat /\ Stamp(f)[1] <= fs[f].mtime
           /\ Exists(f) => Stamp(f)[1] = fs[f].mtime
           /\ Exists(f) \in BOOLEAN
<1>1. f # Always => f \in Source \cup Target /\ fs[f].mtime \in Nat /\ fs[f].ino \in Nat
  BY DEF Sane, FsOK, IsFile, File
<1>2. Stamp(f) \in Nat \X Nat
  BY <1>1 DEF Stamp, Exists, Missing
<1>3. Stamp(f) # None
  BY <1>2, ConstFacts
<1>4. Stamp(f)[1] \in Nat
  BY <1>2
<1>5. f # Always => Stamp(f)[1] <= fs[f].mtime
  BY <1>1 DEF Stamp, Exists, Missing
<1> QED
  BY <1>1, <1>2, <1>3, <1>4, <1>5 DEF Stamp, Exists

LEMMA SetStampFacts ==
    ASSUME Sane, NEW f \in File, NEW r, RowFor(r, f, fs, run), NEW q, q = [r EXCEPT !.stamp = Stamp(f)]
    PROVE  RowFor(q, f, fs, run) /\ q.stamp = Stamp(f) /\ q.gen = r.gen /\ q.over = r.over
<1>1. /\ DOMAIN q = RowFields /\ q.gen = r.gen /\ q.over = r.over /\ q.stamp = Stamp(f)
      /\ q.checked = r.checked /\ q.changed = r.changed /\ q.failed = r.failed
  BY DEF RowFor, IsRow, RowFields
<1>2. IsRow(q, run)
  BY <1>1, StampFacts DEF RowFor, IsRow
<1>3. Past(q, f, fs)
  BY <1>1, StampFacts DEF Past
<1> QED
  BY <1>1, <1>2, <1>3 DEF RowFor

LEMMA SetChangedFacts ==
    ASSUME Sane, NEW f, NEW r, RowFor(r, f, fs, run)
    PROVE  /\ RowFor(SetChanged(r), f, fs, run) /\ SetChanged(r).stamp = r.stamp
           /\ SetChanged(r).gen = r.gen /\ SetChanged(r).over = FALSE
           /\ SetChanged(r).csum = r.csum
<1> DEFINE q == SetChanged(r)
<1>1. /\ DOMAIN q = RowFields /\ q.gen = r.gen /\ q.over = FALSE /\ q.stamp = r.stamp
      /\ q.checked = r.checked /\ q.changed = run /\ q.failed = 0 /\ q.csum = r.csum
  BY DEF RowFor, IsRow, RowFields, SetChanged
<1> HIDE DEF q
<1>0. run \in 0..run /\ 0 \in 0..run
  BY DEF Sane
<1>2. IsRow(q, run)
  BY <1>0, <1>1 DEF RowFor, IsRow
<1>3. Past(q, f, fs)
  BY <1>1 DEF RowFor, Past
<1> QED
  BY <1>1, <1>2, <1>3 DEF RowFor, q

LEMMA UpdateStampFacts ==
    ASSUME Sane, NEW f \in File, NEW r, RowFor(r, f, fs, run)
    PROVE  /\ RowFor(UpdateStamp(r, f), f, fs, run)
           /\ UpdateStamp(r, f).stamp = Stamp(f) /\ UpdateStamp(r, f).gen = r.gen
           /\ UpdateStamp(r, f).over => r.over /\ r.stamp = Stamp(f)
<1>1. CASE r.stamp = Stamp(f)
  BY <1>1 DEF UpdateStamp
<1>2. CASE r.stamp # Stamp(f)
  <2>1. PICK q : q = [r EXCEPT !.stamp = Stamp(f)]
    OBVIOUS
  <2>2. RowFor(q, f, fs, run) /\ q.stamp = Stamp(f) /\ q.gen = r.gen
    BY <2>1, SetStampFacts
  <2>3. UpdateStamp(r, f) = SetChanged(q)
    BY <1>2, <2>1 DEF UpdateStamp
  <2> QED
    BY <2>2, <2>3, SetChangedFacts
<1> QED
  BY <1>1, <1>2

(* A change of flags and of the runids 0 and run leaves a row a row. *)
LEMMA FlagFacts ==
    ASSUME Sane, NEW f, NEW r, RowFor(r, f, fs, run),
           NEW q, DOMAIN q = RowFields, q.stamp = r.stamp,
           q.gen \in BOOLEAN, q.over \in BOOLEAN, q.over => r.stamp # None,
           q.checked \in {0, run, r.checked}, q.changed \in {0, run, r.changed},
           q.failed \in {0, run, r.failed}
    PROVE  RowFor(q, f, fs, run)
<1>1. IsRow(q, run)
  BY DEF RowFor, IsRow, Sane
<1> QED
  BY <1>1 DEF RowFor, Past

LEMMA SetFailedFacts ==
    ASSUME Sane, NEW f \in File, NEW r, RowFor(r, f, fs, run)
    PROVE  /\ RowFor(SetFailed(r, f), f, fs, run)
           /\ SetFailed(r, f).stamp = Stamp(f) /\ SetFailed(r, f).gen = Exists(f)
           /\ SetFailed(r, f).over => r.over /\ r.stamp = Stamp(f)
<1>1. PICK u : u = UpdateStamp(r, f)
  OBVIOUS
<1>2. PICK q : q = SetFailed(r, f)
  OBVIOUS
<1>3. RowFor(u, f, fs, run) /\ u.stamp = Stamp(f) /\ (u.over => r.over /\ r.stamp = Stamp(f))
  BY <1>1, UpdateStampFacts
<1>4. /\ DOMAIN q = RowFields /\ q.stamp = u.stamp /\ q.gen = Exists(f) /\ q.over = u.over
      /\ q.checked = u.checked /\ q.changed = u.changed /\ q.failed = run
  BY <1>1, <1>2, <1>3 DEF SetFailed, RowFor, IsRow, RowFields
<1>5. Exists(f) \in BOOLEAN
  BY StampFacts
<1>6. u.over \in BOOLEAN /\ (u.over => u.stamp # None)
  BY <1>3 DEF RowFor, IsRow
<1>7. RowFor(q, f, fs, run)
  BY <1>3, <1>4, <1>5, <1>6, FlagFacts
<1> QED
  BY <1>2, <1>3, <1>4, <1>7

LEMMA SetStaticFacts ==
    ASSUME Sane, NEW f \in File, NEW r, RowFor(r, f, fs, run)
    PROVE  /\ RowFor(SetStatic(r, f), f, fs, run)
           /\ SetStatic(r, f).stamp = Stamp(f)
           /\ SetStatic(r, f).gen = FALSE /\ SetStatic(r, f).over = FALSE
<1>1. PICK u : u = UpdateStamp(r, f)
  OBVIOUS
<1>2. PICK q : q = SetStatic(r, f)
  OBVIOUS
<1>3. RowFor(u, f, fs, run) /\ u.stamp = Stamp(f)
  BY <1>1, UpdateStampFacts
<1>4. /\ DOMAIN q = RowFields /\ q.stamp = u.stamp /\ q.gen = FALSE /\ q.over = FALSE
      /\ q.checked = u.checked /\ q.changed = u.changed /\ q.failed = 0
  BY <1>1, <1>2, <1>3 DEF SetStatic, RowFor, IsRow, RowFields
<1>5. RowFor(q, f, fs, run)
  BY <1>3, <1>4, FlagFacts
<1> QED
  BY <1>2, <1>3, <1>4, <1>5

LEMMA SetOverrideFacts ==
    ASSUME Sane, NEW f \in File, NEW r, RowFor(r, f, fs, run)
    PROVE  /\ RowFor(SetOverride(r, f), f, fs, run)
           /\ SetOverride(r, f).stamp = Stamp(f) /\ SetOverride(r, f).over = TRUE
           /\ SetOverride(r, f).gen = r.gen
<1>1. PICK u : u = UpdateStamp(r, f)
  OBVIOUS
<1>2. PICK q : q = SetOverride(r, f)
  OBVIOUS
<1>3. RowFor(u, f, fs, run) /\ u.stamp = Stamp(f) /\ u.gen = r.gen
  BY <1>1, UpdateStampFacts
<1>4. /\ DOMAIN q = RowFields /\ q.stamp = u.stamp /\ q.gen = u.gen /\ q.over = TRUE
      /\ q.checked = u.checked /\ q.changed = u.changed /\ q.failed = 0
  BY <1>1, <1>2, <1>3 DEF SetOverride, RowFor, IsRow, RowFields
<1>5. u.gen \in BOOLEAN /\ u.stamp # None
  BY <1>3, StampFacts DEF RowFor, IsRow
<1>6. RowFor(q, f, fs, run)
  BY <1>3, <1>4, <1>5, FlagFacts
<1> QED
  BY <1>2, <1>3, <1>4, <1>6

(* After the intent the row says that redo makes the file, unless it is    *)
(* there.                                                                  *)
LEMMA IntentFacts ==
    ASSUME Sane, NEW f \in File, NEW r, RowFor(r, f, fs, run)
    PROVE  /\ RowFor(Intent(r, f), f, fs, run)
           /\ Intent(r, f).stamp = r.stamp /\ (Intent(r, f).over => r.over)
           /\ r.gen \/ ~Exists(f) => Intent(r, f).gen
<1>1. PICK q : q = Intent(r, f)
  OBVIOUS
<1>2. CASE Exists(f) \/ r.gen
  BY <1>2 DEF Intent
<1>3. CASE ~(Exists(f) \/ r.gen)
  <2>1. /\ DOMAIN q = RowFields /\ q.stamp = r.stamp /\ q.gen = TRUE /\ q.over = FALSE
        /\ q.checked = r.checked /\ q.changed = r.changed /\ q.failed = r.failed
    BY <1>1, <1>3 DEF Intent, RowFor, IsRow, RowFields
  <2>2. RowFor(q, f, fs, run)
    BY <2>1, FlagFacts
  <2> QED
    BY <1>1, <2>1, <2>2
<1> QED
  BY <1>2, <1>3

LEMMA StampRowFacts ==
    ASSUME Sane, NEW f \in File, NEW r, RowFor(r, f, fs, run), NEW sum
    PROVE  /\ RowFor(StampRow(r, sum), f, fs, run)
           /\ StampRow(r, sum).stamp = r.stamp
           /\ StampRow(r, sum).gen = TRUE /\ StampRow(r, sum).over = FALSE
<1>1. PICK g : g = [r EXCEPT !.gen = TRUE, !.over = FALSE, !.failed = 0]
  OBVIOUS
<1>2. PICK q : q = StampRow(r, sum)
  OBVIOUS
<1>3. /\ DOMAIN g = RowFields /\ g.stamp = r.stamp /\ g.gen = TRUE /\ g.over = FALSE
      /\ g.checked = r.checked /\ g.changed = r.changed /\ g.failed = 0
  BY <1>1 DEF RowFor, IsRow, RowFields
<1>4. RowFor(g, f, fs, run)
  BY <1>3, FlagFacts
<1>5. CASE r.csum # sum
  <2>1. PICK c : c = SetChanged(g)
    OBVIOUS
  <2>2. RowFor(c, f, fs, run) /\ c.stamp = g.stamp /\ c.gen = g.gen /\ c.over = FALSE
    BY <1>4, <2>1, SetChangedFacts
  <2>3. q = [c EXCEPT !.csum = sum]
    BY <1>1, <1>2, <1>5, <2>1 DEF StampRow
  <2>4. /\ DOMAIN q = RowFields /\ q.stamp = c.stamp /\ q.gen = c.gen /\ q.over = c.over
        /\ q.checked = c.checked /\ q.changed = c.changed /\ q.failed = c.failed
    BY <2>2, <2>3 DEF RowFor, IsRow, RowFields
  <2>5. RowFor(q, f, fs, run)
    BY <1>3, <2>2, <2>4, FlagFacts
  <2> QED
    BY <1>2, <1>3, <2>2, <2>4, <2>5
<1>6. CASE r.csum = sum
  <2>1. q = [g EXCEPT !.checked = run]
    BY <1>1, <1>2, <1>6 DEF StampRow
  <2>2. /\ DOMAIN q = RowFields /\ q.stamp = g.stamp /\ q.gen = g.gen /\ q.over = g.over
        /\ q.checked = run /\ q.changed = g.changed /\ q.failed = g.failed
    BY <1>3, <2>1 DEF RowFields
  <2>3. RowFor(q, f, fs, run)
    BY <1>3, <1>4, <2>2, FlagFacts
  <2> QED
    BY <1>2, <1>3, <2>2, <2>3
<1> QED
  BY <1>5, <1>6

LEMMA RecordedFacts ==
    ASSUME Sane, NEW f \in File, NEW r, RowFor(r, f, fs, run)
    PROVE  /\ RowFor(Recorded(r, f), f, fs, run)
           /\ Recorded(r, f).stamp = Stamp(f)
           /\ Recorded(r, f).gen = TRUE /\ Recorded(r, f).over = FALSE
<1>1. PICK g : g = [r EXCEPT !.gen = TRUE, !.over = FALSE]
  OBVIOUS
<1>2. PICK q : q = Recorded(r, f)
  OBVIOUS
<1>3. /\ DOMAIN g = RowFields /\ g.stamp = r.stamp /\ g.gen = TRUE /\ g.over = FALSE
      /\ g.checked = r.checked /\ g.changed = r.changed /\ g.failed = r.failed
  BY <1>1 DEF RowFor, IsRow, RowFields
<1>4. RowFor(g, f, fs, run)
  BY <1>3, FlagFacts
<1>5. CASE g.checked >= run \/ g.changed >= run
  <2>1. q = [g EXCEPT !.stamp = Stamp(f)]
    BY <1>1, <1>2, <1>5 DEF Recorded
  <2> QED
    BY <1>2, <1>3, <1>4, <2>1, SetStampFacts
<1>6. CASE ~(g.checked >= run \/ g.changed >= run)
  <2>1. PICK c : c = [g EXCEPT !.csum = None]
    OBVIOUS
  <2>2. /\ DOMAIN c = RowFields /\ c.stamp = g.stamp /\ c.gen = g.gen /\ c.over = g.over
        /\ c.checked = g.checked /\ c.changed = g.changed /\ c.failed = g.failed
    BY <1>3, <2>1 DEF RowFields
  <2>3. RowFor(c, f, fs, run)
    BY <1>3, <1>4, <2>2, FlagFacts
  <2>4. PICK u : u = UpdateStamp(c, f)
    OBVIOUS
  <2>5. RowFor(u, f, fs, run) /\ u.stamp = Stamp(f) /\ u.gen = c.gen
    BY <2>3, <2>4, UpdateStampFacts
  <2>6. q = SetChanged(u)
    BY <1>1, <1>2, <1>6, <2>1, <2>4 DEF Recorded
  <2> QED
    <3>1. RowFor(q, f, fs, run) /\ q.stamp = u.stamp /\ q.gen = u.gen /\ q.over = FALSE
      BY <2>5, <2>6, SetChangedFacts
    <3> QED
      BY <1>2, <1>3, <2>2, <2>5, <3>1
<1> QED
  BY <1>5, <1>6

(* What a cache hit records. *)
HitRow(r) == [r EXCEPT !.gen = TRUE, !.over = FALSE, !.failed = 0, !.csum = None]
LEMMA HitRowFacts ==
    ASSUME Sane, NEW f \in File, NEW r, RowFor(r, f, fs, run)
    PROVE  /\ RowFor(UpdateStamp(HitRow(r), f), f, fs, run)
           /\ UpdateStamp(HitRow(r), f).stamp = Stamp(f)
           /\ UpdateStamp(HitRow(r), f).gen = TRUE /\ ~UpdateStamp(HitRow(r), f).over
<1>1. PICK g : g = HitRow(r)
  OBVIOUS
<1>2. /\ DOMAIN g = RowFields /\ g.stamp = r.stamp /\ g.gen = TRUE /\ g.over = FALSE
      /\ g.checked = r.checked /\ g.changed = r.changed /\ g.failed = 0
  BY <1>1 DEF RowFor, IsRow, RowFields, HitRow
<1>3. RowFor(g, f, fs, run)
  BY <1>2, FlagFacts
<1> QED
  BY <1>1, <1>2, <1>3, UpdateStampFacts

(* What redo-always saves of //ALWAYS. *)
AlwaysRow(r) == SetChanged([r EXCEPT !.stamp = Missing, !.gen = FALSE])
LEMMA AlwaysRowFacts ==
    ASSUME Sane, NEW r, RowFor(r, Always, fs, run)
    PROVE  RowFor(AlwaysRow(r), Always, fs, run) /\ AlwaysRow(r).stamp # None
<1>1. PICK g : g = [r EXCEPT !.stamp = Missing, !.gen = FALSE]
  OBVIOUS
<1>2. /\ DOMAIN g = RowFields /\ g.stamp = Missing /\ g.gen = FALSE /\ g.over = r.over
      /\ g.checked = r.checked /\ g.changed = r.changed /\ g.failed = r.failed
  BY <1>1 DEF RowFor, IsRow, RowFields
<1>3. Missing \in Nat \X Nat /\ Missing # None
  BY ConstFacts DEF Missing
<1>4. IsRow(g, run)
  BY <1>2, <1>3 DEF RowFor, IsRow
<1>5. RowFor(g, Always, fs, run)
  BY <1>4 DEF RowFor, Past
<1> QED
  BY <1>1, <1>2, <1>3, <1>5, SetChangedFacts DEF AlwaysRow

(* What isdirty may do to a row: mark it checked, or, of a missing file    *)
(* with a stamp, take away gen.                                            *)
LEMMA ScannedFacts ==
    ASSUME Sane, RowsOK(row, fs, run), NEW a, NEW rw, rw = Scanned(a)
    PROVE  /\ RowsOK(rw, fs, run)
           /\ \A f \in File :
                /\ rw[f].stamp = row[f].stamp /\ rw[f].over = row[f].over
                /\ rw[f].gen => row[f].gen
                /\ row[f].gen => rw[f].gen \/ (row[f].stamp # None /\ ~Exists(f))
<1>1. DOMAIN rw = File
  BY DEF Scanned
<1>2. ASSUME NEW f \in File
      PROVE  /\ RowFor(rw[f], f, fs, run)
             /\ rw[f].stamp = row[f].stamp /\ rw[f].over = row[f].over
             /\ rw[f].gen => row[f].gen
             /\ row[f].gen => rw[f].gen \/ (row[f].stamp # None /\ ~Exists(f))
  <2>1. RowFor(row[f], f, fs, run)
    BY DEF RowsOK
  <2>2. CASE f \in a.done
    <3>1. PICK q : q = FromRow(row, f)
      OBVIOUS
    <3>2. /\ DOMAIN q = RowFields /\ q.stamp = row[f].stamp /\ q.gen = row[f].gen
          /\ q.over = row[f].over /\ q.checked = row[f].checked /\ q.failed = row[f].failed
          /\ q.changed \in {run, row[f].changed}
      BY <2>1, <3>1 DEF FromRow, RowFor, IsRow, RowFields
    <3>3. rw[f] = [q EXCEPT !.checked = run]
      BY <2>2, <3>1 DEF Scanned
    <3>4. /\ DOMAIN rw[f] = RowFields /\ rw[f].stamp = row[f].stamp /\ rw[f].gen = row[f].gen
          /\ rw[f].over = row[f].over /\ rw[f].checked = run /\ rw[f].failed = row[f].failed
          /\ rw[f].changed \in {run, row[f].changed}
      BY <3>2, <3>3 DEF RowFields
    <3>5. row[f].gen \in BOOLEAN /\ row[f].over \in BOOLEAN /\ (row[f].over => row[f].stamp # None)
      BY <2>1 DEF RowFor, IsRow
    <3>6. RowFor(rw[f], f, fs, run)
      BY <2>1, <3>4, <3>5, FlagFacts
    <3> QED
      BY <3>4, <3>6
  <2>3. CASE f \notin a.done /\ f \in a.stale /\ Vanished(f)
    <3>1. rw[f] = [row[f] EXCEPT !.gen = FALSE]
      BY <2>3 DEF Scanned
    <3>2. /\ DOMAIN rw[f] = RowFields /\ rw[f].stamp = row[f].stamp /\ rw[f].gen = FALSE
          /\ rw[f].over = row[f].over /\ rw[f].checked = row[f].checked
          /\ rw[f].failed = row[f].failed /\ rw[f].changed = row[f].changed
      BY <2>1, <3>1 DEF RowFor, IsRow, RowFields
    <3>3. row[f].over \in BOOLEAN /\ (row[f].over => row[f].stamp # None)
      BY <2>1 DEF RowFor, IsRow
    <3>4. RowFor(rw[f], f, fs, run)
      BY <2>1, <3>2, <3>3, FlagFacts
    <3> QED
      BY <2>3, <3>2, <3>4 DEF Vanished
  <2>4. CASE f \notin a.done /\ ~(f \in a.stale /\ Vanished(f))
    <3>1. rw[f] = row[f]
      BY <2>4 DEF Scanned
    <3> QED
      BY <2>1, <3>1
  <2> QED
    BY <2>2, <2>3, <2>4
<1> QED
  BY <1>1, <1>2 DEF RowsOK

-----------------------------------------------------------------------------
(* The tables. *)
LEMMA RowsExcept ==
    ASSUME NEW R, NEW F, NEW n, RowsOK(R, F, n), NEW f \in File, NEW r, RowFor(r, f, F, n)
    PROVE  /\ RowsOK([R EXCEPT ![f] = r], F, n)
           /\ [R EXCEPT ![f] = r][f] = r
           /\ \A g \in File \ {f} : [R EXCEPT ![f] = r][g] = R[g]
<1>1. PICK Q : Q = [R EXCEPT ![f] = r]
  OBVIOUS
<1>2. DOMAIN Q = File /\ Q[f] = r /\ \A g \in File \ {f} : Q[g] = R[g]
  BY <1>1 DEF RowsOK
<1>3. \A g \in File : RowFor(Q[g], g, F, n)
  BY <1>2 DEF RowsOK
<1> QED
  BY <1>1, <1>2, <1>3 DEF RowsOK

LEMMA AddDepsOK ==
    ASSUME NEW D, DepsOK(D), NEW t, NEW m \in {"m", "c"}, NEW q \in Seq(File)
    PROVE  DepsOK(AddDeps(D, t, m, q))
<1>1. PICK E : E = AddDeps(D, t, m, q)
  OBVIOUS
<1>2. ToSet(q) \subseteq File
  BY DEF ToSet
<1>3. DOMAIN E = DOMAIN D /\ \A u \in DOMAIN D \ {t} : E[u] = D[u]
  BY <1>1 DEF AddDeps
<1>4. ASSUME t \in DOMAIN D PROVE IsDeps(E[t])
  <2>1. E[t] = [f \in DOMAIN D[t] \cup ToSet(q) |->
                  IF f \in ToSet(q) THEN [mode |-> m, del |-> FALSE] ELSE D[t][f]]
    BY <1>1, <1>4 DEF AddDeps
  <2>2. IsDeps(D[t])
    BY <1>4 DEF DepsOK
  <2>3. DOMAIN E[t] \subseteq File
    BY <1>2, <2>1, <2>2 DEF IsDeps
  <2>4. IsDep([mode |-> m, del |-> FALSE])
    BY DEF IsDep
  <2>5. \A f \in DOMAIN E[t] : IsDep(E[t][f])
    BY <2>1, <2>2, <2>4 DEF IsDeps
  <2> QED
    BY <2>3, <2>5 DEF IsDeps
<1> QED
  BY <1>1, <1>3, <1>4 DEF DepsOK

LEMMA MarkDepOK ==
    ASSUME NEW x, IsDep(x), NEW b \in BOOLEAN
    PROVE  IsDep([x EXCEPT !.del = b])
  BY DEF IsDep

LEMMA ZapDepsOK ==
    ASSUME NEW D, DepsOK(D), NEW t
    PROVE  DepsOK(ZapDeps1(D, t)) /\ DepsOK(ZapDeps2(D, t))
<1>1. DepsOK(ZapDeps1(D, t))
  <2>1. PICK E : E = ZapDeps1(D, t)
    OBVIOUS
  <2>2. DOMAIN E = DOMAIN D /\ \A u \in DOMAIN D \ {t} : E[u] = D[u]
    BY <2>1 DEF ZapDeps1
  <2>3. ASSUME t \in DOMAIN D PROVE IsDeps(E[t])
    <3>1. E[t] = [f \in DOMAIN D[t] |-> [D[t][f] EXCEPT !.del = TRUE]]
      BY <2>1, <2>3 DEF ZapDeps1
    <3>2. IsDeps(D[t])
      BY <2>3 DEF DepsOK
    <3>3. ASSUME NEW f \in DOMAIN E[t] PROVE IsDep(E[t][f])
      <4>1. f \in DOMAIN D[t] /\ E[t][f] = [D[t][f] EXCEPT !.del = TRUE]
        BY <3>1
      <4>2. IsDep(D[t][f])
        BY <3>2, <4>1 DEF IsDeps
      <4> QED
        BY <4>1, <4>2, MarkDepOK
    <3>4. DOMAIN E[t] \subseteq File
      BY <3>1, <3>2 DEF IsDeps
    <3> QED
      BY <3>3, <3>4 DEF IsDeps
  <2> QED
    BY <2>1, <2>2, <2>3 DEF DepsOK
<1>2. DepsOK(ZapDeps2(D, t))
  <2>1. PICK E : E = ZapDeps2(D, t)
    OBVIOUS
  <2>2. DOMAIN E = DOMAIN D /\ \A u \in DOMAIN D \ {t} : E[u] = D[u]
    BY <2>1 DEF ZapDeps2
  <2>3. ASSUME t \in DOMAIN D PROVE IsDeps(E[t])
    <3>1. E[t] = [f \in {g \in DOMAIN D[t] : ~D[t][g].del} |-> D[t][f]]
      BY <2>1, <2>3 DEF ZapDeps2
    <3>2. IsDeps(D[t])
      BY <2>3 DEF DepsOK
    <3> QED
      BY <3>1, <3>2 DEF IsDeps
  <2> QED
    BY <2>1, <2>2, <2>3 DEF DepsOK
<1> QED
  BY <1>1, <1>2

-----------------------------------------------------------------------------
(* The frames.  A step makes files newer, and no row loses its stamp or,   *)
(* without one, gen.                                                       *)
FilesStay(F, F2) ==
    \A f \in Source \cup Target :
        /\ F[f].mtime <= F2[f].mtime
        /\ F2[f].data = None \/ F[f].data # None \/ F[f].mtime < F2[f].mtime
RowsStay(R, R2) ==
    \A f \in File : R2[f].stamp # None \/ (R[f].stamp = None /\ (R[f].gen => R2[f].gen))
Stay(F, F2, R, R2, n, n2) ==
    /\ FsOK(F) /\ FsOK(F2) /\ FilesStay(F, F2) /\ RowsStay(R, R2)
    /\ n \in Nat /\ n2 \in Nat /\ n <= n2

LEMMA RowForStays ==
    ASSUME tree \in DOMAIN Trees, NEW F, NEW F2, FsOK(F), FsOK(F2), FilesStay(F, F2),
           NEW n \in Nat, NEW n2 \in Nat, n <= n2,
           NEW f \in File, NEW r, RowFor(r, f, F, n)
    PROVE  RowFor(r, f, F2, n2)
<1>1. IsRow(r, n2)
  <2>1. \A k \in 0..n : k \in 0..n2
    OBVIOUS
  <2> QED
    BY <2>1 DEF RowFor, IsRow
<1>2. Past(r, f, F2)
  <2> SUFFICES ASSUME r.stamp # None, f # Always PROVE r.stamp[1] <= F2[f].mtime
    BY DEF Past
  <2>1. r.stamp \in Nat \X Nat /\ r.stamp[1] <= F[f].mtime
    BY DEF RowFor, IsRow, Past
  <2>2. f \in Source \cup Target
    BY DEF File
  <2>3. F[f].mtime \in Nat /\ F2[f].mtime \in Nat
    BY <2>2 DEF FsOK, IsFile
  <2>4. F[f].mtime <= F2[f].mtime
    BY <2>2 DEF FilesStay
  <2>5. r.stamp[1] \in Nat
    BY <2>1
  <2> QED
    BY <2>1, <2>3, <2>4, <2>5
<1> QED
  BY <1>1, <1>2 DEF RowFor

LEMMA RowsOKStays ==
    ASSUME tree \in DOMAIN Trees, NEW F, NEW F2, FsOK(F), FsOK(F2), FilesStay(F, F2),
           NEW n \in Nat, NEW n2 \in Nat, n <= n2, NEW R, RowsOK(R, F, n)
    PROVE  RowsOK(R, F2, n2)
  BY RowForStays DEF RowsOK

LEMMA FrameStays ==
    ASSUME tree \in DOMAIN Trees, NEW F, NEW F2, NEW R, NEW R2, NEW n, NEW n2,
           Stay(F, F2, R, R2, n, n2),
           NEW f, IsFrame(f, F, R, n), f.cmd = "job" => f.pc # "begin"
    PROVE  IsFrame(f, F2, R2, n2)
<1>1. CASE IsCmd(f) \/ IsOob(f)
  BY <1>1 DEF IsFrame
<1>2. CASE IsJob(f, F, R, n)
  <2>1. f.pc # "begin" /\ f.t \in File
    BY <1>2 DEF IsJob
  <2>2. RowFor(f.sf, f.t, F, n)
    BY <1>2 DEF IsJob
  <2>3. RowFor(f.sf, f.t, F2, n2)
    BY <2>1, <2>2, RowForStays DEF Stay
  <2>4. R2[f.t].stamp # None \/ R2[f.t].gen
    BY <1>2, <2>1 DEF IsJob, Stay, RowsStay
  <2>5. ASSUME f.sf.over, f.t # Always
        PROVE  F2[f.t].data = None \/ f.sf.stamp[1] < F2[f.t].mtime
    <3>1. f.t \in Source \cup Target
      BY <2>1, <2>5 DEF File
    <3>2. F[f.t].mtime \in Nat /\ F2[f.t].mtime \in Nat
      BY <3>1 DEF Stay, FsOK, IsFile
    <3>3. f.sf.stamp # None /\ f.sf.stamp \in Nat \X Nat /\ f.sf.stamp[1] <= F[f.t].mtime
      BY <2>2, <2>5 DEF RowFor, IsRow, Past
    <3>4. f.sf.stamp[1] \in Nat
      BY <3>3
    <3>5. F[f.t].data = None \/ f.sf.stamp[1] < F[f.t].mtime
      BY <1>2, <2>1, <2>5 DEF IsJob
    <3>6. /\ F[f.t].mtime <= F2[f.t].mtime
          /\ F2[f.t].data = None \/ F[f.t].data # None \/ F[f.t].mtime < F2[f.t].mtime
      BY <3>1 DEF Stay, FilesStay
    <3> QED
      BY <3>2, <3>3, <3>4, <3>5, <3>6
  <2>6. IsJob(f, F2, R2, n2)
    BY <1>2, <2>1, <2>3, <2>4, <2>5 DEF IsJob
  <2> QED
    BY <2>6 DEF IsFrame
<1> QED
  BY <1>1, <1>2 DEF IsFrame

(* A waiting process sees the end of the one above it. *)
LEMMA SeenFrame ==
    ASSUME NEW F, NEW R, NEW n, NEW f, IsFrame(f, F, R, n), Waits(f), NEW rv
    PROVE  IsFrame(Seen(f, rv), F, R, n)
<1>1. CASE IsCmd(f)
  <2>1. Seen(f, rv) = [f EXCEPT !.rc = IF rv = 0 THEN @ ELSE 1]
    BY <1>1 DEF Seen, IsCmd
  <2>2. IsCmd(Seen(f, rv))
    BY <1>1, <2>1 DEF IsCmd, CmdFields
  <2> QED
    BY <2>2 DEF IsFrame
<1>2. CASE IsOob(f)
  <2>1. \E p : Seen(f, rv) = [f EXCEPT !.pc = p]
    BY <1>2 DEF Seen, IsOob
  <2>2. IsOob(Seen(f, rv))
    BY <1>2, <2>1 DEF IsOob, OobFields
  <2> QED
    BY <2>2 DEF IsFrame
<1>3. CASE IsJob(f, F, R, n)
  <2>1. f.cmd = "job" /\ f.pc \in {"wait", "wanted"}
    BY <1>3 DEF IsJob, Waits
  <2>2. PICK p \in {"want", "read", "nowant", "fail"} :
          Seen(f, rv) = [f EXCEPT !.pc = p] /\ (p = "read" => f.pc = "wait")
    BY <2>1 DEF Seen
  <2>3. PICK g : g = Seen(f, rv)
    OBVIOUS
  <2>4. /\ DOMAIN g = JobFields /\ g.cmd = "job" /\ g.t = f.t /\ g.sf = f.sf /\ g.ops = f.ops
        /\ g.want = f.want /\ g.do = f.do /\ g.pc = p
    BY <1>3, <2>2, <2>3 DEF IsJob, JobFields
  <2>5. IsJob(g, F, R, n)
    BY <1>3, <2>1, <2>2, <2>4 DEF IsJob
  <2> QED
    BY <2>3, <2>5 DEF IsFrame
<1> QED
  BY <1>1, <1>2, <1>3 DEF IsFrame

-----------------------------------------------------------------------------
(* The stack after the top frame is replaced, covered or removed. *)
LEMMA StackPut ==
    ASSUME tree \in DOMAIN Trees, NEW F, NEW F2, NEW R, NEW R2, NEW n, NEW n2,
           Stay(F, F2, R, R2, n, n2),
           NEW s, StackOK(s, F, R, n), s # <<>>, NEW x, IsFrame(x, F2, R2, n2)
    PROVE  StackOK(Append(Front(s), x), F2, R2, n2)
<1>1. PICK p : p = Append(Front(s), x)
  OBVIOUS
<1>2. Len(s) \in Nat /\ Len(s) # 0 /\ IsSeq(s)
  BY SeqFacts DEF StackOK
<1>3. /\ IsSeq(p) /\ Len(p) = Len(s) /\ p[Len(s)] = x
      /\ \A i \in 1..(Len(s) - 1) : p[i] = s[i]
  BY <1>1, <1>2, PutFacts
<1>4. ASSUME NEW i \in 1..Len(p), i < Len(p) PROVE Waits(p[i]) /\ IsFrame(p[i], F2, R2, n2)
  <2>1. i \in 1..(Len(s) - 1) /\ i \in 1..Len(s) /\ i < Len(s)
    BY <1>2, <1>3, <1>4
  <2>2. p[i] = s[i] /\ IsFrame(s[i], F, R, n) /\ Waits(s[i])
    BY <1>3, <2>1 DEF StackOK
  <2>3. s[i].cmd = "job" => s[i].pc # "begin"
    BY <2>2 DEF Waits
  <2>4. IsFrame(s[i], F2, R2, n2)
    BY <2>2, <2>3, FrameStays
  <2> QED
    BY <2>2, <2>4
<1>5. ASSUME NEW i \in 1..Len(p) PROVE IsFrame(p[i], F2, R2, n2)
  <2>1. CASE i < Len(p)
    BY <1>4, <2>1
  <2>2. CASE ~(i < Len(p))
    <3>1. i = Len(s)
      BY <1>2, <1>3, <2>2
    <3> QED
      BY <1>3, <3>1
  <2> QED
    BY <2>1, <2>2
<1> QED
  BY <1>1, <1>3, <1>4, <1>5 DEF StackOK

LEMMA StackAppend ==
    ASSUME NEW F, NEW R, NEW n, NEW s, StackOK(s, F, R, n),
           s # <<>> => Waits(Last(s)), NEW y, IsFrame(y, F, R, n)
    PROVE  StackOK(Append(s, y), F, R, n)
<1>1. PICK p : p = Append(s, y)
  OBVIOUS
<1>2. Len(s) \in Nat /\ IsSeq(s) /\ (s # <<>> => Last(s) = s[Len(s)]) /\ (s = <<>> => Len(s) = 0)
  BY SeqFacts DEF StackOK
<1>3. /\ IsSeq(p) /\ Len(p) = Len(s) + 1 /\ p[Len(s) + 1] = y
      /\ \A i \in 1..Len(s) : p[i] = s[i]
  BY <1>1, <1>2, AppendFacts
<1>4. ASSUME NEW i \in 1..Len(p), i < Len(p) PROVE Waits(p[i]) /\ IsFrame(p[i], F, R, n)
  <2>1. i \in 1..Len(s) /\ s # <<>>
    BY <1>2, <1>3, <1>4
  <2>2. p[i] = s[i] /\ IsFrame(s[i], F, R, n)
    BY <1>3, <2>1 DEF StackOK
  <2>3. CASE i < Len(s)
    BY <2>1, <2>2, <2>3 DEF StackOK
  <2>4. CASE i = Len(s)
    BY <1>2, <2>1, <2>2, <2>4
  <2> QED
    BY <1>2, <2>1, <2>3, <2>4
<1>5. ASSUME NEW i \in 1..Len(p) PROVE IsFrame(p[i], F, R, n)
  <2>1. CASE i < Len(p)
    BY <1>4, <2>1
  <2>2. CASE ~(i < Len(p))
    <3>1. i = Len(s) + 1
      BY <1>2, <1>3, <2>2
    <3> QED
      BY <1>3, <3>1
  <2> QED
    BY <2>1, <2>2
<1> QED
  BY <1>1, <1>3, <1>4, <1>5 DEF StackOK

LEMMA StackPush ==
    ASSUME tree \in DOMAIN Trees, NEW F, NEW F2, NEW R, NEW R2, NEW n, NEW n2,
           Stay(F, F2, R, R2, n, n2),
           NEW s, StackOK(s, F, R, n), s # <<>>, NEW x, IsFrame(x, F2, R2, n2), Waits(x),
           NEW y, IsFrame(y, F2, R2, n2)
    PROVE  StackOK(Append(Append(Front(s), x), y), F2, R2, n2)
<1>1. PICK p : p = Append(Front(s), x)
  OBVIOUS
<1>2. StackOK(p, F2, R2, n2)
  BY <1>1, StackPut
<1>3. Last(p) = x
  BY <1>1, PutFacts DEF StackOK
<1> QED
  BY <1>1, <1>2, <1>3, StackAppend

LEMMA StackFront ==
    ASSUME tree \in DOMAIN Trees, NEW F, NEW R, NEW n, NEW s, StackOK(s, F, R, n), s # <<>>
    PROVE  /\ StackOK(Front(s), F, R, n)
           /\ Front(s) # <<>> => Waits(Last(Front(s))) /\ IsFrame(Last(Front(s)), F, R, n)
<1>1. PICK q : q = Front(s)
  OBVIOUS
<1>2. Len(s) \in Nat /\ Len(s) # 0 /\ IsSeq(s)
  BY SeqFacts DEF StackOK
<1>3. IsSeq(q) /\ Len(q) = Len(s) - 1 /\ \A i \in 1..(Len(s) - 1) : q[i] = s[i]
  BY <1>1, <1>2, FrontFacts DEF StackOK
<1>4. ASSUME NEW i \in 1..Len(q) PROVE Waits(q[i]) /\ IsFrame(q[i], F, R, n)
  <2>1. i \in 1..(Len(s) - 1) /\ i \in 1..Len(s) /\ i < Len(s)
    BY <1>2, <1>3
  <2> QED
    BY <1>3, <2>1 DEF StackOK
<1>5. q # <<>> => Len(q) \in 1..Len(q) /\ Last(q) = q[Len(q)]
  BY <1>3, SeqFacts
<1> QED
  BY <1>1, <1>3, <1>4, <1>5 DEF StackOK

LEMMA StackReturn ==
    ASSUME tree \in DOMAIN Trees, NEW F, NEW F2, NEW R, NEW R2, NEW n, NEW n2,
           Stay(F, F2, R, R2, n, n2),
           StackOK(stack, F, R, n), stack # <<>>, NEW rv, Return(rv)
    PROVE  StackOK(stack', F2, R2, n2)
<1>1. PICK q : q = Front(stack)
  OBVIOUS
<1>2. StackOK(q, F, R, n) /\ (q # <<>> => Waits(Last(q)) /\ IsFrame(Last(q), F, R, n))
  BY <1>1, StackFront
<1>3. CASE q = <<>>
  <2>1. stack' = <<>>
    BY <1>1, <1>3 DEF Return
  <2>2. IsSeq(<<>>) /\ Len(<<>>) = 0
    BY DEF IsSeq
  <2> QED
    BY <2>1, <2>2 DEF StackOK
<1>4. CASE q # <<>>
  <2>1. PICK l : l = Last(q)
    OBVIOUS
  <2>2. Waits(l) /\ IsFrame(l, F, R, n) /\ (l.cmd = "job" => l.pc # "begin")
    BY <1>2, <1>4, <2>1 DEF Waits
  <2>3. IsFrame(l, F2, R2, n2)
    BY <2>2, FrameStays
  <2>4. IsFrame(Seen(l, rv), F2, R2, n2)
    BY <2>2, <2>3, SeenFrame
  <2>5. stack' = Append(Front(q), Seen(l, rv))
    BY <1>1, <1>4, <2>1 DEF Return
  <2> QED
    BY <1>2, <1>4, <2>4, <2>5, StackPut
<1> QED
  BY <1>3, <1>4

LEMMA TopFrame ==
    ASSUME NEW F, NEW R, NEW n, StackOK(stack, F, R, n), stack # <<>>
    PROVE  IsFrame(Top, F, R, n)
<1>1. IsSeq(stack)
  BY DEF StackOK
<1>2. Len(stack) \in 1..Len(stack) /\ Top = stack[Len(stack)]
  BY <1>1, SeqFacts DEF Top
<1> QED
  BY <1>2 DEF StackOK

-----------------------------------------------------------------------------
(* TypeInv after a step, with the parts of the next state as arguments: a  *)
(* step does not change the source tree.                                   *)
GhostsNext ==
    /\ run' \in 0..MaxRuns /\ edits' \in 0..MaxEdits
    /\ world' \in Data
    /\ manual' \subseteq Target /\ built' \subseteq Target
    /\ sure' \subseteq File /\ adopted' \subseteq File

TypeNext ==
    /\ FsOK(fs')
    /\ TablesOK(row', dep', saved', fs', run')
    /\ StackOK(stack', fs', row', run')
    /\ GhostsNext

LEMMA Now ==
    ASSUME TypeInv
    PROVE  /\ Sane /\ tree \in DOMAIN Trees /\ FsOK(fs) /\ run \in Nat
           /\ RowsOK(row, fs, run) /\ RowsOK(saved.row, fs, run)
           /\ DepsOK(dep) /\ DepsOK(saved.dep) /\ InSync(row, saved.row)
           /\ StackOK(stack, fs, row, run)
  BY ConstFacts DEF TypeInv, TablesOK, GhostsOK, Sane

LEMMA GhostsSame ==
    ASSUME TypeInv, UNCHANGED <<run, edits, world, manual, built, sure, adopted>>
    PROVE  GhostsNext
  BY DEF TypeInv, GhostsOK, GhostsNext

LEMMA FsSame ==
    ASSUME NEW F, FsOK(F)
    PROVE  FilesStay(F, F)
  BY DEF FilesStay, FsOK, IsFile

LEMMA Commits ==
    ASSUME NEW R, NEW D, NEW F, NEW n, Commit(R, D), RowsOK(R, F, n), DepsOK(D)
    PROVE  TablesOK(row', dep', saved', F, n) /\ row' = R
<1>1. row' = R /\ dep' = D /\ saved'.row = R /\ saved'.dep = D
  BY DEF Commit
<1> QED
  BY <1>1 DEF TablesOK, InSync

LEMMA NoCommits ==
    ASSUME TypeInv, NEW R, NEW D, NoCommit(R, D), RowsOK(R, fs, run), DepsOK(D),
           InSync(R, saved.row)
    PROVE  TablesOK(row', dep', saved', fs, run) /\ row' = R
  BY Now DEF NoCommit, TablesOK

LEMMA TablesSame ==
    ASSUME TypeInv, UNCHANGED tables
    PROVE  TablesOK(row', dep', saved', fs, run) /\ row' = row
  BY DEF TypeInv, tables

LEMMA RowsSame ==
    ASSUME NEW R
    PROVE  RowsStay(R, R)
  BY DEF RowsStay

(* One row is written. *)
LEMMA OneRow ==
    ASSUME NEW R, NEW f \in File, NEW R2,
           \A g \in File \ {f} : R2[g] = R[g],
           R2[f].stamp # None \/ (R[f].stamp = None /\ (R[f].gen => R2[f].gen))
    PROVE  RowsStay(R, R2)
  BY DEF RowsStay

(* A step of a build that leaves the files alone. *)
LEMMA BuildPut ==
    ASSUME TypeInv, stack # <<>>, UNCHANGED <<fs, run>>, RowsStay(row, row'),
           NEW x, stack' = Append(Front(stack), x), IsFrame(x, fs, row', run)
    PROVE  StackOK(stack', fs', row', run')
<1>1. Stay(fs, fs', row, row', run, run')
  BY Now, FsSame DEF Stay
<1>2. IsFrame(x, fs', row', run')
  OBVIOUS
<1> QED
  BY <1>1, <1>2, Now, StackPut

LEMMA BuildPush ==
    ASSUME TypeInv, stack # <<>>, UNCHANGED <<fs, run>>, RowsStay(row, row'),
           NEW x, NEW y, stack' = Append(Append(Front(stack), x), y),
           IsFrame(x, fs, row', run), Waits(x), IsFrame(y, fs, row', run)
    PROVE  StackOK(stack', fs', row', run')
<1>1. Stay(fs, fs', row, row', run, run')
  BY Now, FsSame DEF Stay
<1>2. IsFrame(x, fs', row', run') /\ IsFrame(y, fs', row', run')
  OBVIOUS
<1> QED
  BY <1>1, <1>2, Now, StackPush

LEMMA BuildReturn ==
    ASSUME TypeInv, stack # <<>>, UNCHANGED <<fs, run>>, RowsStay(row, row'),
           NEW rv, Return(rv)
    PROVE  StackOK(stack', fs', row', run')
<1>1. Stay(fs, fs', row, row', run, run')
  BY Now, FsSame DEF Stay
<1> QED
  BY <1>1, Now, StackReturn

LEMMA EmptyStack ==
    ASSUME NEW F, NEW R, NEW n
    PROVE  StackOK(<<>>, F, R, n)
<1>1. IsSeq(<<>>) /\ Len(<<>>) = 0
  BY DEF IsSeq
<1> QED
  BY <1>1 DEF StackOK

(* New frames. *)
LEMMA JobFrame ==
    ASSUME NEW F, NEW R, NEW n, RowsOK(R, F, n), NEW t \in File, NEW via
    PROVE  IsFrame(Job(t, via, R[t]), F, R, n)
<1>1. PICK j : j = Job(t, via, R[t])
  OBVIOUS
<1>2. /\ DOMAIN j = JobFields /\ j.cmd = "job" /\ j.t = t /\ j.sf = R[t] /\ j.pc = "begin"
      /\ j.ops = <<>> /\ j.want = <<>>
  BY <1>1 DEF Job, JobFields
<1>3. RowFor(R[t], t, F, n)
  BY DEF RowsOK
<1>4. j.ops \in Seq(OpSet) /\ j.want \in Seq(File)
  BY <1>2
<1>5. IsJob(j, F, R, n)
  BY <1>2, <1>3, <1>4 DEF IsJob
<1> QED
  BY <1>1, <1>5 DEF IsFrame

LEMMA CmdFrame ==
    ASSUME NEW F, NEW R, NEW n, NEW c \in {"ifchange", "redo", "unlocked"}, NEW args \in Seq(File),
           NEW me, NEW b
    PROVE  IsFrame(Cmd(c, args, me, b), F, R, n)
  BY DEF IsFrame, IsCmd, Cmd, CmdFields

LEMMA OobFrame ==
    ASSUME NEW F, NEW R, NEW n, NEW t \in File, NEW list \in Seq(File), NEW me
    PROVE  IsFrame(Oob(t, list, me), F, R, n)
  BY DEF IsFrame, IsOob, Oob, OobFields

LEMMA Next1Frame ==
    ASSUME NEW F, NEW R, NEW n, NEW f, IsCmd(f), f.todo # <<>>
    PROVE  IsFrame(Next1(f), F, R, n) /\ Waits(Next1(f)) /\ Head(f.todo) \in File
<1>1. /\ DOMAIN Next1(f) = CmdFields /\ Next1(f).cmd = f.cmd /\ Next1(f).args = f.args
      /\ Next1(f).todo = Tail(f.todo)
  BY DEF Next1, IsCmd, CmdFields
<1>2. Tail(f.todo) \in Seq(File) /\ Head(f.todo) \in File
  BY DEF IsCmd
<1>3. IsCmd(Next1(f))
  BY <1>1, <1>2 DEF IsCmd
<1> QED
  BY <1>2, <1>3 DEF IsFrame, Waits, IsCmd

(* The kind of the top frame. *)
LEMMA TopIsCmd ==
    ASSUME TypeInv, stack # <<>>, Top.cmd \in {"ifchange", "redo", "unlocked"}
    PROVE  IsCmd(Top)
  BY Now, TopFrame DEF IsFrame, IsOob, IsJob

LEMMA TopIsOob ==
    ASSUME TypeInv, stack # <<>>, Top.cmd = "oob"
    PROVE  IsOob(Top)
  BY Now, TopFrame DEF IsFrame, IsCmd, IsJob

LEMMA TopIsJob ==
    ASSUME TypeInv, stack # <<>>, Top.cmd = "job"
    PROVE  IsJob(Top, fs, row, run)
  BY Now, TopFrame DEF IsFrame, IsCmd, IsOob

(* A build that is under way goes on with the same target and row. *)
LEMMA JobMoves ==
    ASSUME NEW F, NEW R, NEW n, NEW f, IsJob(f, F, R, n), f.pc # "begin",
           NEW g, DOMAIN g = JobFields, g.cmd = "job", g.t = f.t, g.sf = f.sf,
           g.ops \in Seq(OpSet), g.want \in Seq(File), g.pc # "begin",
           g.pc # "find" => f.t \in Target /\ g.do \in ToSet(Cands[f.t]),
           g.pc \in {"wait", "read"} => g.ops # <<>>
    PROVE  IsFrame(g, F, R, n)
<1>1. IsJob(g, F, R, n)
  BY DEF IsJob
<1> QED
  BY <1>1 DEF IsFrame

LEMMA JobStays ==
    ASSUME tree \in DOMAIN Trees, NEW F, NEW F2, NEW R, NEW R2, NEW n, NEW n2,
           Stay(F, F2, R, R2, n, n2), NEW f, IsJob(f, F, R, n), f.pc # "begin"
    PROVE  IsJob(f, F2, R2, n2)
<1>1. IsFrame(f, F2, R2, n2)
  BY FrameStays DEF IsFrame
<1> QED
  BY <1>1 DEF IsFrame, IsCmd, IsOob, IsJob

(* The next frame of the build at the top, when no file changes. *)
LEMMA TopMoves ==
    ASSUME TypeInv, stack # <<>>, Top.cmd = "job", Top.pc # "begin", RowsStay(row, row'),
           NEW g, DOMAIN g = JobFields, g.cmd = "job", g.t = Top.t, g.sf = Top.sf,
           g.ops \in Seq(OpSet), g.want \in Seq(File), g.pc # "begin",
           g.pc # "find" => Top.t \in Target /\ g.do \in ToSet(Cands[Top.t]),
           g.pc \in {"wait", "read"} => g.ops # <<>>
    PROVE  IsFrame(g, fs, row', run)
<1>1. Stay(fs, fs, row, row', run, run)
  BY Now, FsSame DEF Stay
<1>2. IsJob(Top, fs, row', run)
  BY <1>1, Now, TopIsJob, JobStays
<1> QED
  BY <1>2, JobMoves

(* A build changes a file; the tables stay. *)
LEMMA FilePut ==
    ASSUME TypeInv, stack # <<>>, Top.cmd = "job", Top.pc # "begin",
           UNCHANGED <<tables, run>>, FsOK(fs'), FilesStay(fs, fs'),
           NEW g, stack' = Append(Front(stack), g),
           DOMAIN g = JobFields, g.cmd = "job", g.t = Top.t, g.sf = Top.sf,
           g.ops \in Seq(OpSet), g.want \in Seq(File), g.pc # "begin",
           g.pc # "find" => Top.t \in Target /\ g.do \in ToSet(Cands[Top.t]),
           g.pc \in {"wait", "read"} => g.ops # <<>>
    PROVE  TablesOK(row', dep', saved', fs', run') /\ StackOK(stack', fs', row', run')
<1>0. row' = row /\ saved' = saved /\ dep' = dep
  BY DEF tables
<1>1. Stay(fs, fs', row, row', run, run')
  BY <1>0, Now, RowsSame DEF Stay
<1>2. IsJob(Top, fs', row', run')
  BY <1>1, Now, TopIsJob, JobStays
<1>3. IsFrame(g, fs', row', run')
  BY <1>2, JobMoves
<1>4. StackOK(stack', fs', row', run')
  BY <1>1, <1>3, Now, StackPut
<1>5. RowsOK(row', fs', run') /\ RowsOK(saved'.row, fs', run')
  BY <1>0, Now, RowsOKStays
<1> QED
  BY <1>0, <1>4, <1>5, Now DEF TablesOK

(* One file gets newer. *)
LEMMA OneFile ==
    ASSUME FsOK(fs), NEW f \in Source \cup Target, NEW F, NEW v, F = [fs EXCEPT ![f] = v],
           NEW x, v = Removed(fs[f]) \/ v = Written(fs[f], x), x \in Data \/ f \in Target,
           Source \cap Target = {}
    PROVE  FsOK(F) /\ FilesStay(fs, F)
<1>1. IsFile(fs[f]) /\ DOMAIN fs = Source \cup Target
  BY DEF FsOK
<1>2. IsFile(v) /\ (f \in Source => v.data \in Data \cup {None})
  <2>1. CASE v = Removed(fs[f])
    BY <1>1, <2>1 DEF IsFile, Removed
  <2>2. CASE v = Written(fs[f], x)
    BY <1>1, <2>2 DEF IsFile, Written
  <2> QED
    BY <2>1, <2>2
<1>3. fs[f].mtime <= v.mtime /\ (v.data = None \/ fs[f].data # None \/ fs[f].mtime < v.mtime)
  BY <1>1 DEF IsFile, Removed, Written
<1>4. F[f] = v /\ DOMAIN F = Source \cup Target
      /\ \A g \in Source \cup Target : g # f => F[g] = fs[g]
  BY <1>1
<1>5. FsOK(F)
  BY <1>2, <1>4 DEF FsOK
<1>6. \A g \in Source \cup Target : fs[g].mtime \in Nat
  BY DEF FsOK, IsFile
<1>7. ASSUME NEW g \in Source \cup Target
      PROVE  /\ fs[g].mtime <= F[g].mtime
             /\ F[g].data = None \/ fs[g].data # None \/ fs[g].mtime < F[g].mtime
  <2>1. CASE g = f
    BY <2>1, <1>3, <1>4
  <2>2. CASE g # f
    BY <2>2, <1>4, <1>6
  <2> QED
    BY <2>1, <2>2
<1> QED
  BY <1>5, <1>7 DEF FilesStay

-----------------------------------------------------------------------------
(* TypeInv, action by action: the commands. *)
LEMMA StartRunOK ==
    ASSUME TypeInv, NEW c \in Commands, StartRun(c)
    PROVE  TypeNext
<1> USE DEF StartRun, files, tables, Idle
<1>0. run \in 0..MaxRuns /\ MaxRuns \in Nat
  BY ConstFacts DEF TypeInv, GhostsOK
<1>1. run' \in 0..MaxRuns /\ run' \in Nat /\ run <= run' /\ run \in Nat
  BY <1>0
<1>2. GhostsNext
  BY <1>1 DEF TypeInv, GhostsOK, GhostsNext
<1>3. FilesStay(fs, fs')
  BY Now, FsSame
<1>4. RowsOK(row', fs', run') /\ RowsOK(saved'.row, fs', run')
  <2>1. RowsOK(row, fs', run')
    BY <1>1, <1>3, Now, RowsOKStays
  <2>2. RowsOK(saved.row, fs', run')
    BY <1>1, <1>3, Now, RowsOKStays
  <2> QED
    BY <2>1, <2>2
<1>5. TablesOK(row', dep', saved', fs', run')
  BY <1>4, Now DEF TablesOK
<1>6. StackOK(stack', fs', row', run')
  <2>1. c.cmd \in {"ifchange", "redo"} /\ c.args \in Seq(Source \cup Target)
    BY TreeFacts, Now
  <2>2. c.args \in Seq(File)
    BY <2>1 DEF File
  <2> DEFINE f == Cmd(c.cmd, c.args, None, FALSE)
  <2>3. IsFrame(f, fs', row', run')
    BY <2>1, <2>2, CmdFrame
  <2> HIDE DEF f
  <2>4. stack' = Append(<<>>, f)
    BY DEF f
  <2>5. StackOK(<<>>, fs', row', run')
    BY EmptyStack
  <2> QED
    BY <2>3, <2>4, <2>5, StackAppend
<1> QED
  BY <1>2, <1>5, <1>6, Now DEF TypeNext

LEMMA IfchangeOK ==
    ASSUME TypeInv, Ifchange
    PROVE  TypeNext
<1> DEFINE t == Head(Top.todo)
           a == IsDirtyDefault(t)
<1>1. IsCmd(Top) /\ stack # <<>> /\ Top.todo # <<>>
  BY TopIsCmd DEF Ifchange, Busy, Going
<1>2. PICK rw : rw = Scanned(a)
  OBVIOUS
<1>3. UNCHANGED <<fs, world, manual, adopted, run, cache, edits, sure, quiet, built>>
  BY DEF Ifchange, files, ghosts
<1>4. t \in File /\ IsFrame(Next1(Top), fs, rw, run) /\ Waits(Next1(Top))
  BY <1>1, Next1Frame
<1>5. /\ RowsOK(rw, fs, run)
      /\ \A f \in File :
           /\ rw[f].stamp = row[f].stamp /\ rw[f].over = row[f].over
           /\ rw[f].gen => row[f].gen
           /\ row[f].gen => rw[f].gen \/ (row[f].stamp # None /\ ~Exists(f))
  BY <1>2, Now, ScannedFacts
<1>6. RowsStay(row, rw)
  BY <1>5 DEF RowsStay
<1>7. InSync(rw, saved.row)
  <2>1. InSync(row, saved.row) /\ Target \subseteq File
    BY Now DEF File
  <2> QED
    BY <1>5, <2>1 DEF InSync
<1> HIDE DEF t
<1>8. CASE stack' = Put(Next1(Top)) /\ Commit(rw, dep)
  <2>1. TablesOK(row', dep', saved', fs, run) /\ row' = rw
    BY <1>5, <1>8, Now, Commits
  <2>2. StackOK(stack', fs', row', run')
    <3>1. stack' = Append(Front(stack), Next1(Top))
      BY <1>8 DEF Put
    <3> HIDE DEF a
    <3> QED BY <3>1, <1>1, <1>3, <1>4, <1>6, <2>1, BuildPut
  <2> QED
    BY <1>3, <2>1, <2>2, Now, GhostsSame DEF TypeNext
<1>9. CASE stack' = Push(Next1(Top), Oob(t, InOrder(a.must), Top.me)) /\ Commit(rw, dep)
  <2> HIDE DEF a
  <2>1. TablesOK(row', dep', saved', fs, run) /\ row' = rw
    BY <1>5, <1>9, Now, Commits
  <2>2. PICK o : o = Oob(t, InOrder(a.must), Top.me)
    OBVIOUS
  <2>3. InOrder(a.must) \in Seq(File)
    BY Now, TreeFacts, InOrderType
  <2>4. IsFrame(o, fs, rw, run)
    BY <2>2, <2>3, <1>4, OobFrame
  <2>5. stack' = Append(Append(Front(stack), Next1(Top)), o)
    BY <1>9, <2>2 DEF Put, Push
  <2>6. StackOK(stack', fs', row', run')
    BY <2>4, <2>5, <1>1, <1>3, <1>4, <1>6, <2>1, BuildPush
  <2> QED
    BY <1>3, <2>1, <2>6, Now, GhostsSame DEF TypeNext
<1>10. CASE stack' = Push(Next1(Top), Job(t, Top.cmd, rw[t])) /\ NoCommit(rw, dep)
  <2> HIDE DEF a
  <2>1. TablesOK(row', dep', saved', fs, run) /\ row' = rw
    BY <1>5, <1>7, <1>10, Now, NoCommits
  <2>2. PICK o : o = Job(t, Top.cmd, rw[t])
    OBVIOUS
  <2>4. IsFrame(o, fs, rw, run)
    BY <2>2, <1>4, <1>5, JobFrame
  <2>5. stack' = Append(Append(Front(stack), Next1(Top)), o)
    BY <1>10, <2>2 DEF Put, Push
  <2>6. StackOK(stack', fs', row', run')
    BY <2>4, <2>5, <1>1, <1>3, <1>4, <1>6, <2>1, BuildPush
  <2> QED
    BY <1>3, <2>1, <2>6, Now, GhostsSame DEF TypeNext
<1> QED
  <2>1. \/ stack' = Put(Next1(Top)) /\ Commit(rw, dep)
        \/ stack' = Push(Next1(Top), Oob(t, InOrder(a.must), Top.me)) /\ Commit(rw, dep)
        \/ stack' = Push(Next1(Top), Job(t, Top.cmd, rw[t])) /\ NoCommit(rw, dep)
    BY <1>2 DEF Ifchange, t
  <2> QED
    BY <2>1, <1>8, <1>9, <1>10

LEMMA RedoOK ==
    ASSUME TypeInv, Redo
    PROVE  TypeNext
<1> DEFINE t == Head(Top.todo)
<1>1. IsCmd(Top) /\ stack # <<>> /\ Top.todo # <<>>
  BY TopIsCmd DEF Redo, Busy, Going
<1>2. /\ UNCHANGED <<fs, world, manual, adopted, run, cache, edits, sure, quiet, built>>
      /\ UNCHANGED tables
  BY DEF Redo, files, ghosts
<1>3. TablesOK(row', dep', saved', fs, run) /\ row' = row
  BY <1>2, TablesSame
<1>4. t \in File /\ IsFrame(Next1(Top), fs, row, run) /\ Waits(Next1(Top))
  BY <1>1, Next1Frame
<1>5. RowsStay(row, row')
  BY <1>3, RowsSame
<1> HIDE DEF t
<1>6. CASE stack' = Put(Next1(Top))
  <2>1. stack' = Append(Front(stack), Next1(Top))
    BY <1>6 DEF Put
  <2>2. StackOK(stack', fs', row', run')
    BY <2>1, <1>1, <1>2, <1>3, <1>4, <1>5, BuildPut
  <2> QED
    BY <1>2, <1>3, <2>2, Now, GhostsSame DEF TypeNext
<1>7. CASE stack' = Push(Next1(Top), Job(t, "redo", row[t]))
  <2>1. PICK o : o = Job(t, "redo", row[t])
    OBVIOUS
  <2>2. IsFrame(o, fs, row, run)
    BY <2>1, <1>4, Now, JobFrame
  <2>3. stack' = Append(Append(Front(stack), Next1(Top)), o)
    BY <1>7, <2>1 DEF Put, Push
  <2>4. StackOK(stack', fs', row', run')
    BY <2>2, <2>3, <1>1, <1>2, <1>3, <1>4, <1>5, BuildPush
  <2> QED
    BY <1>2, <1>3, <2>4, Now, GhostsSame DEF TypeNext
<1> QED
  BY <1>6, <1>7 DEF Redo, t

LEMMA CommandEndOK ==
    ASSUME TypeInv, CommandEnd
    PROVE  TypeNext
<1>1. IsCmd(Top) /\ stack # <<>>
  BY TopIsCmd DEF CommandEnd
<1>2. UNCHANGED <<fs, world, manual, adopted, run, cache, edits, quiet, built>>
  BY DEF CommandEnd, files
<1>3. Commit(row, dep) /\ Return(Top.rc)
  BY DEF CommandEnd
<1>4. TablesOK(row', dep', saved', fs, run) /\ row' = row
  BY <1>3, Now, Commits
<1>5. StackOK(stack', fs', row', run')
  BY <1>1, <1>2, <1>3, <1>4, RowsSame, BuildReturn
<1>6. sure' \subseteq File
  <2>1. ToSet(Top.args) \subseteq File
    BY <1>1 DEF IsCmd, ToSet
  <2>2. sure \subseteq File
    BY DEF TypeInv, GhostsOK
  <2> QED
    BY <2>1, <2>2 DEF CommandEnd
<1>7. GhostsNext
  BY <1>2, <1>6 DEF TypeInv, GhostsOK, GhostsNext
<1> QED
  BY <1>2, <1>4, <1>5, <1>7, Now DEF TypeNext

-----------------------------------------------------------------------------
(* The user. *)
LEMMA StackKept ==
    ASSUME tree \in DOMAIN Trees, NEW F, NEW F2, FsOK(F), FsOK(F2), FilesStay(F, F2),
           NEW R, NEW n \in Nat, NEW s, StackOK(s, F, R, n)
    PROVE  StackOK(s, F2, R, n)
<1>1. ASSUME NEW i \in 1..Len(s) PROVE IsFrame(s[i], F2, R, n)
  <2>1. IsFrame(s[i], F, R, n)
    BY DEF StackOK
  <2>2. CASE s[i].cmd = "job" => s[i].pc # "begin"
    <3>1. Stay(F, F2, R, R, n, n)
      BY RowsSame DEF Stay
    <3> QED
      BY <2>1, <2>2, <3>1, FrameStays
  <2>3. CASE s[i].cmd = "job" /\ s[i].pc = "begin"
    <3>1. IsJob(s[i], F, R, n)
      BY <2>1, <2>3 DEF IsFrame, IsCmd, IsOob
    <3>2. RowFor(s[i].sf, s[i].t, F2, n)
      BY <3>1, RowForStays DEF IsJob
    <3>3. IsJob(s[i], F2, R, n)
      BY <2>3, <3>1, <3>2 DEF IsJob
    <3> QED
      BY <3>3 DEF IsFrame
  <2> QED
    BY <2>2, <2>3
<1> QED
  BY <1>1 DEF StackOK

LEMMA UserStepOK ==
    ASSUME TypeInv, UserStep, FsOK(fs'), FilesStay(fs, fs'), world' \in Data,
           manual' \subseteq Target, adopted' \subseteq File
    PROVE  TypeNext
<1>1. /\ row' = row /\ dep' = dep /\ saved' = saved /\ run' = run /\ stack' = stack
      /\ built' = built /\ sure' = {} /\ edits < MaxEdits /\ edits' = edits + 1
  BY DEF UserStep
<1>2. edits' \in 0..MaxEdits
  BY <1>1, ConstFacts DEF TypeInv, GhostsOK
<1>3. GhostsNext
  BY <1>1, <1>2 DEF TypeInv, GhostsOK, GhostsNext
<1>4. StackOK(stack', fs', row', run')
  BY <1>1, Now, StackKept
<1>5. RowsOK(row', fs', run') /\ RowsOK(saved'.row, fs', run')
  <2>1. RowsOK(row, fs', run)
    BY <1>1, Now, RowsOKStays
  <2>2. RowsOK(saved.row, fs', run)
    BY <1>1, Now, RowsOKStays
  <2> QED
    BY <1>1, <2>1, <2>2
<1>6. TablesOK(row', dep', saved', fs', run')
  BY <1>1, <1>5, Now DEF TablesOK
<1> QED
  BY <1>3, <1>4, <1>6 DEF TypeNext

LEMMA EditSourceOK ==
    ASSUME TypeInv, NEW s \in Source, NEW v \in Data \cup {None}, EditSource(s, v)
    PROVE  TypeNext
<1>1. PICK w : w = IF v = None THEN Removed(fs[s]) ELSE Written(fs[s], v)
  OBVIOUS
<1>2. fs' = [fs EXCEPT ![s] = w]
  BY <1>1 DEF EditSource
<1>3. FsOK(fs') /\ FilesStay(fs, fs')
  <2>1. CASE v = None
    BY <1>1, <1>2, <2>1, Now, TreeFacts, ConstFacts, OneFile
  <2>2. CASE v # None
    BY <1>1, <1>2, <2>2, Now, TreeFacts, ConstFacts, OneFile
  <2> QED
    BY <2>1, <2>2
<1> QED
  BY <1>3, UserStepOK DEF EditSource, TypeInv, GhostsOK

LEMMA EditTargetOK ==
    ASSUME TypeInv, NEW t \in Target, NEW v, EditTarget(t, v)
    PROVE  TypeNext
<1>1. PICK w : w = IF v = None THEN Removed(fs[t]) ELSE Written(fs[t], v)
  OBVIOUS
<1>2. fs' = [fs EXCEPT ![t] = w]
  BY <1>1 DEF EditTarget
<1>3. FsOK(fs') /\ FilesStay(fs, fs')
  BY <1>1, <1>2, Now, TreeFacts, ConstFacts, OneFile
<1>4. manual' \subseteq Target /\ adopted' \subseteq File /\ world' \in Data
  BY DEF EditTarget, TypeInv, GhostsOK
<1> QED
  BY <1>3, <1>4, UserStepOK DEF EditTarget

LEMMA TouchInodeOK ==
    ASSUME TypeInv, NEW t \in Target, TouchInode(t)
    PROVE  TypeNext
<1>1. PICK w : w = [fs[t] EXCEPT !.ino = 2]
  OBVIOUS
<1>2. fs' = [fs EXCEPT ![t] = w]
  BY <1>1 DEF TouchInode
<1>3. FsOK(fs) /\ Source \cap Target = {}
  BY Now, TreeFacts
<1>4. IsFile(fs[t]) /\ DOMAIN fs = Source \cup Target
  BY <1>3 DEF FsOK
<1>5. IsFile(w) /\ w.mtime = fs[t].mtime /\ w.data = fs[t].data
  BY <1>1, <1>4 DEF IsFile
<1>6. FsOK(fs')
  BY <1>2, <1>3, <1>4, <1>5 DEF FsOK
<1>7. \A g \in Source \cup Target : fs'[g].mtime = fs[g].mtime /\ fs'[g].data = fs[g].data
  BY <1>2, <1>4, <1>5
<1>8. FilesStay(fs, fs')
  BY <1>3, <1>7 DEF FilesStay, FsOK, IsFile
<1> QED
  BY <1>6, <1>8, UserStepOK DEF TouchInode, TypeInv, GhostsOK

LEMMA ChangeWorldOK ==
    ASSUME TypeInv, ChangeWorld
    PROVE  TypeNext
<1>1. FsOK(fs') /\ FilesStay(fs, fs')
  BY Now, FsSame DEF ChangeWorld
<1> QED
  BY <1>1, UserStepOK DEF ChangeWorld, TypeInv, GhostsOK

-----------------------------------------------------------------------------
(* The start of a build. *)

(* A build ends: its row is written, with a stamp. *)
LEMMA CommitRow ==
    ASSUME TypeInv, NEW t \in File, NEW r, RowFor(r, t, fs, run),
           r.stamp # None \/ (row[t].stamp = None /\ (row[t].gen => r.gen)),
           NEW d, DepsOK(d), Commit([row EXCEPT ![t] = r], d)
    PROVE  /\ TablesOK(row', dep', saved', fs, run) /\ row' = [row EXCEPT ![t] = r]
           /\ row'[t] = r /\ RowsStay(row, row')
           /\ \A g \in File \ {t} : row'[g] = row[g]
<1> DEFINE R == [row EXCEPT ![t] = r]
<1>1. RowsOK(R, fs, run) /\ R[t] = r /\ \A g \in File \ {t} : R[g] = row[g]
  BY Now, RowsExcept
<1>2. Commit(R, d)
  OBVIOUS
<1> HIDE DEF R
<1>3. TablesOK(row', dep', saved', fs, run) /\ row' = R
  BY <1>1, <1>2, Commits
<1>4. RowsStay(row, R)
  BY <1>1, OneRow
<1> QED
  BY <1>1, <1>3, <1>4 DEF R

LEMMA ReturnWith ==
    ASSUME TypeInv, stack # <<>>, UNCHANGED <<fs, run>>, GhostsNext,
           NEW t \in File, NEW r, RowFor(r, t, fs, run), r.stamp # None,
           NEW d, DepsOK(d), Commit([row EXCEPT ![t] = r], d), NEW rv, Return(rv)
    PROVE  TypeNext
<1>1. TablesOK(row', dep', saved', fs, run) /\ RowsStay(row, row')
  BY CommitRow
<1>2. StackOK(stack', fs', row', run')
  BY <1>1, BuildReturn
<1> QED
  BY <1>1, <1>2, Now DEF TypeNext

LEMMA FailsOK ==
    ASSUME TypeInv, stack # <<>>, Top.cmd = "job", UNCHANGED <<fs, run>>, GhostsNext,
           NEW d, DepsOK(d), Fails(d)
    PROVE  TypeNext
<1>1. Top.t \in File /\ RowFor(Top.sf, Top.t, fs, run)
  BY TopIsJob DEF IsJob
<1>2. PICK r : r = SetFailed(Top.sf, Top.t)
  OBVIOUS
<1>3. RowFor(r, Top.t, fs, run) /\ r.stamp # None
  BY <1>1, <1>2, Now, SetFailedFacts, StampFacts
<1>4. Commit([row EXCEPT ![Top.t] = r], d) /\ Return(1)
  BY <1>2 DEF Fails
<1> QED
  BY <1>1, <1>3, <1>4, ReturnWith

(* What Begin knows of a target it goes on to build. *)
LEMMA BeginGoesOn ==
    ASSUME TypeInv, JobAt("begin"), NEW t, t = Top.t,
           ~Overridden(Top.sf, t), ~(Exists(t) /\ ~Top.sf.gen),
           NEW r, r = Intent(Top.sf, t)
    PROVE  /\ t \in File /\ Top.sf = row[t] /\ RowFor(r, t, fs, run)
           /\ r.gen /\ r.stamp = row[t].stamp
           /\ r.over => ~Exists(t)
<1>1. IsJob(Top, fs, row, run) /\ Top.pc = "begin"
  BY TopIsJob DEF JobAt
<1>2. t \in File /\ Top.sf = row[t] /\ RowFor(Top.sf, t, fs, run)
  BY <1>1 DEF IsJob
<1>3. Exists(t) => Top.sf.gen
  BY Now, <1>2, StampFacts DEF RowFor, IsRow
<1>4. /\ RowFor(r, t, fs, run) /\ r.stamp = Top.sf.stamp /\ (r.over => Top.sf.over)
      /\ Top.sf.gen \/ ~Exists(t) => r.gen
  BY <1>2, Now, IntentFacts
<1> QED
  BY <1>2, <1>3, <1>4, StampFacts, Now DEF Overridden

LEMMA BeginOK ==
    ASSUME TypeInv, Begin
    PROVE  TypeNext
<1> DEFINE t == Top.t
           sf == Top.sf
           over == Overridden(sf, t)
           static == ~over /\ Exists(t) /\ ~sf.gen
<1>1. stack # <<>> /\ Top.cmd = "job" /\ JobAt("begin") /\ IsJob(Top, fs, row, run) /\ Top.pc = "begin"
  BY TopIsJob DEF Begin, JobAt
<1>2. UNCHANGED <<fs, world, manual, adopted, run, cache, edits, sure, quiet, built>>
  BY DEF Begin, files, ghosts
<1>3. t \in File /\ sf = row[t] /\ RowFor(sf, t, fs, run)
  BY <1>1 DEF IsJob
<1>4. GhostsNext
  BY <1>2, GhostsSame
<1>5. DepsOK(dep) /\ Sane
  BY Now
<1>6. CASE /\ Commit([row EXCEPT ![t] = IF sf.over THEN sf ELSE SetOverride(sf, t)], dep)
           /\ Return(0)
  <2>1. PICK r : r = IF sf.over THEN sf ELSE SetOverride(sf, t)
    OBVIOUS
  <2>2. RowFor(r, t, fs, run) /\ r.stamp # None
    BY <1>3, <1>5, <2>1, SetOverrideFacts, StampFacts DEF RowFor, IsRow
  <2>3. Commit([row EXCEPT ![t] = r], dep)
    BY <1>6, <2>1
  <2> HIDE DEF t, sf
  <2> QED BY <1>1, <1>2, <1>3, <1>4, <1>5, <1>6, <2>2, <2>3, ReturnWith
<1>7. CASE Commit([row EXCEPT ![t] = SetStatic(sf, t)], dep) /\ Return(0)
  <2>1. PICK r : r = SetStatic(sf, t)
    OBVIOUS
  <2>2. RowFor(r, t, fs, run) /\ r.stamp # None
    BY <1>3, <1>5, <2>1, SetStaticFacts, StampFacts
  <2>3. Commit([row EXCEPT ![t] = r], dep)
    BY <1>7, <2>1
  <2> HIDE DEF t, sf
  <2> QED BY <1>1, <1>2, <1>3, <1>4, <1>5, <1>7, <2>2, <2>3, ReturnWith
<1>8. CASE /\ ~over /\ ~static
           /\ IF Intent(sf, t) # sf THEN Commit([row EXCEPT ![t] = Intent(sf, t)], dep) ELSE NoCommit(row, dep)
           /\ stack' = Put([Top EXCEPT !.sf = Intent(sf, t), !.pc = "find"])
  <2>1. PICK r : r = Intent(sf, t)
    OBVIOUS
  <2>2. /\ RowFor(r, t, fs, run) /\ r.gen /\ r.stamp = row[t].stamp /\ (r.over => ~Exists(t))
    BY <1>1, <1>8, <2>1, BeginGoesOn
  <2>3. TablesOK(row', dep', saved', fs, run) /\ RowsStay(row, row') /\ row'[t] = r
    <3>1. CASE r # sf
      BY <1>3, <1>5, <1>8, <2>1, <2>2, <3>1, CommitRow
    <3>2. CASE r = sf
      <4>1. NoCommit(row, dep)
        BY <1>8, <2>1, <3>2
      <4> QED
        BY <1>3, <3>2, <4>1, Now, NoCommits, RowsSame
    <3> QED
      BY <3>1, <3>2
  <2>4. PICK x : x = [Top EXCEPT !.sf = r, !.pc = "find"]
    OBVIOUS
  <2>5. /\ DOMAIN x = JobFields /\ x.cmd = "job" /\ x.t = t /\ x.sf = r /\ x.pc = "find"
        /\ x.ops = Top.ops /\ x.want = Top.want
    BY <2>4, <1>1 DEF IsJob, JobFields
  <2>6. x.sf.over /\ x.t # Always => fs[x.t].data = None
    BY <2>2, <2>5 DEF Exists
  <2>7. IsJob(x, fs, row', run)
    BY <1>1, <1>3, <2>2, <2>3, <2>5, <2>6 DEF IsJob
  <2>8. stack' = Append(Front(stack), x) /\ IsFrame(x, fs, row', run)
    BY <1>8, <2>1, <2>4, <2>7 DEF Put, IsFrame
  <2>9. StackOK(stack', fs', row', run')
    BY <1>1, <1>2, <2>3, <2>8, BuildPut
  <2> QED
    BY <1>2, <1>4, <2>3, <2>9, Now DEF TypeNext
<1> QED
  BY <1>6, <1>7, <1>8 DEF Begin

-----------------------------------------------------------------------------
(* The search for the .do file. *)
LEMMA LeastElement ==
    ASSUME NEW S \in SUBSET Nat, S # {}
    PROVE  \E x \in S : \A y \in S : x <= y
<1> DEFINE R == OpToRel(<, Nat)
<1>1. \A a, b \in Nat : a < b => <<a, b>> \in R
  BY DEF OpToRel
<1>2. IsWellFoundedOn(R, Nat)
  BY NatLessThanWellFounded
<1> HIDE DEF R
<1>3. PICK x \in S : \A y \in S : ~(<<y, x>> \in R)
  BY <1>2, WFMin
<1>4. \A y \in S : x \in Nat /\ y \in Nat /\ ~(y < x)
  BY <1>1, <1>3
<1>5. \A y \in S : x <= y
  BY <1>4
<1> QED
  BY <1>5

LEMMA FirstFacts ==
    ASSUME tree \in DOMAIN Trees, NEW t \in File, Candidates(t) # {},
           NEW n, n = First(t), NEW do, do = Cands[t][n]
    PROVE  /\ t \in Target /\ n \in 1..Len(Cands[t])
           /\ do \in Source /\ do \in ToSet(Cands[t])
           /\ SubSeq(Cands[t], 1, n - 1) \in Seq(File)
<1>1. t \in Target
  <2>1. t \in Source \cup {Always} => Cands[t] = <<>>
    BY TreeFacts
  <2>2. Candidates(t) \subseteq DOMAIN Cands[t]
    BY DEF Candidates
  <2>3. DOMAIN <<>> = {}
    OBVIOUS
  <2> QED
    BY <2>1, <2>2, <2>3 DEF File
<1>2. Cands[t] \in Seq(Source)
  BY <1>1, TreeFacts
<1>3. Candidates(t) \subseteq 1..Len(Cands[t]) /\ Len(Cands[t]) \in Nat
  BY <1>2 DEF Candidates
<1>4. Candidates(t) \in SUBSET Nat
  BY <1>3
<1>5. n \in Candidates(t)
  <2>1. \E x \in Candidates(t) : \A y \in Candidates(t) : x <= y
    BY <1>4, LeastElement
  <2> QED
    BY <2>1 DEF First
<1>6. n \in 1..Len(Cands[t]) /\ do \in Source /\ do \in ToSet(Cands[t])
  BY <1>2, <1>3, <1>5 DEF ToSet
<1>7. SubSeq(Cands[t], 1, n - 1) \in Seq(File)
  <2>1. Cands[t] \in Seq(File)
    BY <1>2 DEF File
  <2>2. n - 1 \in 0..Len(Cands[t])
    BY <1>3, <1>6
  <2> QED
    BY <2>1, <2>2, SubSeqFacts
<1> QED
  BY <1>1, <1>6, <1>7

LEMMA CandsType ==
    ASSUME tree \in DOMAIN Trees, NEW t \in File
    PROVE  Cands[t] \in Seq(File)
<1>1. CASE t \in Target
  BY <1>1, TreeFacts DEF File
<1>2. CASE t \in Source \cup {Always}
  <2>1. Cands[t] = <<>>
    BY <1>2, TreeFacts
  <2> QED
    BY <2>1
<1> QED
  BY <1>1, <1>2 DEF File

(* Marking the .do file writes the row of a source. *)
LEMMA MarkDoFacts ==
    ASSUME TypeInv, NEW do \in Source, NEW rw, rw = MarkDo(do)
    PROVE  /\ RowsOK(rw, fs, run) /\ RowsStay(row, rw) /\ InSync(rw, saved.row)
           /\ \A g \in File \ {do} : rw[g] = row[g]
<1>1. do \in File /\ Target \subseteq File \ {do}
  BY Now, TreeFacts DEF File
<1>2. PICK r : r = SetStatic(row[do], do)
  OBVIOUS
<1>3. RowFor(row[do], do, fs, run)
  BY <1>1, Now DEF RowsOK
<1>4. RowFor(r, do, fs, run) /\ r.stamp # None
  BY <1>1, <1>2, <1>3, Now, SetStaticFacts, StampFacts
<1>5. rw = [row EXCEPT ![do] = r]
  BY <1>2 DEF MarkDo
<1>6. RowsOK(rw, fs, run) /\ rw[do] = r /\ \A g \in File \ {do} : rw[g] = row[g]
  <2>1. RowsOK(row, fs, run)
    BY Now
  <2>2. /\ RowsOK([row EXCEPT ![do] = r], fs, run) /\ [row EXCEPT ![do] = r][do] = r
        /\ \A g \in File \ {do} : [row EXCEPT ![do] = r][g] = row[g]
    BY <1>1, <1>4, <2>1, RowsExcept
  <2> QED
    BY <1>5, <2>2
<1>7. RowsStay(row, rw)
  BY <1>1, <1>4, <1>6, OneRow
<1>8. InSync(rw, saved.row)
  BY <1>1, <1>6, Now DEF InSync
<1> QED
  BY <1>6, <1>7, <1>8

LEMMA FindOK ==
    ASSUME TypeInv, Find
    PROVE  TypeNext
<1> DEFINE t == Top.t
           d == ZapDeps1(dep, t)
<1>1. /\ stack # <<>> /\ Top.cmd = "job" /\ IsJob(Top, fs, row, run) /\ Top.pc = "find"
      /\ Top.pc # "begin"
  BY TopIsJob DEF Find, JobAt
<1>2. UNCHANGED <<fs, world, manual, run, cache, edits, sure, quiet, built>>
  BY DEF Find, ghosts
<1>3. t \in File /\ RowFor(Top.sf, t, fs, run) /\ Top.ops \in Seq(OpSet) /\ Cands[t] \in Seq(File)
  BY <1>1, Now, CandsType DEF IsJob
<1>4. DepsOK(d)
  BY Now, ZapDepsOK
<1>5. CASE Candidates(t) = {}
  <2>1. PICK e : e = AddDeps(d, t, "c", Cands[t])
    OBVIOUS
  <2>2. DepsOK(e)
    BY <1>3, <1>4, <2>1, AddDepsOK
  <2>3. CASE Exists(t)
    <3>1. PICK r : r = SetStatic(Top.sf, t)
      OBVIOUS
    <3>2. RowFor(r, t, fs, run) /\ r.stamp # None
      BY <1>3, <3>1, Now, SetStaticFacts, StampFacts
    <3>3. Commit([row EXCEPT ![t] = r], e) /\ Return(0) /\ adopted' = adopted \cup {t}
      BY <1>5, <2>1, <2>3, <3>1 DEF Find
    <3>4. GhostsNext
      BY <1>2, <1>3, <3>3 DEF TypeInv, GhostsOK, GhostsNext
    <3> HIDE DEF t, d
    <3> QED BY <1>1, <1>2, <1>3, <2>2, <3>2, <3>3, <3>4, ReturnWith
  <2>4. CASE ~Exists(t)
    <3>1. Fails(e) /\ UNCHANGED adopted
      BY <1>5, <2>1, <2>4 DEF Find
    <3>2. GhostsNext
      BY <1>2, <3>1, GhostsSame
    <3> QED
      BY <1>1, <1>2, <2>2, <3>1, <3>2, FailsOK
  <2> QED
    BY <2>3, <2>4
<1>6. CASE Candidates(t) # {}
  <2>1. PICK n : n = First(t)
    OBVIOUS
  <2>2. PICK do : do = Cands[t][n]
    OBVIOUS
  <2>3. PICK e : e = AddDep(AddDeps(d, t, "c", SubSeq(Cands[t], 1, n - 1)), t, "m", do)
    OBVIOUS
  <2>4. PICK hit : hit = (May("CacheOn") /\ Top.via = "ifchange" /\ Top.sf.csum = None)
    OBVIOUS
  <2>5. PICK gens : gens = IF hit THEN {f \in ToSet(Required(e[t])) : row[f].gen} ELSE {}
    OBVIOUS
  <2>6. PICK want : want = IF hit THEN Required(e[t]) ELSE <<>>
    OBVIOUS
  <2>7. PICK x : x = [Top EXCEPT !.do = do, !.pc = IF hit THEN "want" ELSE "exec",
                                 !.want = want, !.gens = gens]
    OBVIOUS
  <2>8. NoCommit(MarkDo(do), e) /\ stack' = Put(x) /\ UNCHANGED adopted
    BY <1>6, <2>1, <2>2, <2>3, <2>4, <2>5, <2>6, <2>7 DEF Find
  <2>9. t \in Target /\ do \in Source /\ do \in ToSet(Cands[t]) /\ SubSeq(Cands[t], 1, n - 1) \in Seq(File)
    BY <1>3, <1>6, <2>1, <2>2, Now, FirstFacts
  <2>10. DepsOK(e)
    <3>1. do \in File
      BY <2>9 DEF File
    <3>2. <<do>> \in Seq(File)
      BY <3>1
    <3>3. PICK d2 : d2 = AddDeps(d, t, "c", SubSeq(Cands[t], 1, n - 1))
      OBVIOUS
    <3>4. DepsOK(d2)
      BY <1>4, <2>9, <3>3, AddDepsOK
    <3>5. e = AddDeps(d2, t, "m", <<do>>)
      BY <2>3, <3>3 DEF AddDep
    <3> QED
      BY <3>2, <3>4, <3>5, AddDepsOK
  <2>11. PICK rw : rw = MarkDo(do)
    OBVIOUS
  <2>12. RowsOK(rw, fs, run) /\ RowsStay(row, rw) /\ InSync(rw, saved.row)
    BY <2>9, <2>11, MarkDoFacts
  <2>13. TablesOK(row', dep', saved', fs, run) /\ row' = rw
    BY <2>8, <2>10, <2>11, <2>12, NoCommits
  <2>14. want \in Seq(File)
    BY <2>6, Now, TreeFacts, InOrderType DEF Required
  <2>15. /\ DOMAIN x = JobFields /\ x.cmd = "job" /\ x.t = t /\ x.sf = Top.sf /\ x.do = do
         /\ x.pc \in {"want", "exec"} /\ x.ops = Top.ops /\ x.want = want
    BY <1>1, <2>7 DEF IsJob, JobFields
  <2>16. x.pc \notin {"begin", "wait", "read"}
    BY <2>15
  <2>17. IsFrame(x, fs, row', run)
    <3> HIDE DEF d
    <3> QED BY <1>1, <1>3, <2>9, <2>12, <2>13, <2>14, <2>15, <2>16, TopMoves
  <2>18. stack' = Append(Front(stack), x)
    BY <2>8 DEF Put
  <2>19. StackOK(stack', fs', row', run')
    BY <1>1, <1>2, <2>12, <2>13, <2>17, <2>18, BuildPut
  <2> QED
    BY <1>2, <2>8, <2>13, <2>19, Now, GhostsSame DEF TypeNext
<1> QED
  BY <1>5, <1>6

-----------------------------------------------------------------------------
(* The action cache. *)
LEMMA WantOK ==
    ASSUME TypeInv, Want
    PROVE  TypeNext
<1>1. /\ stack # <<>> /\ Top.cmd = "job" /\ IsJob(Top, fs, row, run) /\ Top.pc = "want"
      /\ Top.pc # "begin" /\ Top.want # <<>>
  BY TopIsJob DEF Want, JobAt
<1>2. UNCHANGED <<fs, world, manual, adopted, run, cache, edits, sure, quiet, built>>
  BY DEF Want, files, ghosts
<1>3. GhostsNext
  BY <1>2, GhostsSame
<1>4. PICK d : d = Head(Top.want)
  OBVIOUS
<1>5. PICK j : j = [Top EXCEPT !.want = Tail(@)]
  OBVIOUS
<1>6. PICK k : k = [j EXCEPT !.pc = "wanted"]
  OBVIOUS
<1>7. /\ Top.want \in Seq(File) /\ Top.ops \in Seq(OpSet)
      /\ Top.t \in Target /\ Top.do \in ToSet(Cands[Top.t]) /\ DOMAIN Top = JobFields
  BY <1>1 DEF IsJob
<1>8. Tail(Top.want) \in Seq(File) /\ d \in File
  BY <1>1, <1>4, <1>7
<1>9. /\ DOMAIN j = JobFields /\ j.cmd = "job" /\ j.t = Top.t /\ j.sf = Top.sf /\ j.pc = "want"
      /\ j.ops = Top.ops /\ j.want = Tail(Top.want) /\ j.do = Top.do
  BY <1>1, <1>5, <1>7 DEF JobFields
<1>10. /\ DOMAIN k = JobFields /\ k.cmd = "job" /\ k.t = Top.t /\ k.sf = Top.sf /\ k.pc = "wanted"
       /\ k.ops = Top.ops /\ k.want = Tail(Top.want) /\ k.do = Top.do
  BY <1>6, <1>9 DEF JobFields
<1>11. CASE stack' = Put(j) /\ UNCHANGED tables
  <2>1. TablesOK(row', dep', saved', fs, run) /\ row' = row
    BY <1>11, TablesSame
  <2>2. RowsStay(row, row')
    BY <2>1, RowsSame
  <2>3. IsFrame(j, fs, row', run)
    BY <1>1, <1>7, <1>8, <1>9, <2>2, TopMoves
  <2>4. stack' = Append(Front(stack), j)
    BY <1>11 DEF Put
  <2>5. StackOK(stack', fs', row', run')
    BY <1>1, <1>2, <2>2, <2>3, <2>4, BuildPut
  <2> QED
    BY <1>2, <1>3, <2>1, <2>5, Now DEF TypeNext
<1>12. CASE stack' = Push(k, Job(d, "want", row[d])) /\ UNCHANGED tables
  <2>1. TablesOK(row', dep', saved', fs, run) /\ row' = row
    BY <1>12, TablesSame
  <2>2. RowsStay(row, row')
    BY <2>1, RowsSame
  <2>3. IsFrame(k, fs, row', run) /\ Waits(k)
    BY <1>1, <1>7, <1>8, <1>10, <2>2, TopMoves DEF Waits
  <2>4. PICK y : y = Job(d, "want", row[d])
    OBVIOUS
  <2>5. IsFrame(y, fs, row', run)
    BY <1>8, <2>1, <2>4, Now, JobFrame
  <2>6. stack' = Append(Append(Front(stack), k), y)
    BY <1>12, <2>4 DEF Put, Push
  <2>7. StackOK(stack', fs', row', run')
    BY <1>1, <1>2, <2>2, <2>3, <2>5, <2>6, BuildPush
  <2> QED
    BY <1>2, <1>3, <2>1, <2>7, Now DEF TypeNext
<1>13. CASE Fails(dep)
  BY <1>1, <1>2, <1>3, <1>13, Now, FailsOK
<1> QED
  BY <1>4, <1>5, <1>6, <1>11, <1>12, <1>13 DEF Want

(* The build at the top goes on; neither tables nor files change. *)
LEMMA QuietMove ==
    ASSUME TypeInv, stack # <<>>, Top.cmd = "job", Top.pc # "begin",
           UNCHANGED <<fs, world, manual, adopted, run, edits, sure, built>>,
           TablesOK(row', dep', saved', fs, run), RowsStay(row, row'),
           NEW g, stack' = Put(g), DOMAIN g = JobFields, g.cmd = "job", g.t = Top.t, g.sf = Top.sf,
           g.ops \in Seq(OpSet), g.want \in Seq(File), g.pc # "begin",
           g.pc # "find" => Top.t \in Target /\ g.do \in ToSet(Cands[Top.t]),
           g.pc \in {"wait", "read"} => g.ops # <<>>
    PROVE  TypeNext
<1>1. IsFrame(g, fs, row', run)
  BY TopMoves
<1>2. StackOK(stack', fs', row', run')
  BY <1>1, BuildPut DEF Put
<1> QED
  BY <1>2, Now, GhostsSame DEF TypeNext

LEMMA LookupOK ==
    ASSUME TypeInv, Lookup
    PROVE  TypeNext
<1> DEFINE t == Top.t
<1>1. /\ stack # <<>> /\ Top.cmd = "job" /\ IsJob(Top, fs, row, run) /\ Top.pc = "want"
      /\ Top.pc # "begin"
  BY TopIsJob DEF Lookup, JobAt
<1>2. UNCHANGED <<world, run, cache, edits, sure, quiet, built>> /\ UNCHANGED tables
  BY DEF Lookup, ghosts
<1>3. /\ Top.want \in Seq(File) /\ Top.ops \in Seq(OpSet)
      /\ t \in Target /\ Top.do \in ToSet(Cands[t]) /\ DOMAIN Top = JobFields
  BY <1>1 DEF IsJob
<1>4. CASE stack' = Put([Top EXCEPT !.pc = "exec", !.key = Cacheable(dep, t)]) /\ UNCHANGED <<fs, manual, adopted>>
  <2>1. PICK x : x = [Top EXCEPT !.pc = "exec", !.key = Cacheable(dep, t)]
    OBVIOUS
  <2>2. /\ DOMAIN x = JobFields /\ x.cmd = "job" /\ x.t = t /\ x.sf = Top.sf /\ x.pc = "exec"
        /\ x.ops = Top.ops /\ x.want = Top.want /\ x.do = Top.do
    BY <1>1, <1>3, <2>1 DEF JobFields
  <2>3. TablesOK(row', dep', saved', fs, run) /\ RowsStay(row, row')
    BY <1>2, TablesSame, RowsSame
  <2>4. stack' = Put(x)
    BY <1>4, <2>1
  <2> QED
    BY <1>1, <1>2, <1>3, <1>4, <2>2, <2>3, <2>4, QuietMove
<1>5. ASSUME NEW e, fs' = [fs EXCEPT ![t] = Written(@, e.data)],
             manual' = manual \ {t}, adopted' = adopted \ {t},
             stack' = Put([Top EXCEPT !.pc = "hit"])
      PROVE  TypeNext
  <2>1. PICK x : x = [Top EXCEPT !.pc = "hit"]
    OBVIOUS
  <2>2. /\ DOMAIN x = JobFields /\ x.cmd = "job" /\ x.t = t /\ x.sf = Top.sf /\ x.pc = "hit"
        /\ x.ops = Top.ops /\ x.want = Top.want /\ x.do = Top.do
    BY <1>1, <1>3, <2>1 DEF JobFields
  <2>3. PICK v : v = Written(fs[t], e.data)
    OBVIOUS
  <2>4. fs' = [fs EXCEPT ![t] = v]
    BY <1>5, <2>3
  <2>5. FsOK(fs') /\ FilesStay(fs, fs')
    BY <1>3, <2>3, <2>4, Now, TreeFacts, OneFile
  <2>6. stack' = Append(Front(stack), x)
    BY <1>5, <2>1 DEF Put
  <2>7. TablesOK(row', dep', saved', fs', run') /\ StackOK(stack', fs', row', run')
    BY <1>1, <1>2, <1>3, <2>2, <2>5, <2>6, FilePut
  <2>8. GhostsNext
    BY <1>2, <1>5 DEF TypeInv, GhostsOK, GhostsNext
  <2> QED
    BY <2>5, <2>7, <2>8 DEF TypeNext
<1> QED
  BY <1>4, <1>5 DEF Lookup

LEMMA HitRecordOK ==
    ASSUME TypeInv, HitRecord
    PROVE  TypeNext
<1> DEFINE t == Top.t
<1>1. stack # <<>> /\ Top.cmd = "job" /\ IsJob(Top, fs, row, run)
  BY TopIsJob DEF HitRecord, JobAt
<1>2. UNCHANGED <<fs, world, manual, adopted, run, cache, edits, sure, quiet, built>>
  BY DEF HitRecord, files, ghosts
<1>3. t \in File /\ RowFor(row[t], t, fs, run)
  BY <1>1, Now DEF IsJob, RowsOK
<1>4. PICK r : r = UpdateStamp(HitRow(row[t]), t)
  OBVIOUS
<1>5. RowFor(r, t, fs, run) /\ r.stamp # None
  BY <1>3, <1>4, Now, HitRowFacts, StampFacts
<1>6. PICK d : d = [dep EXCEPT ![t] = [f \in DOMAIN @ |-> [@[f] EXCEPT !.del = FALSE]]]
  OBVIOUS
<1>7. DepsOK(d)
  <2>1. DepsOK(dep)
    BY Now
  <2>2. DOMAIN d = Source \cup Target
    BY <1>6, <2>1 DEF DepsOK
  <2>3. ASSUME NEW u \in Source \cup Target PROVE IsDeps(d[u])
    <3>1. IsDeps(dep[u])
      BY <2>1 DEF DepsOK
    <3>2. CASE u # t
      BY <1>6, <2>1, <3>1, <3>2 DEF DepsOK
    <3>3. CASE u = t
      <4>1. d[u] = [f \in DOMAIN dep[u] |-> [dep[u][f] EXCEPT !.del = FALSE]]
        BY <1>6, <2>1, <3>3 DEF DepsOK
      <4>2. ASSUME NEW f \in DOMAIN dep[u] PROVE IsDep(d[u][f])
        BY <3>1, <4>1, MarkDepOK DEF IsDeps
      <4> QED
        BY <3>1, <4>1, <4>2 DEF IsDeps
    <3> QED
      BY <3>2, <3>3
  <2> QED
    BY <2>2, <2>3 DEF DepsOK
<1>8. Commit([row EXCEPT ![t] = r], d) /\ Return(0)
  BY <1>4, <1>6 DEF HitRecord, HitRow
<1>9. GhostsNext
  BY <1>2, GhostsSame
<1> HIDE DEF t
<1> QED
  BY <1>1, <1>2, <1>3, <1>5, <1>7, <1>8, <1>9, ReturnWith

LEMMA ExecOK ==
    ASSUME TypeInv, Exec
    PROVE  TypeNext
<1>1. /\ stack # <<>> /\ Top.cmd = "job" /\ IsJob(Top, fs, row, run) /\ Top.pc = "exec"
      /\ Top.pc # "begin"
  BY TopIsJob DEF Exec, JobAt
<1>2. UNCHANGED <<fs, world, manual, adopted, run, cache, edits, sure, quiet>>
  BY DEF Exec, files
<1>3. /\ Top.want \in Seq(File) /\ Top.ops \in Seq(OpSet)
      /\ Top.t \in Target /\ Top.do \in ToSet(Cands[Top.t]) /\ DOMAIN Top = JobFields
  BY <1>1 DEF IsJob
<1>4. TablesOK(row', dep', saved', fs, run) /\ row' = row
  BY Now, Commits DEF Exec
<1>5. RowsStay(row, row')
  BY <1>4, RowsSame
<1>6. PICK do : do = Top.do
  OBVIOUS
<1>7. PICK x : x = IF Exists(do)
                    THEN [Top EXCEPT !.pc = "script", !.ops = Script[do][fs[do].data],
                                     !.ins = {<<do, fs[do].data>>}]
                    ELSE [Top EXCEPT !.pc = "fail"]
  OBVIOUS
<1>8. stack' = Append(Front(stack), x) /\ built' = built \cup {Top.t}
  BY <1>6, <1>7 DEF Exec, Put
<1>9. do \in Source
  <2>1. Cands[Top.t] \in Seq(Source)
    BY <1>3, Now, TreeFacts
  <2> QED
    BY <1>3, <1>6, <2>1 DEF ToSet
<1>10. IsFrame(x, fs, row', run)
  <2>1. CASE Exists(do)
    <3>1. PICK ops : ops = Script[do][fs[do].data]
      OBVIOUS
    <3>2. fs[do].data \in Data
      BY <1>9, <2>1, Now DEF Exists, FsOK
    <3>3. ops \in Seq(OpSet)
      BY <1>3, <1>6, <3>1, <3>2, Now, TreeFacts
    <3>4. /\ DOMAIN x = JobFields /\ x.cmd = "job" /\ x.t = Top.t /\ x.sf = Top.sf /\ x.pc = "script"
          /\ x.ops = ops /\ x.want = Top.want /\ x.do = Top.do
      BY <1>1, <1>3, <1>7, <2>1, <3>1 DEF JobFields
    <3> QED
      BY <1>1, <1>3, <1>5, <3>3, <3>4, TopMoves
  <2>2. CASE ~Exists(do)
    <3>1. /\ DOMAIN x = JobFields /\ x.cmd = "job" /\ x.t = Top.t /\ x.sf = Top.sf /\ x.pc = "fail"
          /\ x.ops = Top.ops /\ x.want = Top.want /\ x.do = Top.do
      BY <1>1, <1>3, <1>7, <2>2 DEF JobFields
    <3> QED
      BY <1>1, <1>3, <1>5, <3>1, TopMoves
  <2> QED
    BY <2>1, <2>2
<1>11. StackOK(stack', fs', row', run')
  BY <1>1, <1>2, <1>5, <1>8, <1>10, BuildPut
<1>12. GhostsNext
  BY <1>2, <1>3, <1>8 DEF TypeInv, GhostsOK, GhostsNext
<1> QED
  BY <1>2, <1>4, <1>11, <1>12, Now DEF TypeNext

-----------------------------------------------------------------------------
(* The script. *)
LEMMA JobFacts ==
    ASSUME TypeInv, stack # <<>>, Top.cmd = "job", Top.pc \notin {"begin", "find"}
    PROVE  /\ IsJob(Top, fs, row, run) /\ DOMAIN Top = JobFields
           /\ Top.want \in Seq(File) /\ Top.ops \in Seq(OpSet)
           /\ Top.t \in Target /\ Top.t \in File /\ Top.t \in Source \cup Target
           /\ Top.do \in ToSet(Cands[Top.t])
           /\ RowFor(Top.sf, Top.t, fs, run) /\ RowFor(row[Top.t], Top.t, fs, run)
<1>1. IsJob(Top, fs, row, run)
  BY TopIsJob
<1>2. Top.t \in Target
  BY <1>1 DEF IsJob
<1>3. Top.t \in File
  BY <1>2 DEF File
<1>4. RowFor(row[Top.t], Top.t, fs, run)
  BY <1>3, Now DEF RowsOK
<1> QED
  BY <1>1, <1>2, <1>3, <1>4 DEF IsJob

LEMMA OpFacts ==
    ASSUME NEW ops \in Seq(OpSet), ops # <<>>
    PROVE  Head(ops).on \in Seq(File) /\ Tail(ops) \in Seq(OpSet)
<1>1. Head(ops) \in OpSet /\ Tail(ops) \in Seq(OpSet)
  OBVIOUS
<1>2. Head(ops).on \in Seq(Source \cup Target)
  BY <1>1 DEF OpSet
<1>3. Head(ops).on \in Seq(File)
  BY <1>2 DEF File
<1> QED
  BY <1>1, <1>3

LEMMA OpIfchangeOK ==
    ASSUME TypeInv, OpIfchange
    PROVE  TypeNext
<1>1. stack # <<>> /\ Top.cmd = "job" /\ Top.pc = "script" /\ Top.pc \notin {"begin", "find"} /\ Top.ops # <<>>
  BY DEF OpIfchange, Op, JobAt
<1>2. UNCHANGED <<fs, world, manual, adopted, run, cache, edits, sure, quiet, built>>
  BY DEF OpIfchange, files, ghosts
<1>3. /\ DOMAIN Top = JobFields /\ Top.want \in Seq(File) /\ Top.ops \in Seq(OpSet)
      /\ Top.t \in Target /\ Top.do \in ToSet(Cands[Top.t])
  BY <1>1, JobFacts
<1>4. PICK on : on = Head(Top.ops).on
  OBVIOUS
<1>5. PICK d : d = AddDeps(dep, Top.t, "m", on)
  OBVIOUS
<1>6. on \in Seq(File)
  BY <1>1, <1>3, <1>4, OpFacts
<1>7. DepsOK(d)
  BY <1>5, <1>6, Now, AddDepsOK
<1>8. TablesOK(row', dep', saved', fs, run) /\ row' = row
  BY <1>4, <1>5, <1>7, Now, Commits DEF OpIfchange
<1>9. RowsStay(row, row')
  BY <1>8, RowsSame
<1>10. PICK x : x = [Top EXCEPT !.pc = "wait"]
  OBVIOUS
<1>11. PICK y : y = Cmd("ifchange", on, Top.t, FALSE)
  OBVIOUS
<1>12. stack' = Append(Append(Front(stack), x), y)
  BY <1>4, <1>10, <1>11 DEF OpIfchange, Put, Push
<1>13. /\ DOMAIN x = JobFields /\ x.cmd = "job" /\ x.t = Top.t /\ x.sf = Top.sf /\ x.pc = "wait"
       /\ x.ops = Top.ops /\ x.want = Top.want /\ x.do = Top.do
  BY <1>1, <1>3, <1>10 DEF JobFields
<1>14. IsFrame(x, fs, row', run) /\ Waits(x)
  BY <1>1, <1>3, <1>9, <1>13, TopMoves DEF Waits
<1>15. IsFrame(y, fs, row', run)
  BY <1>6, <1>11, CmdFrame
<1>16. StackOK(stack', fs', row', run')
  BY <1>1, <1>2, <1>9, <1>12, <1>14, <1>15, BuildPush
<1> QED
  BY <1>2, <1>8, <1>16, Now, GhostsSame DEF TypeNext

LEMMA OpReadOK ==
    ASSUME TypeInv, OpRead
    PROVE  TypeNext
<1>1. /\ stack # <<>> /\ Top.cmd = "job" /\ Top.pc = "read" /\ Top.pc # "begin"
      /\ Top.pc \notin {"begin", "find"}
  BY DEF OpRead, JobAt
<1>2. /\ UNCHANGED <<fs, world, manual, adopted, run, cache, edits, sure, quiet, built>>
      /\ UNCHANGED tables
  BY DEF OpRead, files, ghosts
<1>3. /\ DOMAIN Top = JobFields /\ Top.want \in Seq(File) /\ Top.ops \in Seq(OpSet)
      /\ Top.t \in Target /\ Top.do \in ToSet(Cands[Top.t]) /\ Top.ops # <<>>
  BY <1>1, JobFacts DEF IsJob
<1>4. PICK x : x = [Top EXCEPT !.pc = "script", !.ops = Tail(@),
                               !.ins = @ \cup {<<f, fs[f].data>> : f \in ToSet(Head(Top.ops).on)}]
  OBVIOUS
<1>5. /\ DOMAIN x = JobFields /\ x.cmd = "job" /\ x.t = Top.t /\ x.sf = Top.sf /\ x.pc = "script"
      /\ x.ops = Tail(Top.ops) /\ x.want = Top.want /\ x.do = Top.do
  BY <1>1, <1>3, <1>4 DEF JobFields
<1>6. x.ops \in Seq(OpSet)
  BY <1>3, <1>5, OpFacts
<1>7. TablesOK(row', dep', saved', fs, run) /\ RowsStay(row, row')
  BY <1>2, TablesSame, RowsSame
<1>8. stack' = Put(x)
  BY <1>4 DEF OpRead
<1> QED
  BY <1>1, <1>2, <1>3, <1>5, <1>6, <1>7, <1>8, QuietMove

LEMMA OpIfcreateOK ==
    ASSUME TypeInv, OpIfcreate
    PROVE  TypeNext
<1>1. /\ stack # <<>> /\ Top.cmd = "job" /\ Top.pc = "script" /\ Top.pc # "begin"
      /\ Top.pc \notin {"begin", "find"} /\ Top.ops # <<>>
  BY DEF OpIfcreate, Op, JobAt
<1>2. UNCHANGED <<fs, world, manual, adopted, run, cache, edits, sure, quiet, built>>
  BY DEF OpIfcreate, files, ghosts
<1>3. /\ DOMAIN Top = JobFields /\ Top.want \in Seq(File) /\ Top.ops \in Seq(OpSet)
      /\ Top.t \in Target /\ Top.do \in ToSet(Cands[Top.t])
  BY <1>1, JobFacts
<1>4. PICK on : on = Head(Top.ops).on
  OBVIOUS
<1>5. CASE stack' = Put([Top EXCEPT !.pc = "fail"]) /\ UNCHANGED tables
  <2>1. PICK x : x = [Top EXCEPT !.pc = "fail"]
    OBVIOUS
  <2>2. /\ DOMAIN x = JobFields /\ x.cmd = "job" /\ x.t = Top.t /\ x.sf = Top.sf /\ x.pc = "fail"
        /\ x.ops = Top.ops /\ x.want = Top.want /\ x.do = Top.do
    BY <1>1, <1>3, <2>1 DEF JobFields
  <2>3. TablesOK(row', dep', saved', fs, run) /\ RowsStay(row, row')
    BY <1>5, TablesSame, RowsSame
  <2>4. stack' = Put(x)
    BY <1>5, <2>1
  <2> QED
    BY <1>1, <1>2, <1>3, <2>2, <2>3, <2>4, QuietMove
<1>6. CASE Commit(row, AddDeps(dep, Top.t, "c", on)) /\ stack' = Put([Top EXCEPT !.ops = Tail(@)])
  <2>1. PICK x : x = [Top EXCEPT !.ops = Tail(@)]
    OBVIOUS
  <2>2. /\ DOMAIN x = JobFields /\ x.cmd = "job" /\ x.t = Top.t /\ x.sf = Top.sf /\ x.pc = "script"
        /\ x.ops = Tail(Top.ops) /\ x.want = Top.want /\ x.do = Top.do
    BY <1>1, <1>3, <2>1 DEF JobFields
  <2>3. x.ops \in Seq(OpSet) /\ on \in Seq(File)
    BY <1>1, <1>3, <1>4, <2>2, OpFacts
  <2>4. PICK d : d = AddDeps(dep, Top.t, "c", on)
    OBVIOUS
  <2>5. DepsOK(d)
    BY <2>3, <2>4, Now, AddDepsOK
  <2>6. TablesOK(row', dep', saved', fs, run) /\ RowsStay(row, row')
    BY <1>6, <2>4, <2>5, Now, Commits, RowsSame
  <2>7. stack' = Put(x)
    BY <1>6, <2>1
  <2> QED
    BY <1>1, <1>2, <1>3, <2>2, <2>3, <2>6, <2>7, QuietMove
<1> QED
  BY <1>4, <1>5, <1>6 DEF OpIfcreate

LEMMA OpAlwaysOK ==
    ASSUME TypeInv, OpAlways
    PROVE  TypeNext
<1>1. /\ stack # <<>> /\ Top.cmd = "job" /\ Top.pc = "script" /\ Top.pc # "begin"
      /\ Top.pc \notin {"begin", "find"} /\ Top.ops # <<>>
  BY DEF OpAlways, Op, JobAt
<1>2. UNCHANGED <<fs, world, manual, adopted, run, cache, edits, sure, quiet, built>>
  BY DEF OpAlways, files, ghosts
<1>3. /\ DOMAIN Top = JobFields /\ Top.want \in Seq(File) /\ Top.ops \in Seq(OpSet)
      /\ Top.t \in Target /\ Top.do \in ToSet(Cands[Top.t])
  BY <1>1, JobFacts
<1>4. PICK x : x = [Top EXCEPT !.ops = Tail(@), !.ins = @ \cup {<<World, world>>}]
  OBVIOUS
<1>5. /\ DOMAIN x = JobFields /\ x.cmd = "job" /\ x.t = Top.t /\ x.sf = Top.sf /\ x.pc = "script"
      /\ x.ops = Tail(Top.ops) /\ x.want = Top.want /\ x.do = Top.do
  BY <1>1, <1>3, <1>4 DEF JobFields
<1>6. x.ops \in Seq(OpSet)
  BY <1>1, <1>3, <1>5, OpFacts
<1>7. PICK r : r = AlwaysRow(row[Always])
  OBVIOUS
<1>8. PICK d : d = AddDeps(dep, Top.t, "m", <<Always>>)
  OBVIOUS
<1>9. Always \in File
  BY DEF File
<1>10. RowFor(r, Always, fs, run) /\ r.stamp # None
  BY <1>7, <1>9, Now, AlwaysRowFacts DEF RowsOK
<1>11. DepsOK(d)
  <2>1. <<Always>> \in Seq(File)
    BY <1>9
  <2> QED
    BY <1>8, <2>1, Now, AddDepsOK
<1>12. Commit([row EXCEPT ![Always] = r], d) /\ stack' = Put(x)
  BY <1>4, <1>7, <1>8 DEF OpAlways, AlwaysRow, AddDep
<1>13. TablesOK(row', dep', saved', fs, run) /\ RowsStay(row, row')
  BY <1>9, <1>10, <1>11, <1>12, CommitRow
<1> QED
  BY <1>1, <1>2, <1>3, <1>5, <1>6, <1>12, <1>13, QuietMove

LEMMA OpStampOK ==
    ASSUME TypeInv, OpStamp
    PROVE  TypeNext
<1>1. /\ stack # <<>> /\ Top.cmd = "job" /\ Top.pc = "script" /\ Top.pc # "begin"
      /\ Top.pc \notin {"begin", "find"} /\ Top.ops # <<>>
  BY DEF OpStamp, Op, JobAt
<1>2. UNCHANGED <<fs, world, manual, adopted, run, cache, edits, sure, quiet, built>>
  BY DEF OpStamp, files, ghosts
<1>3. /\ DOMAIN Top = JobFields /\ Top.want \in Seq(File) /\ Top.ops \in Seq(OpSet)
      /\ Top.t \in Target /\ Top.t \in File /\ Top.do \in ToSet(Cands[Top.t])
      /\ RowFor(row[Top.t], Top.t, fs, run)
  BY <1>1, JobFacts
<1>4. PICK x : x = [Top EXCEPT !.ops = Tail(@)]
  OBVIOUS
<1>5. /\ DOMAIN x = JobFields /\ x.cmd = "job" /\ x.t = Top.t /\ x.sf = Top.sf /\ x.pc = "script"
      /\ x.ops = Tail(Top.ops) /\ x.want = Top.want /\ x.do = Top.do
  BY <1>1, <1>3, <1>4 DEF JobFields
<1>6. x.ops \in Seq(OpSet)
  BY <1>1, <1>3, <1>5, OpFacts
<1>7. PICK r : r = StampRow(row[Top.t], Output(Top.do, Top.ins))
  OBVIOUS
<1>8. RowFor(r, Top.t, fs, run) /\ r.stamp = row[Top.t].stamp /\ r.gen
  BY <1>3, <1>7, Now, StampRowFacts
<1>9. Commit([row EXCEPT ![Top.t] = r], dep) /\ stack' = Put(x)
  BY <1>4, <1>7 DEF OpStamp
<1>10. TablesOK(row', dep', saved', fs, run) /\ RowsStay(row, row')
  BY <1>3, <1>8, <1>9, Now, CommitRow
<1> QED
  BY <1>1, <1>2, <1>3, <1>5, <1>6, <1>9, <1>10, QuietMove

-----------------------------------------------------------------------------
(* After the script. *)
LEMMA RenameOK ==
    ASSUME TypeInv, Rename
    PROVE  TypeNext
<1>1. /\ stack # <<>> /\ Top.cmd = "job" /\ Top.pc = "script" /\ Top.pc # "begin"
      /\ Top.pc \notin {"begin", "find"}
  BY DEF Rename, JobAt
<1>2. UNCHANGED <<world, run, cache, edits, sure, quiet, built>> /\ UNCHANGED tables
  BY DEF Rename, ghosts
<1>3. /\ DOMAIN Top = JobFields /\ Top.want \in Seq(File) /\ Top.ops \in Seq(OpSet)
      /\ Top.t \in Target /\ Top.do \in ToSet(Cands[Top.t])
  BY <1>1, JobFacts
<1>4. PICK x : x = [Top EXCEPT !.pc = "record"]
  OBVIOUS
<1>5. /\ DOMAIN x = JobFields /\ x.cmd = "job" /\ x.t = Top.t /\ x.sf = Top.sf /\ x.pc = "record"
      /\ x.ops = Top.ops /\ x.want = Top.want /\ x.do = Top.do
  BY <1>1, <1>3, <1>4 DEF JobFields
<1>6. PICK out : out = Output(Top.do, Top.ins)
  OBVIOUS
<1>7. PICK v : v = IF Top.t \in Phony THEN Removed(fs[Top.t]) ELSE Written(fs[Top.t], out)
  OBVIOUS
<1>8. fs' = [fs EXCEPT ![Top.t] = v] /\ stack' = Append(Front(stack), x)
  BY <1>4, <1>6, <1>7 DEF Rename, Put
<1>9. FsOK(fs') /\ FilesStay(fs, fs')
  BY <1>3, <1>7, <1>8, Now, TreeFacts, OneFile
<1>10. TablesOK(row', dep', saved', fs', run') /\ StackOK(stack', fs', row', run')
  BY <1>1, <1>2, <1>3, <1>5, <1>8, <1>9, FilePut
<1>11. GhostsNext
  BY <1>2 DEF TypeInv, GhostsOK, GhostsNext, Rename
<1> QED
  BY <1>9, <1>10, <1>11 DEF TypeNext

LEMMA CopyFailsOK ==
    ASSUME TypeInv, CopyFails
    PROVE  TypeNext
<1>1. /\ stack # <<>> /\ Top.cmd = "job" /\ Top.pc = "script" /\ Top.pc # "begin"
      /\ Top.pc \notin {"begin", "find"}
  BY DEF CopyFails, JobAt
<1>2. UNCHANGED <<world, manual, adopted, run, cache, edits, sure, quiet, built>> /\ UNCHANGED tables
  BY DEF CopyFails, ghosts
<1>3. /\ DOMAIN Top = JobFields /\ Top.want \in Seq(File) /\ Top.ops \in Seq(OpSet)
      /\ Top.t \in Target /\ Top.do \in ToSet(Cands[Top.t])
  BY <1>1, JobFacts
<1>4. PICK x : x = [Top EXCEPT !.pc = "uncopied"]
  OBVIOUS
<1>5. /\ DOMAIN x = JobFields /\ x.cmd = "job" /\ x.t = Top.t /\ x.sf = Top.sf /\ x.pc = "uncopied"
      /\ x.ops = Top.ops /\ x.want = Top.want /\ x.do = Top.do
  BY <1>1, <1>3, <1>4 DEF JobFields
<1>6. PICK v : v = Removed(fs[Top.t])
  OBVIOUS
<1>7. fs' = [fs EXCEPT ![Top.t] = v] /\ stack' = Append(Front(stack), x)
  BY <1>4, <1>6 DEF CopyFails, Put
<1>8. FsOK(fs') /\ FilesStay(fs, fs')
  BY <1>3, <1>6, <1>7, Now, TreeFacts, OneFile
<1>9. TablesOK(row', dep', saved', fs', run') /\ StackOK(stack', fs', row', run')
  BY <1>1, <1>2, <1>3, <1>5, <1>7, <1>8, FilePut
<1>10. GhostsNext
  BY <1>2, GhostsSame
<1> QED
  BY <1>8, <1>9, <1>10 DEF TypeNext

LEMMA RecordOK ==
    ASSUME TypeInv, Record
    PROVE  TypeNext
<1>1. stack # <<>> /\ Top.cmd = "job" /\ Top.pc \notin {"begin", "find"}
  BY DEF Record, JobAt
<1>2. UNCHANGED <<fs, world, manual, adopted, run, edits, sure, quiet, built>>
  BY DEF Record, files, ghosts
<1>3. PICK t : t = Top.t
  OBVIOUS
<1>4. t \in File /\ RowFor(row[t], t, fs, run)
  BY <1>1, <1>3, JobFacts
<1>5. PICK r : r = Recorded(row[t], t)
  OBVIOUS
<1>6. RowFor(r, t, fs, run) /\ r.stamp # None
  BY <1>4, <1>5, Now, RecordedFacts, StampFacts
<1>7. PICK d : d = ZapDeps2(dep, t)
  OBVIOUS
<1>8. DepsOK(d)
  BY <1>7, Now, ZapDepsOK
<1>9. Commit([row EXCEPT ![t] = r], d) /\ Return(0)
  BY <1>3, <1>5, <1>7 DEF Record
<1>10. GhostsNext
  BY <1>2, GhostsSame
<1> QED
  BY <1>1, <1>2, <1>4, <1>6, <1>8, <1>9, <1>10, ReturnWith

LEMMA RecordCopyFailureOK ==
    ASSUME TypeInv, RecordCopyFailure
    PROVE  TypeNext
<1>1. stack # <<>> /\ Top.cmd = "job" /\ Top.pc \notin {"begin", "find"}
  BY DEF RecordCopyFailure, JobAt
<1>2. UNCHANGED <<fs, world, manual, adopted, run, cache, edits, sure, quiet, built>>
  BY DEF RecordCopyFailure, files, ghosts
<1>3. PICK t : t = Top.t
  OBVIOUS
<1>4. t \in File /\ RowFor(Top.sf, t, fs, run)
  BY <1>1, <1>3, JobFacts
<1>5. PICK q : q = Recorded(Top.sf, t)
  OBVIOUS
<1>6. RowFor(q, t, fs, run)
  BY <1>4, <1>5, Now, RecordedFacts
<1>7. PICK r : r = SetFailed(q, t)
  OBVIOUS
<1>8. RowFor(r, t, fs, run) /\ r.stamp # None
  BY <1>4, <1>6, <1>7, Now, SetFailedFacts, StampFacts
<1>9. PICK d : d = ZapDeps2(dep, t)
  OBVIOUS
<1>10. DepsOK(d)
  BY <1>9, Now, ZapDepsOK
<1>11. Commit([row EXCEPT ![t] = r], d) /\ Return(1)
  BY <1>3, <1>5, <1>7, <1>9 DEF RecordCopyFailure
<1>12. GhostsNext
  BY <1>2, GhostsSame
<1> QED
  BY <1>1, <1>2, <1>4, <1>8, <1>10, <1>11, <1>12, ReturnWith

LEMMA ScriptFailsOK ==
    ASSUME TypeInv, ScriptFails
    PROVE  TypeNext
<1>1. /\ stack # <<>> /\ Top.cmd = "job" /\ Top.pc = "script" /\ Top.pc # "begin"
      /\ Top.pc \notin {"begin", "find"}
  BY DEF ScriptFails, JobAt
<1>2. /\ UNCHANGED <<fs, world, manual, adopted, run, cache, edits, sure, quiet, built>>
      /\ UNCHANGED tables
  BY DEF ScriptFails, files, ghosts
<1>3. /\ DOMAIN Top = JobFields /\ Top.want \in Seq(File) /\ Top.ops \in Seq(OpSet)
      /\ Top.t \in Target /\ Top.do \in ToSet(Cands[Top.t])
  BY <1>1, JobFacts
<1>4. PICK x : x = [Top EXCEPT !.pc = "fail"]
  OBVIOUS
<1>5. /\ DOMAIN x = JobFields /\ x.cmd = "job" /\ x.t = Top.t /\ x.sf = Top.sf /\ x.pc = "fail"
      /\ x.ops = Top.ops /\ x.want = Top.want /\ x.do = Top.do
  BY <1>1, <1>3, <1>4 DEF JobFields
<1>6. TablesOK(row', dep', saved', fs, run) /\ RowsStay(row, row')
  BY <1>2, TablesSame, RowsSame
<1>7. stack' = Put(x)
  BY <1>4 DEF ScriptFails
<1> QED
  BY <1>1, <1>2, <1>3, <1>5, <1>6, <1>7, QuietMove

LEMMA RecordFailureOK ==
    ASSUME TypeInv, RecordFailure
    PROVE  TypeNext
<1>1. stack # <<>> /\ Top.cmd = "job"
  BY DEF RecordFailure, JobAt
<1>2. UNCHANGED <<fs, world, manual, adopted, run, cache, edits, sure, quiet, built>>
  BY DEF RecordFailure, files, ghosts
<1>3. GhostsNext
  BY <1>2, GhostsSame
<1>4. PICK d : d \in {dep, ZapDeps2(dep, Top.t)} /\ Fails(d)
  BY DEF RecordFailure
<1>5. DepsOK(d)
  BY <1>4, Now, ZapDepsOK
<1> QED
  BY <1>1, <1>2, <1>3, <1>4, <1>5, FailsOK

-----------------------------------------------------------------------------
(* redo-unlocked, and the crash. *)
LEMMA OobMoves ==
    ASSUME NEW F, NEW R, NEW n, NEW f, IsOob(f), NEW g, DOMAIN g = OobFields, g.cmd = "oob",
           g.t = f.t, g.list = f.list
    PROVE  IsFrame(g, F, R, n) /\ Waits(g)
  BY DEF IsOob, IsFrame, Waits

LEMMA OobDepsOK ==
    ASSUME TypeInv, OobDeps
    PROVE  TypeNext
<1>1. stack # <<>> /\ IsOob(Top) /\ DOMAIN Top = OobFields /\ Top.cmd = "oob"
  BY TopIsOob DEF OobDeps, OobAt, IsOob
<1>2. UNCHANGED <<fs, world, manual, adopted, run, cache, edits, sure, quiet, built>>
  BY DEF OobDeps, files, ghosts
<1>3. PICK d : d = IF Top.me = None THEN dep ELSE AddDeps(dep, Top.me, "m", Top.list)
  OBVIOUS
<1>4. Top.list \in Seq(File) /\ DepsOK(d)
  BY <1>1, <1>3, Now, AddDepsOK DEF IsOob
<1>5. TablesOK(row', dep', saved', fs, run) /\ row' = row
  BY <1>3, <1>4, Now, Commits DEF OobDeps
<1>6. PICK x : x = [Top EXCEPT !.pc = "deps1"]
  OBVIOUS
<1>7. DOMAIN x = OobFields /\ x.cmd = "oob" /\ x.t = Top.t /\ x.list = Top.list
  BY <1>1, <1>6 DEF OobFields
<1>8. PICK y : y = Cmd("ifchange", Top.list, Top.me, TRUE)
  OBVIOUS
<1>9. IsFrame(x, fs, row', run) /\ Waits(x) /\ IsFrame(y, fs, row', run)
  BY <1>1, <1>4, <1>7, <1>8, OobMoves, CmdFrame
<1>10. stack' = Append(Append(Front(stack), x), y)
  BY <1>6, <1>8 DEF OobDeps, Put, Push
<1>11. StackOK(stack', fs', row', run')
  BY <1>1, <1>2, <1>5, <1>9, <1>10, RowsSame, BuildPush
<1> QED
  BY <1>2, <1>5, <1>11, Now, GhostsSame DEF TypeNext

LEMMA OobSelfOK ==
    ASSUME TypeInv, OobSelf
    PROVE  TypeNext
<1>1. stack # <<>> /\ IsOob(Top) /\ DOMAIN Top = OobFields /\ Top.cmd = "oob" /\ Top.t \in File
  BY TopIsOob DEF OobSelf, OobAt, IsOob
<1>2. /\ UNCHANGED <<fs, world, manual, adopted, run, cache, edits, sure, quiet, built>>
      /\ UNCHANGED tables
  BY DEF OobSelf, files, ghosts
<1>3. TablesOK(row', dep', saved', fs, run) /\ row' = row
  BY <1>2, TablesSame
<1>4. PICK x : x = [Top EXCEPT !.pc = "self1"]
  OBVIOUS
<1>5. DOMAIN x = OobFields /\ x.cmd = "oob" /\ x.t = Top.t /\ x.list = Top.list
  BY <1>1, <1>4 DEF OobFields
<1>6. PICK y : y = Cmd("unlocked", <<Top.t>>, Top.me, TRUE)
  OBVIOUS
<1>7. <<Top.t>> \in Seq(File)
  BY <1>1
<1>8. IsFrame(x, fs, row', run) /\ Waits(x) /\ IsFrame(y, fs, row', run)
  BY <1>1, <1>5, <1>6, <1>7, OobMoves, CmdFrame
<1>9. stack' = Append(Append(Front(stack), x), y)
  BY <1>4, <1>6 DEF OobSelf, Put, Push
<1>10. StackOK(stack', fs', row', run')
  BY <1>1, <1>2, <1>3, <1>8, <1>9, RowsSame, BuildPush
<1> QED
  BY <1>2, <1>3, <1>10, Now, GhostsSame DEF TypeNext

LEMMA OobEndOK ==
    ASSUME TypeInv, OobEnd
    PROVE  TypeNext
<1>1. stack # <<>>
  BY DEF OobEnd, OobAt
<1>2. /\ UNCHANGED <<fs, world, manual, adopted, run, cache, edits, sure, quiet, built>>
      /\ UNCHANGED tables
  BY DEF OobEnd, files, ghosts
<1>3. TablesOK(row', dep', saved', fs, run) /\ row' = row
  BY <1>2, TablesSame
<1>4. PICK rv : Return(rv)
  BY DEF OobEnd
<1>5. StackOK(stack', fs', row', run')
  BY <1>1, <1>2, <1>3, <1>4, RowsSame, BuildReturn
<1> QED
  BY <1>2, <1>3, <1>5, Now, GhostsSame DEF TypeNext

LEMMA CrashOK ==
    ASSUME TypeInv, Crash
    PROVE  TypeNext
<1>1. /\ UNCHANGED <<fs, world, manual, adopted, saved, run, cache, edits, quiet, built>>
      /\ row' = saved.row /\ dep' = saved.dep /\ stack' = <<>> /\ sure' = {}
  BY DEF Crash, files
<1>2. InSync(row', saved'.row)
  BY <1>1 DEF InSync
<1>3. TablesOK(row', dep', saved', fs', run')
  BY <1>1, <1>2, Now DEF TablesOK
<1>4. StackOK(stack', fs', row', run')
  BY <1>1, EmptyStack
<1>5. GhostsNext
  BY <1>1 DEF TypeInv, GhostsOK, GhostsNext
<1> QED
  BY <1>1, <1>3, <1>4, <1>5, Now DEF TypeNext

-----------------------------------------------------------------------------
(* Types. *)
LEMMA TypeInit ==
    ASSUME Init
    PROVE  TypeInv
<1>1. tree \in DOMAIN Trees
  BY DEF Init
<1>2. /\ DOMAIN fs = Source \cup Target
      /\ \A f \in Source \cup Target :
           /\ DOMAIN fs[f] = {"mtime", "ino", "data"} /\ fs[f].mtime = 1 /\ fs[f].ino = 1
           /\ fs[f].data \in {0, None}
  BY DEF Init
<1>3. FsOK(fs)
  BY <1>2, ConstFacts DEF FsOK, IsFile
<1>4. run = 0 /\ stack = <<>> /\ edits = 0 /\ world = 0
  BY DEF Init
<1>5. RowsOK(row, fs, run)
  <2>1. DOMAIN row = File /\ \A f \in File : row[f] = Blank
    BY DEF Init
  <2>2. PICK b : b = Blank
    OBVIOUS
  <2>3. /\ DOMAIN b = RowFields /\ b.gen = FALSE /\ b.over = FALSE /\ b.checked = 0
        /\ b.changed = 0 /\ b.failed = 0 /\ b.stamp = None
    BY <2>2 DEF Blank, RowFields
  <2>4. 0 \in 0..run
    BY <1>4
  <2>5. IsRow(b, run)
    BY <2>3, <2>4 DEF IsRow
  <2>6. \A f : RowFor(b, f, fs, run)
    BY <2>3, <2>5 DEF RowFor, Past
  <2> QED
    BY <2>1, <2>2, <2>6 DEF RowsOK
<1>6. DepsOK(dep)
  <2>1. DOMAIN dep = Source \cup Target /\ \A f \in Source \cup Target : dep[f] = <<>>
    BY DEF Init
  <2>2. IsDeps(<<>>)
    BY DEF IsDeps
  <2> QED
    BY <2>1, <2>2 DEF DepsOK
<1>7. saved.row = row /\ saved.dep = dep
  BY DEF Init
<1>8. TablesOK(row, dep, saved, fs, run)
  BY <1>5, <1>6, <1>7 DEF TablesOK, InSync
<1>9. StackOK(stack, fs, row, run)
  BY <1>4, EmptyStack
<1>10. GhostsOK
  BY <1>4, ConstFacts DEF Init, GhostsOK
<1> QED
  BY <1>1, <1>3, <1>8, <1>9, <1>10 DEF TypeInv

LEMMA StutterOK ==
    ASSUME TypeInv, UNCHANGED vars
    PROVE  TypeNext
<1>1. /\ fs' = fs /\ row' = row /\ dep' = dep /\ saved' = saved /\ run' = run /\ stack' = stack
      /\ world' = world /\ edits' = edits /\ manual' = manual /\ adopted' = adopted
      /\ sure' = sure /\ built' = built
  BY DEF vars
<1> QED
  BY <1>1, GhostsSame DEF TypeInv, TypeNext

LEMMA TypeActions ==
    ASSUME TypeInv, Next
    PROVE  TypeNext
<1>1. CASE User
  BY <1>1, EditSourceOK, EditTargetOK, TouchInodeOK, ChangeWorldOK, StartRunOK DEF User
<1>2. CASE Build
  BY <1>2, IfchangeOK, RedoOK, CommandEndOK, BeginOK, FindOK, WantOK, LookupOK, HitRecordOK, ExecOK,
     OpIfchangeOK, OpReadOK, OpIfcreateOK, OpAlwaysOK, OpStampOK, RenameOK, RecordOK, ScriptFailsOK,
     RecordFailureOK, CopyFailsOK, RecordCopyFailureOK, OobDepsOK, OobSelfOK, OobEndOK
     DEF Build
<1>3. CASE Crash
  BY <1>3, CrashOK
<1>4. CASE Rest
  BY <1>4, StutterOK DEF Rest
<1> QED
  BY <1>1, <1>2, <1>3, <1>4 DEF Next

LEMMA TypeStep ==
    ASSUME TypeInv, [Next]_<<vars, tree>>
    PROVE  TypeInv'
<1>1. tree' = tree
  BY DEF Next
<1>2. TypeNext
  BY TypeActions, StutterOK
<1>3. Source' = Source /\ Target' = Target /\ File' = File /\ Cands' = Cands /\ OpSet' = OpSet
  BY <1>1 DEF Source, Target, File, Cands, OpSet
<1>4. FsOK(fs)'
  BY <1>2, <1>3 DEF TypeNext, FsOK
<1>5. TablesOK(row, dep, saved, fs, run)'
  BY <1>2, <1>3 DEF TypeNext, TablesOK, RowsOK, DepsOK, IsDeps, InSync
<1>6. StackOK(stack, fs, row, run)'
  BY <1>2, <1>3 DEF TypeNext, StackOK, IsFrame, IsCmd, IsOob, IsJob
<1>7. GhostsOK'
  BY <1>2, <1>3 DEF TypeNext, GhostsOK, GhostsNext
<1>8. tree' \in DOMAIN Trees
  BY <1>1, Now
<1> QED
  BY <1>4, <1>5, <1>6, <1>7, <1>8 DEF TypeInv

LEMMA TypeImplies ==
    ASSUME TypeInv
    PROVE  TypeOK
<1>1. \A f \in Source \cup Target :
         /\ fs[f].mtime \in Nat /\ fs[f].ino \in {1, 2}
         /\ f \in Source => fs[f].data \in Data \cup {None}
  BY Now DEF FsOK, IsFile
<1>2. DOMAIN row = File /\ DOMAIN saved.row = File
  BY Now DEF RowsOK
<1>3. \A f \in File :
         /\ row[f].gen \in BOOLEAN /\ row[f].over \in BOOLEAN
         /\ {row[f].checked, row[f].changed, row[f].failed} \subseteq 0..run
  BY Now DEF RowsOK, RowFor, IsRow
<1>4. \A t \in Source \cup Target :
         /\ DOMAIN dep[t] \subseteq File
         /\ \A f \in DOMAIN dep[t] : dep[t][f].mode \in {"m", "c"} /\ dep[t][f].del \in BOOLEAN
  BY Now DEF DepsOK, IsDeps, IsDep
<1>5. DOMAIN saved.dep = DOMAIN dep
  BY Now DEF DepsOK
<1>6. /\ run \in 0..MaxRuns /\ edits \in 0..MaxEdits /\ world \in Data
      /\ manual \cup built \subseteq Target /\ sure \cup adopted \subseteq File
  BY DEF TypeInv, GhostsOK
<1> QED
  BY <1>1, <1>2, <1>3, <1>4, <1>5, <1>6 DEF TypeOK

(* The types of the files, the tables and the sets, for every set of       *)
(* source trees: whatever isdirty answers and whenever a run is killed,    *)
(* no row carries a runid of the future and no table loses a file.         *)
THEOREM TypeCorrect == Spec => []TypeOK
<1>1. Init => TypeInv
  BY TypeInit
<1>2. TypeInv /\ [Next]_<<vars, tree>> => TypeInv'
  BY TypeStep
<1>3. TypeInv => TypeOK
  BY TypeImplies
<1> QED
  BY <1>1, <1>2, <1>3, PTL DEF Spec

-----------------------------------------------------------------------------
(* Whose file it is.  Which builds are under way after the top frame is    *)
(* replaced, covered or removed.                                           *)
LEMMA SeenLives ==
    ASSUME NEW F, NEW R, NEW n, NEW f, IsFrame(f, F, R, n), Waits(f), NEW rv, NEW u
    PROVE  Lives(Seen(f, rv), u) <=> Lives(f, u)
<1>1. PICK g : g = Seen(f, rv)
  OBVIOUS
<1>2. CASE IsCmd(f)
  <2>1. g.cmd = f.cmd /\ f.cmd # "job"
    BY <1>1, <1>2 DEF Seen, IsCmd, CmdFields
  <2> QED
    BY <1>1, <2>1 DEF Lives
<1>3. CASE IsOob(f)
  <2>1. g.cmd = f.cmd /\ f.cmd # "job"
    BY <1>1, <1>3 DEF Seen, IsOob, OobFields
  <2> QED
    BY <1>1, <2>1 DEF Lives
<1>4. CASE IsJob(f, F, R, n)
  <2>1. g.cmd = f.cmd /\ g.t = f.t /\ g.pc # "begin" /\ f.cmd = "job"
    BY <1>1, <1>4 DEF Seen, IsJob, JobFields
  <2>2. f.pc # "begin"
    BY <2>1 DEF Waits
  <2> QED
    BY <1>1, <2>1, <2>2 DEF Lives
<1> QED
  BY <1>2, <1>3, <1>4 DEF IsFrame

LEMMA LivesPut ==
    ASSUME NEW s, IsSeq(s), s # <<>>, NEW x, NEW u
    PROVE  /\ Building(Append(Front(s), x), u) => Building(s, u) \/ Lives(x, u)
           /\ Building(s, u) => Building(Append(Front(s), x), u) \/ Lives(Last(s), u)
           /\ Lives(x, u) => Building(Append(Front(s), x), u)
<1>1. PICK p : p = Append(Front(s), x)
  OBVIOUS
<1>2. IsSeq(p) /\ Len(p) = Len(s) /\ p[Len(s)] = x /\ \A i \in 1..(Len(s) - 1) : p[i] = s[i]
  BY <1>1, PutFacts
<1>3. Len(s) \in 1..Len(s) /\ Last(s) = s[Len(s)] /\ Len(s) \in Nat
  BY SeqFacts
<1>4. \A i \in 1..Len(s) : i = Len(s) \/ i \in 1..(Len(s) - 1)
  BY <1>3
<1>5. Building(p, u) => Building(s, u) \/ Lives(x, u)
  BY <1>2, <1>3, <1>4 DEF Building
<1>6. Building(s, u) => Building(p, u) \/ Lives(Last(s), u)
  BY <1>2, <1>3, <1>4 DEF Building
<1>7. Lives(x, u) => Building(p, u)
  BY <1>2, <1>3 DEF Building
<1> QED
  BY <1>1, <1>5, <1>6, <1>7

LEMMA LivesAppend ==
    ASSUME NEW s, IsSeq(s), NEW y, NEW u, ~Lives(y, u)
    PROVE  Building(Append(s, y), u) <=> Building(s, u)
<1>1. PICK p : p = Append(s, y)
  OBVIOUS
<1>2. Len(p) = Len(s) + 1 /\ p[Len(s) + 1] = y /\ \A i \in 1..Len(s) : p[i] = s[i]
  BY <1>1, AppendFacts
<1>3. Len(s) \in Nat
  BY SeqFacts
<1>4. \A i \in 1..(Len(s) + 1) : i = Len(s) + 1 \/ i \in 1..Len(s)
  BY <1>3
<1>5. \A i \in 1..Len(s) : i \in 1..(Len(s) + 1)
  BY <1>3
<1>6. Building(p, u) => Building(s, u)
  BY <1>2, <1>4 DEF Building
<1>7. Building(s, u) => Building(p, u)
  BY <1>2, <1>5 DEF Building
<1> QED
  BY <1>1, <1>6, <1>7

LEMMA LivesFront ==
    ASSUME NEW s, IsSeq(s), s # <<>>, NEW u
    PROVE  /\ Building(Front(s), u) => Building(s, u)
           /\ Building(s, u) => Building(Front(s), u) \/ Lives(Last(s), u)
<1>1. PICK p : p = Front(s)
  OBVIOUS
<1>2. Len(p) = Len(s) - 1 /\ \A i \in 1..(Len(s) - 1) : p[i] = s[i]
  BY <1>1, FrontFacts
<1>3. Len(s) \in 1..Len(s) /\ Last(s) = s[Len(s)] /\ Len(s) \in Nat
  BY SeqFacts
<1>4. \A i \in 1..Len(s) : i = Len(s) \/ i \in 1..(Len(s) - 1)
  BY <1>3
<1>5. \A i \in 1..(Len(s) - 1) : i \in 1..Len(s)
  BY <1>3
<1>6. Building(p, u) => Building(s, u)
  BY <1>2, <1>5 DEF Building
<1>7. Building(s, u) => Building(p, u) \/ Lives(Last(s), u)
  BY <1>2, <1>3, <1>4 DEF Building
<1> QED
  BY <1>1, <1>6, <1>7

LEMMA LivesReturn ==
    ASSUME TypeInv, stack # <<>>, NEW rv, Return(rv), NEW u
    PROVE  /\ Building(stack', u) => Building(stack, u)
           /\ Building(stack, u) => Building(stack', u) \/ Lives(Top, u)
<1>1. PICK s : s = Front(stack)
  OBVIOUS
<1>2. IsSeq(stack)
  BY Now DEF StackOK
<1>3. IsSeq(s)
  BY <1>1, <1>2, FrontFacts
<1>4. /\ Building(s, u) => Building(stack, u)
      /\ Building(stack, u) => Building(s, u) \/ Lives(Top, u)
  BY <1>1, <1>2, LivesFront DEF Top
<1>5. CASE s = <<>>
  <2>1. stack' = s
    BY <1>1, <1>5 DEF Return
  <2> QED
    BY <1>4, <2>1
<1>6. CASE s # <<>>
  <2>1. PICK f : f = Last(s)
    OBVIOUS
  <2>2. stack' = Append(Front(s), Seen(f, rv))
    BY <1>1, <1>6, <2>1 DEF Return
  <2>3. Waits(f) /\ IsFrame(f, fs, row, run)
    BY <1>1, <1>6, <2>1, Now, StackFront
  <2>4. Lives(Seen(f, rv), u) <=> Lives(f, u)
    BY <2>3, SeenLives
  <2>5. PICK x : x = Seen(f, rv)
    OBVIOUS
  <2>6. /\ Building(stack', u) => Building(s, u) \/ Lives(x, u)
        /\ Building(s, u) => Building(stack', u) \/ Lives(f, u)
        /\ Lives(x, u) => Building(stack', u)
    BY <1>3, <1>6, <2>1, <2>2, <2>5, LivesPut
  <2>7. Lives(f, u) => Building(s, u)
    <3>1. Len(s) \in 1..Len(s) /\ f = s[Len(s)]
      BY <1>3, <1>6, <2>1, SeqFacts
    <3> QED
      BY <3>1 DEF Building
  <2> QED
    BY <1>4, <2>4, <2>5, <2>6, <2>7
<1> QED
  BY <1>5, <1>6

LEMMA LivesTop ==
    ASSUME TypeInv, stack # <<>>, NEW u, Lives(Top, u)
    PROVE  Building(stack, u)
<1>1. IsSeq(stack)
  BY Now DEF StackOK
<1>2. Len(stack) \in 1..Len(stack) /\ Top = stack[Len(stack)]
  BY <1>1, SeqFacts DEF Top
<1> QED
  BY <1>2 DEF Building

-----------------------------------------------------------------------------
(* The effect of a step on who owns what.  OwnInv and HandInv after it: *)
OwnNext ==
    \A t \in Target \ (manual' \cup adopted') :
        fs'[t].data # None => Window(stack', t) \/ Own(row'[t], fs'[t].mtime)
HandNext ==
    /\ \A t \in manual' : /\ fs'[t].data # None /\ ~Building(stack', t)
                          /\ row'[t].gen /\ ~row'[t].over =>
                                row'[t].stamp # None /\ row'[t].stamp[1] < fs'[t].mtime
    /\ May("Crashes") => manual' = {}
    /\ ~May("Crashes") => \A t \in Target : row'[t].gen /\ row'[t].stamp = None => Building(stack', t)

(* A build of t at the top of the stack, past Begin, changes only t: its   *)
(* file, its row and who wrote it; either the build goes on or its row has *)
(* a stamp; and t, if redo owns it, is still shown as redo's.              *)
Elsewhere(t) ==
    \A u \in Target \ {t} : /\ fs'[u] = fs[u] /\ row'[u] = row[u]
                            /\ u \in manual' <=> u \in manual
                            /\ u \in adopted' <=> u \in adopted
Here(t) ==
    OwnInv /\ t \in Target \ (manual' \cup adopted') /\ fs'[t].data # None
      => Window(stack', t) \/ Own(row'[t], fs'[t].mtime)
JobStep(t) ==
    /\ Lives(Top, t) /\ stack # <<>>
    /\ Elsewhere(t) /\ Here(t) /\ manual' \subseteq manual
    /\ \A u \in Target \ {t} : Building(stack', u) <=> Building(stack, u)
    /\ Building(stack', t) \/ row'[t].stamp # None

(* A command or a redo-unlocked at the top of the stack: isdirty may have  *)
(* saved what it saw.                                                      *)
CmdStep ==
    /\ UNCHANGED <<fs, manual, adopted>>
    /\ \A u \in Target : /\ ~Window(stack, u)
                         /\ row'[u].stamp = row[u].stamp /\ row'[u].over = row[u].over
                         /\ row'[u].gen => row[u].gen
                         /\ row[u].gen => row'[u].gen \/ ~Exists(u)
                         /\ Building(stack', u) <=> Building(stack, u)

LEMMA JobStepOwn ==
    ASSUME TypeInv, OwnInv, NEW t, JobStep(t)
    PROVE  OwnNext
<1> SUFFICES ASSUME NEW u \in Target \ (manual' \cup adopted'), fs'[u].data # None
             PROVE  Window(stack', u) \/ Own(row'[u], fs'[u].mtime)
  BY DEF OwnNext
<1>1. CASE u = t
  BY <1>1 DEF JobStep, Here
<1>2. CASE u # t
  <2>1. ~Window(stack, u)
    BY <1>2 DEF JobStep, Lives, Window, Top
  <2>2. fs'[u] = fs[u] /\ row'[u] = row[u] /\ u \notin manual \cup adopted
    BY <1>2 DEF JobStep, Elsewhere
  <2> QED
    BY <2>1, <2>2 DEF OwnInv
<1> QED
  BY <1>1, <1>2

LEMMA JobStepHand ==
    ASSUME TypeInv, HandInv, NEW t, JobStep(t)
    PROVE  HandNext /\ manual' = manual
<1>1. Building(stack, t)
  BY LivesTop DEF JobStep
<1>2. t \notin manual /\ manual \subseteq Target
  BY <1>1 DEF HandInv, TypeInv, GhostsOK
<1>3. manual' = manual
  BY <1>2 DEF JobStep, Elsewhere
<1>4. ASSUME NEW u \in manual'
      PROVE  /\ fs'[u].data # None /\ ~Building(stack', u)
             /\ row'[u].gen /\ ~row'[u].over =>
                   row'[u].stamp # None /\ row'[u].stamp[1] < fs'[u].mtime
  <2>1. u \in manual /\ u \in Target \ {t}
    BY <1>2, <1>3
  <2>2. fs'[u] = fs[u] /\ row'[u] = row[u] /\ (Building(stack', u) <=> Building(stack, u))
    BY <2>1 DEF JobStep, Elsewhere
  <2> QED
    BY <2>1, <2>2 DEF HandInv
<1>5. May("Crashes") => manual' = {}
  BY <1>3 DEF HandInv
<1>6. ASSUME ~May("Crashes"), NEW u \in Target, row'[u].gen, row'[u].stamp = None
      PROVE  Building(stack', u)
  <2>1. CASE u = t
    BY <1>6, <2>1 DEF JobStep
  <2>2. CASE u # t
    BY <1>6, <2>2 DEF JobStep, Elsewhere, HandInv
  <2> QED
    BY <2>1, <2>2
<1> QED
  BY <1>3, <1>4, <1>5, <1>6 DEF HandNext

LEMMA CmdStepOwn ==
    ASSUME TypeInv, OwnInv, CmdStep
    PROVE  OwnNext
<1> SUFFICES ASSUME NEW u \in Target \ (manual' \cup adopted'), fs'[u].data # None
             PROVE  Own(row'[u], fs'[u].mtime)
  BY DEF OwnNext
<1>1. fs'[u] = fs[u] /\ u \in Target \ (manual \cup adopted) /\ ~Window(stack, u)
  BY DEF CmdStep
<1>2. Own(row[u], fs[u].mtime)
  BY <1>1 DEF OwnInv
<1>3. Exists(u)
  BY <1>1, Now, TreeFacts DEF Exists
<1> QED
  BY <1>1, <1>2, <1>3 DEF CmdStep, Own

LEMMA CmdStepHand ==
    ASSUME TypeInv, HandInv, CmdStep
    PROVE  HandNext /\ manual' = manual
<1>1. manual' = manual /\ manual \subseteq Target /\ fs' = fs
  BY DEF CmdStep, TypeInv, GhostsOK
<1>2. ASSUME NEW u \in manual'
      PROVE  /\ fs'[u].data # None /\ ~Building(stack', u)
             /\ row'[u].gen /\ ~row'[u].over =>
                   row'[u].stamp # None /\ row'[u].stamp[1] < fs'[u].mtime
  <2>1. u \in manual /\ u \in Target
    BY <1>1
  <2>2. /\ row'[u].stamp = row[u].stamp /\ row'[u].over = row[u].over
        /\ row'[u].gen => row[u].gen
        /\ Building(stack', u) <=> Building(stack, u)
    BY <2>1 DEF CmdStep
  <2>3. /\ fs[u].data # None /\ ~Building(stack, u)
        /\ row[u].gen /\ ~row[u].over => row[u].stamp # None /\ row[u].stamp[1] < fs[u].mtime
    BY <2>1 DEF HandInv
  <2> QED
    BY <1>1, <2>2, <2>3
<1>3. May("Crashes") => manual' = {}
  BY <1>1 DEF HandInv
<1>4. ASSUME ~May("Crashes"), NEW u \in Target, row'[u].gen, row'[u].stamp = None
      PROVE  Building(stack', u)
  BY <1>4 DEF CmdStep, HandInv
<1> QED
  BY <1>1, <1>2, <1>3, <1>4 DEF HandNext

-----------------------------------------------------------------------------
(* How a step of a build is shown to be a JobStep. *)
LEMMA JobStepPut ==
    ASSUME TypeInv, stack # <<>>, NEW t, Lives(Top, t), NEW x, stack' = Put(x), Lives(x, t),
           Elsewhere(t), Here(t), manual' \subseteq manual
    PROVE  JobStep(t)
<1>1. IsSeq(stack)
  BY Now DEF StackOK
<1>2. stack' = Append(Front(stack), x) /\ Top = Last(stack)
  BY DEF Put, Top
<1>3. ASSUME NEW u \in Target \ {t} PROVE Building(stack', u) <=> Building(stack, u)
  <2>1. ~Lives(x, u) /\ ~Lives(Last(stack), u)
    BY <1>2 DEF Lives
  <2> QED
    BY <1>1, <1>2, <2>1, LivesPut
<1>4. Building(stack', t)
  BY <1>1, <1>2, LivesPut
<1> QED
  BY <1>3, <1>4 DEF JobStep

LEMMA JobStepPush ==
    ASSUME TypeInv, stack # <<>>, NEW t, Lives(Top, t), NEW x, NEW y, stack' = Push(x, y), Lives(x, t),
           y.cmd # "job" \/ y.pc = "begin",
           Elsewhere(t), Here(t), manual' \subseteq manual
    PROVE  JobStep(t)
<1>1. IsSeq(stack)
  BY Now DEF StackOK
<1>2. PICK s : s = Append(Front(stack), x)
  OBVIOUS
<1>3. stack' = Append(s, y) /\ Top = Last(stack)
  BY <1>2 DEF Put, Push, Top
<1>4. IsSeq(s)
  BY <1>1, <1>2, PutFacts
<1>5. \A u : Building(stack', u) <=> Building(s, u)
  BY <1>3, <1>4, LivesAppend DEF Lives
<1>6. ASSUME NEW u \in Target \ {t} PROVE Building(s, u) <=> Building(stack, u)
  <2>1. ~Lives(x, u) /\ ~Lives(Last(stack), u)
    BY <1>3 DEF Lives
  <2> QED
    BY <1>1, <1>2, <2>1, LivesPut
<1>7. Building(s, t)
  BY <1>1, <1>2, LivesPut
<1> QED
  BY <1>5, <1>6, <1>7 DEF JobStep

LEMMA JobStepReturn ==
    ASSUME TypeInv, stack # <<>>, NEW t, Lives(Top, t), NEW rv, Return(rv), row'[t].stamp # None,
           Elsewhere(t), Here(t), manual' \subseteq manual
    PROVE  JobStep(t)
<1>1. ASSUME NEW u \in Target \ {t} PROVE Building(stack', u) <=> Building(stack, u)
  <2>1. ~Lives(Top, u)
    BY DEF Lives
  <2> QED
    BY <2>1, LivesReturn
<1> QED
  BY <1>1 DEF JobStep

LEMMA RowWritten ==
    ASSUME TypeInv, NEW t \in File, NEW r, NEW d, Commit([row EXCEPT ![t] = r], d)
    PROVE  row'[t] = r /\ \A u \in Target \ {t} : row'[u] = row[u]
<1>1. DOMAIN row = File /\ row' = [row EXCEPT ![t] = r]
  BY Now DEF RowsOK, Commit
<1>2. Target \subseteq File
  BY DEF File
<1> QED
  BY <1>1, <1>2

(* Nothing is said of t by a step that leaves file and row alone. *)
LEMMA HereSame ==
    ASSUME stack # <<>>, NEW t, Top.pc \notin {"record", "hit"}, UNCHANGED <<fs, manual, adopted>>,
           Own(row[t], fs[t].mtime) => Own(row'[t], fs[t].mtime)
    PROVE  Here(t)
  BY DEF Here, OwnInv, Window, Top

LEMMA ElsewhereSame ==
    ASSUME NEW t, UNCHANGED <<fs, manual, adopted>>, \A u \in Target \ {t} : row'[u] = row[u]
    PROVE  Elsewhere(t)
  BY DEF Elsewhere

(* A build ends and its row is written. *)
LEMMA JobStepEnds ==
    ASSUME TypeInv, stack # <<>>, NEW t \in File, Lives(Top, t), UNCHANGED <<fs, manual>>,
           adopted \subseteq adopted', adopted' \subseteq adopted \cup {t},
           NEW r, NEW d, Commit([row EXCEPT ![t] = r], d), r.stamp # None, NEW rv, Return(rv),
           t \in Target \ adopted' /\ fs[t].data # None => Own(r, fs[t].mtime)
    PROVE  JobStep(t)
<1>1. row'[t] = r /\ \A u \in Target \ {t} : row'[u] = row[u]
  BY RowWritten
<1>2. Elsewhere(t)
  BY <1>1 DEF Elsewhere
<1>3. Here(t)
  BY <1>1 DEF Here
<1> QED
  BY <1>1, <1>2, <1>3, JobStepReturn

(* A failed build: the row it began with is no override of what is there.  *)
LEMMA FailsStep ==
    ASSUME TypeInv, stack # <<>>, Top.cmd = "job", Top.pc # "begin", UNCHANGED <<fs, manual, adopted>>,
           NEW d, Fails(d)
    PROVE  JobStep(Top.t)
<1>1. PICK t : t = Top.t
  OBVIOUS
<1>2. PICK r : r = SetFailed(Top.sf, t)
  OBVIOUS
<1>3. /\ t \in File /\ RowFor(Top.sf, t, fs, run) /\ Lives(Top, t)
      /\ Top.sf.over /\ t # Always => fs[t].data = None \/ Top.sf.stamp[1] < fs[t].mtime
  BY <1>1, TopIsJob DEF IsJob, Lives
<1>4. /\ r.stamp = Stamp(t) /\ r.gen = Exists(t)
      /\ r.over => Top.sf.over /\ Top.sf.stamp = Stamp(t)
  BY <1>2, <1>3, Now, SetFailedFacts
<1>5. /\ Stamp(t) # None /\ (Exists(t) => Stamp(t)[1] = fs[t].mtime)
      /\ t # Always => fs[t].mtime \in Nat
  BY <1>3, Now, StampFacts
<1>6. Commit([row EXCEPT ![t] = r], d) /\ Return(1)
  BY <1>1, <1>2 DEF Fails
<1>7. ASSUME t \in Target, fs[t].data # None PROVE Own(r, fs[t].mtime)
  <2>1. t # Always /\ Exists(t)
    BY <1>7, Now, TreeFacts DEF Exists
  <2>2. ~r.over
    BY <1>3, <1>4, <1>5, <1>7, <2>1
  <2> QED
    BY <1>4, <1>5, <2>1, <2>2 DEF Own
<1> QED
  BY <1>1, <1>3, <1>4, <1>5, <1>6, <1>7, JobStepEnds

-----------------------------------------------------------------------------
(* The commands. *)
LEMMA CmdStack ==
    ASSUME TypeInv, stack # <<>>, Top.cmd # "job",
           \/ \E x : stack' = Put(x) /\ x.cmd # "job"
           \/ \E x, y : stack' = Push(x, y) /\ x.cmd # "job" /\ (y.cmd # "job" \/ y.pc = "begin")
           \/ \E rv : Return(rv)
    PROVE  \A u : ~Window(stack, u) /\ (Building(stack', u) <=> Building(stack, u))
<1>1. IsSeq(stack) /\ Top = Last(stack)
  BY Now DEF StackOK, Top
<1>2. \A u : ~Window(stack, u) /\ ~Lives(Top, u)
  BY <1>1 DEF Window, Lives
<1>3. ASSUME NEW u, NEW x, x.cmd # "job"
      PROVE  Building(Append(Front(stack), x), u) <=> Building(stack, u)
  <2>1. ~Lives(x, u)
    BY <1>3 DEF Lives
  <2> QED
    BY <1>1, <1>2, <2>1, LivesPut
<1>4. ASSUME NEW u, NEW x, stack' = Put(x), x.cmd # "job"
      PROVE  Building(stack', u) <=> Building(stack, u)
  BY <1>3, <1>4 DEF Put
<1>5. ASSUME NEW u, NEW x, NEW y, stack' = Push(x, y), x.cmd # "job", y.cmd # "job" \/ y.pc = "begin"
      PROVE  Building(stack', u) <=> Building(stack, u)
  <2>1. PICK s : s = Append(Front(stack), x)
    OBVIOUS
  <2>2. stack' = Append(s, y)
    BY <1>5, <2>1 DEF Put, Push
  <2>3. IsSeq(s)
    BY <1>1, <2>1, PutFacts
  <2>4. ~Lives(y, u)
    BY <1>5 DEF Lives
  <2> QED
    BY <1>3, <1>5, <2>1, <2>2, <2>3, <2>4, LivesAppend
<1>6. ASSUME NEW u, NEW rv, Return(rv)
      PROVE  Building(stack', u) <=> Building(stack, u)
  BY <1>2, <1>6, LivesReturn
<1> QED
  BY <1>2, <1>4, <1>5, <1>6

LEMMA CmdStepSame ==
    ASSUME TypeInv, stack # <<>>, Top.cmd # "job", UNCHANGED <<fs, manual, adopted, row>>,
           \/ \E x : stack' = Put(x) /\ x.cmd # "job"
           \/ \E x, y : stack' = Push(x, y) /\ x.cmd # "job" /\ (y.cmd # "job" \/ y.pc = "begin")
           \/ \E rv : Return(rv)
    PROVE  CmdStep
  BY CmdStack DEF CmdStep

LEMMA IfchangeStep ==
    ASSUME TypeInv, Ifchange
    PROVE  CmdStep
<1>1. IsCmd(Top) /\ stack # <<>> /\ Top.cmd # "job" /\ Top.cmd \in {"ifchange", "unlocked"}
  BY TopIsCmd DEF Ifchange, Busy
<1>2. UNCHANGED <<fs, manual, adopted>>
  BY DEF Ifchange, files
<1>3. PICK x : x = Next1(Top)
  OBVIOUS
<1>4. x.cmd # "job"
  BY <1>1, <1>3 DEF Next1, IsCmd, CmdFields
<1>5. PICK t : t = Head(Top.todo)
  OBVIOUS
<1>6. PICK a : a = IsDirtyDefault(t)
  OBVIOUS
<1>7. PICK rw : rw = Scanned(a)
  OBVIOUS
<1>8. row' = rw
  BY <1>5, <1>6, <1>7 DEF Ifchange, Commit, NoCommit
<1>9. \A f \in File : /\ rw[f].stamp = row[f].stamp /\ rw[f].over = row[f].over
                      /\ rw[f].gen => row[f].gen
                      /\ row[f].gen => rw[f].gen \/ (row[f].stamp # None /\ ~Exists(f))
  BY <1>7, Now, ScannedFacts
<1>10. PICK y : y = Oob(t, InOrder(a.must), Top.me)
  OBVIOUS
<1>11. PICK z : z = Job(t, Top.cmd, rw[t])
  OBVIOUS
<1>12. y.cmd = "oob" /\ z.pc = "begin"
  BY <1>10, <1>11 DEF Oob, Job
<1>13. stack' = Put(x) \/ stack' = Push(x, y) \/ stack' = Push(x, z)
  BY <1>3, <1>5, <1>6, <1>7, <1>10, <1>11 DEF Ifchange
<1>14. \A u : ~Window(stack, u) /\ (Building(stack', u) <=> Building(stack, u))
  BY <1>1, <1>4, <1>12, <1>13, CmdStack
<1>15. Target \subseteq File
  BY DEF File
<1> QED
  BY <1>2, <1>8, <1>9, <1>14, <1>15 DEF CmdStep

LEMMA RedoStep ==
    ASSUME TypeInv, Redo
    PROVE  CmdStep
<1>1. IsCmd(Top) /\ stack # <<>> /\ Top.cmd = "redo"
  BY TopIsCmd DEF Redo, Busy
<1>2. UNCHANGED <<fs, manual, adopted, row>>
  BY DEF Redo, files, tables
<1>3. PICK x : x = Next1(Top)
  OBVIOUS
<1>4. x.cmd # "job"
  BY <1>1, <1>3 DEF Next1, IsCmd, CmdFields
<1>5. PICK t : t = Head(Top.todo)
  OBVIOUS
<1>6. PICK z : z = Job(t, "redo", row[t])
  OBVIOUS
<1>7. z.pc = "begin"
  BY <1>6 DEF Job
<1>8. stack' = Put(x) \/ stack' = Push(x, z)
  BY <1>3, <1>5, <1>6 DEF Redo
<1> QED
  BY <1>1, <1>2, <1>4, <1>7, <1>8, CmdStepSame

LEMMA CommandEndStep ==
    ASSUME TypeInv, CommandEnd
    PROVE  CmdStep
<1>1. stack # <<>> /\ Top.cmd # "job"
  BY DEF CommandEnd
<1>2. UNCHANGED <<fs, manual, adopted, row>>
  BY DEF CommandEnd, files, Commit
<1>3. \E rv : Return(rv)
  BY DEF CommandEnd
<1> QED
  BY <1>1, <1>2, <1>3, CmdStepSame

LEMMA OobStep ==
    ASSUME TypeInv, OobDeps \/ OobSelf \/ OobEnd
    PROVE  CmdStep
<1>1. stack # <<>> /\ Top.cmd = "oob" /\ IsOob(Top)
  BY TopIsOob DEF OobDeps, OobSelf, OobEnd, OobAt
<1>2. UNCHANGED <<fs, manual, adopted, row>>
  BY DEF OobDeps, OobSelf, OobEnd, files, tables, Commit
<1>3. CASE OobDeps
  <2>1. PICK x : x = [Top EXCEPT !.pc = "deps1"]
    OBVIOUS
  <2>2. PICK y : y = Cmd("ifchange", Top.list, Top.me, TRUE)
    OBVIOUS
  <2>3. x.cmd = "oob" /\ y.cmd = "ifchange"
    BY <1>1, <2>1, <2>2 DEF IsOob, OobFields, Cmd
  <2>4. stack' = Push(x, y)
    BY <1>3, <2>1, <2>2 DEF OobDeps
  <2> QED
    BY <1>1, <1>2, <2>3, <2>4, CmdStepSame
<1>4. CASE OobSelf
  <2>1. PICK x : x = [Top EXCEPT !.pc = "self1"]
    OBVIOUS
  <2>2. PICK y : y = Cmd("unlocked", <<Top.t>>, Top.me, TRUE)
    OBVIOUS
  <2>3. x.cmd = "oob" /\ y.cmd = "unlocked"
    BY <1>1, <2>1, <2>2 DEF IsOob, OobFields, Cmd
  <2>4. stack' = Push(x, y)
    BY <1>4, <2>1, <2>2 DEF OobSelf
  <2> QED
    BY <1>1, <1>2, <2>3, <2>4, CmdStepSame
<1>5. CASE OobEnd
  <2>1. \E rv : Return(rv)
    BY <1>5 DEF OobEnd
  <2> QED
    BY <1>1, <1>2, <2>1, CmdStepSame
<1> QED
  BY <1>3, <1>4, <1>5

-----------------------------------------------------------------------------
(* The builds. *)
LEMMA FindStep ==
    ASSUME TypeInv, Find
    PROVE  JobStep(Top.t)
<1>1. PICK t : t = Top.t
  OBVIOUS
<1>2. stack # <<>> /\ Top.cmd = "job" /\ Top.pc = "find" /\ IsJob(Top, fs, row, run) /\ Lives(Top, t)
  BY <1>1, TopIsJob DEF Find, JobAt, Lives
<1>3. UNCHANGED <<fs, manual>>
  BY DEF Find
<1>4. t \in File /\ RowFor(Top.sf, t, fs, run) /\ DOMAIN Top = JobFields
  BY <1>1, <1>2 DEF IsJob
<1>5. PICK d : d = ZapDeps1(dep, t)
  OBVIOUS
<1>6. CASE Candidates(t) = {} /\ Exists(t)
  <2>1. PICK r : r = SetStatic(Top.sf, t)
    OBVIOUS
  <2>2. PICK e : e = AddDeps(d, t, "c", Cands[t])
    OBVIOUS
  <2>3. Commit([row EXCEPT ![t] = r], e) /\ Return(0) /\ adopted' = adopted \cup {t}
    BY <1>1, <1>5, <1>6, <2>1, <2>2 DEF Find
  <2>4. r.stamp # None
    BY <1>4, <2>1, Now, SetStaticFacts, StampFacts
  <2> QED
    BY <1>1, <1>2, <1>3, <1>4, <2>3, <2>4, JobStepEnds
<1>7. CASE Candidates(t) = {} /\ ~Exists(t)
  <2>1. PICK e : e = AddDeps(d, t, "c", Cands[t])
    OBVIOUS
  <2>2. Fails(e) /\ UNCHANGED adopted
    BY <1>1, <1>5, <1>7, <2>1 DEF Find
  <2> QED
    BY <1>2, <1>3, <2>2, FailsStep
<1>8. CASE Candidates(t) # {}
  <2>1. PICK n : n = First(t)
    OBVIOUS
  <2>2. PICK do : do = Cands[t][n]
    OBVIOUS
  <2>3. do \in Source
    BY <1>4, <1>8, <2>1, <2>2, Now, FirstFacts
  <2>4. row' = MarkDo(do) /\ UNCHANGED adopted
    BY <1>1, <1>8, <2>1, <2>2 DEF Find, NoCommit
  <2>5. \A u \in Target : row'[u] = row[u]
    <3>1. \A u \in Target : u # do /\ u \in File
      BY <2>3, Now, TreeFacts DEF File
    <3>2. \A u \in File \ {do} : row'[u] = row[u]
      BY <2>3, <2>4, MarkDoFacts
    <3> QED
      BY <3>1, <3>2
  <2>6. PICK e : e = AddDep(AddDeps(d, t, "c", SubSeq(Cands[t], 1, n - 1)), t, "m", do)
    OBVIOUS
  <2>7. PICK hit : hit = (May("CacheOn") /\ Top.via = "ifchange" /\ Top.sf.csum = None)
    OBVIOUS
  <2>8. PICK x : x = [Top EXCEPT
                       !.do = do, !.pc = IF hit THEN "want" ELSE "exec",
                       !.want = IF hit THEN Required(e[t]) ELSE <<>>,
                       !.gens = IF hit THEN {f \in ToSet(Required(e[t])) : row[f].gen} ELSE {}]
    OBVIOUS
  <2>9. Lives(x, t) /\ stack' = Put(x)
    <3>1. stack' = Put(x)
      BY <1>1, <1>5, <1>8, <2>1, <2>2, <2>6, <2>7, <2>8 DEF Find
    <3>2. x.cmd = "job" /\ x.t = t /\ x.pc \in {"want", "exec"}
      BY <1>1, <1>2, <1>4, <2>8 DEF JobFields
    <3> QED
      BY <3>1, <3>2 DEF Lives
  <2>10. Elsewhere(t)
    BY <1>3, <2>4, <2>5, ElsewhereSame
  <2>11. Here(t)
    <3>1. CASE t \in Target
      BY <1>2, <1>3, <2>4, <2>5, <3>1, HereSame
    <3>2. CASE t \notin Target
      BY <3>2 DEF Here
    <3> QED
      BY <3>1, <3>2
  <2> QED
    BY <1>1, <1>2, <1>3, <2>9, <2>10, <2>11, JobStepPut
<1> QED
  BY <1>6, <1>7, <1>8

(* A build that leaves the files and the rows of the targets alone. *)
LEMMA JobStepQuiet ==
    ASSUME TypeInv, stack # <<>>, Top.cmd = "job", Top.pc \notin {"begin", "record", "hit"},
           UNCHANGED <<fs, manual, adopted>>, \A u \in Target : row'[u] = row[u],
           NEW x, x.cmd = "job", x.t = Top.t, x.pc # "begin",
           \/ stack' = Put(x)
           \/ \E y : stack' = Push(x, y) /\ (y.cmd # "job" \/ y.pc = "begin")
    PROVE  JobStep(Top.t)
<1>1. PICK t : t = Top.t
  OBVIOUS
<1>2. Lives(Top, t) /\ Lives(x, t)
  BY <1>1 DEF Lives
<1>3. Elsewhere(t)
  BY ElsewhereSame
<1>4. Here(t)
  <2>1. CASE t \in Target
    BY <2>1, HereSame
  <2>2. CASE t \notin Target
    BY <2>2 DEF Here
  <2> QED
    BY <2>1, <2>2
<1> QED
  BY <1>1, <1>2, <1>3, <1>4, JobStepPut, JobStepPush

LEMMA WantStep ==
    ASSUME TypeInv, Want
    PROVE  JobStep(Top.t)
<1>1. /\ stack # <<>> /\ Top.cmd = "job" /\ IsJob(Top, fs, row, run) /\ Top.pc = "want"
      /\ Top.pc # "begin" /\ DOMAIN Top = JobFields
  BY TopIsJob DEF Want, JobAt, IsJob
<1>2. UNCHANGED <<fs, manual, adopted>>
  BY DEF Want, files
<1>3. PICK d : d = Head(Top.want)
  OBVIOUS
<1>4. PICK j : j = [Top EXCEPT !.want = Tail(@)]
  OBVIOUS
<1>5. PICK k : k = [j EXCEPT !.pc = "wanted"]
  OBVIOUS
<1>6. DOMAIN j = JobFields /\ j.cmd = "job" /\ j.t = Top.t /\ j.pc = "want"
  BY <1>1, <1>4 DEF JobFields
<1>7. k.cmd = "job" /\ k.t = Top.t /\ k.pc = "wanted"
  BY <1>5, <1>6 DEF JobFields
<1>8. CASE stack' = Put(j) /\ UNCHANGED tables
  BY <1>1, <1>2, <1>6, <1>8, JobStepQuiet DEF tables
<1>9. CASE stack' = Push(k, Job(d, "want", row[d])) /\ UNCHANGED tables
  <2>1. PICK y : y = Job(d, "want", row[d])
    OBVIOUS
  <2>2. y.pc = "begin"
    BY <2>1 DEF Job
  <2> QED
    BY <1>1, <1>2, <1>7, <1>9, <2>1, <2>2, JobStepQuiet DEF tables
<1>10. CASE Fails(dep)
  BY <1>1, <1>2, <1>10, FailsStep
<1> QED
  BY <1>3, <1>4, <1>5, <1>8, <1>9, <1>10 DEF Want

LEMMA LookupStep ==
    ASSUME TypeInv, Lookup
    PROVE  JobStep(Top.t)
<1>1. PICK t : t = Top.t
  OBVIOUS
<1>2. /\ stack # <<>> /\ Top.cmd = "job" /\ Top.pc = "want" /\ Top.pc \notin {"begin", "find"}
      /\ Lives(Top, t) /\ UNCHANGED tables
  BY <1>1 DEF Lookup, JobAt, Lives
<1>3. DOMAIN Top = JobFields /\ t \in Target
  BY <1>1, <1>2, JobFacts
<1>4. CASE stack' = Put([Top EXCEPT !.pc = "exec", !.key = Cacheable(dep, t)]) /\ UNCHANGED <<fs, manual, adopted>>
  <2>1. PICK x : x = [Top EXCEPT !.pc = "exec", !.key = Cacheable(dep, t)]
    OBVIOUS
  <2>2. x.cmd = "job" /\ x.t = Top.t /\ x.pc = "exec"
    BY <1>2, <1>3, <2>1 DEF JobFields
  <2> QED
    BY <1>2, <1>4, <2>1, <2>2, JobStepQuiet DEF tables
<1>5. ASSUME NEW e, fs' = [fs EXCEPT ![t] = Written(@, e.data)],
             manual' = manual \ {t}, adopted' = adopted \ {t},
             stack' = Put([Top EXCEPT !.pc = "hit"])
      PROVE  JobStep(t)
  <2>1. PICK x : x = [Top EXCEPT !.pc = "hit"]
    OBVIOUS
  <2>2. x.cmd = "job" /\ x.t = t /\ x.pc = "hit"
    BY <1>1, <1>2, <1>3, <2>1 DEF JobFields
  <2>3. stack' = Put(x) /\ Lives(x, t)
    BY <1>5, <2>1, <2>2 DEF Lives
  <2>4. Elsewhere(t)
    BY <1>2, <1>5, Now DEF Elsewhere, tables, FsOK
  <2>5. Here(t)
    <3>1. IsSeq(stack)
      BY Now DEF StackOK
    <3>2. stack' # <<>> /\ Last(stack') = x
      BY <1>2, <2>3, <3>1, PutFacts DEF Put
    <3> QED
      BY <2>2, <3>2 DEF Here, Window
  <2> QED
    BY <1>2, <1>5, <2>3, <2>4, <2>5, JobStepPut
<1> QED
  BY <1>1, <1>4, <1>5 DEF Lookup

LEMMA HitRecordStep ==
    ASSUME TypeInv, HitRecord
    PROVE  JobStep(Top.t)
<1>1. PICK t : t = Top.t
  OBVIOUS
<1>2. stack # <<>> /\ Top.cmd = "job" /\ Lives(Top, t) /\ Top.pc \notin {"begin", "find"}
  BY <1>1 DEF HitRecord, JobAt, Lives
<1>3. UNCHANGED <<fs, manual, adopted>>
  BY DEF HitRecord, files
<1>4. t \in File /\ RowFor(row[t], t, fs, run)
  BY <1>1, <1>2, JobFacts
<1>5. PICK r : r = UpdateStamp(HitRow(row[t]), t)
  OBVIOUS
<1>6. r.stamp = Stamp(t) /\ r.gen /\ ~r.over
  BY <1>4, <1>5, Now, HitRowFacts
<1>7. PICK d : d = [dep EXCEPT ![t] = [f \in DOMAIN @ |-> [@[f] EXCEPT !.del = FALSE]]]
  OBVIOUS
<1>8. Commit([row EXCEPT ![t] = r], d) /\ Return(0)
  BY <1>1, <1>5, <1>7 DEF HitRecord, HitRow
<1>9. Stamp(t) # None /\ (Exists(t) => Stamp(t)[1] = fs[t].mtime)
  BY <1>4, Now, StampFacts
<1>10. t \in Target /\ fs[t].data # None => Own(r, fs[t].mtime)
  BY <1>6, <1>9, Now, TreeFacts DEF Own, Exists
<1> QED
  BY <1>1, <1>2, <1>3, <1>4, <1>6, <1>8, <1>9, <1>10, JobStepEnds

LEMMA ExecStep ==
    ASSUME TypeInv, Exec
    PROVE  JobStep(Top.t)
<1>1. stack # <<>> /\ Top.cmd = "job" /\ Top.pc = "exec" /\ Top.pc \notin {"begin", "find"}
  BY DEF Exec, JobAt
<1>2. UNCHANGED <<fs, manual, adopted, row>>
  BY DEF Exec, files, Commit
<1>3. DOMAIN Top = JobFields
  BY <1>1, JobFacts
<1>4. PICK do : do = Top.do
  OBVIOUS
<1>5. PICK x : x = IF Exists(do)
                    THEN [Top EXCEPT !.pc = "script", !.ops = Script[do][fs[do].data],
                                     !.ins = {<<do, fs[do].data>>}]
                    ELSE [Top EXCEPT !.pc = "fail"]
  OBVIOUS
<1>6. x.cmd = "job" /\ x.t = Top.t /\ x.pc \in {"script", "fail"}
  BY <1>1, <1>3, <1>5 DEF JobFields
<1>7. stack' = Put(x)
  BY <1>4, <1>5 DEF Exec
<1> QED
  BY <1>1, <1>2, <1>6, <1>7, JobStepQuiet

LEMMA OpStep ==
    ASSUME TypeInv, OpIfchange \/ OpRead \/ OpIfcreate \/ ScriptFails
    PROVE  JobStep(Top.t)
<1>1. /\ stack # <<>> /\ Top.cmd = "job" /\ Top.pc \in {"script", "read"}
      /\ Top.pc \notin {"begin", "find"}
  BY DEF OpIfchange, OpRead, OpIfcreate, ScriptFails, Op, JobAt
<1>2. UNCHANGED <<fs, manual, adopted, row>>
  BY DEF OpIfchange, OpRead, OpIfcreate, ScriptFails, files, tables, Commit
<1>3. DOMAIN Top = JobFields
  BY <1>1, JobFacts
<1>4. CASE OpIfchange
  <2>1. PICK x : x = [Top EXCEPT !.pc = "wait"]
    OBVIOUS
  <2>2. x.cmd = "job" /\ x.t = Top.t /\ x.pc = "wait"
    BY <1>1, <1>3, <2>1 DEF JobFields
  <2>3. PICK y : y = Cmd("ifchange", Head(Top.ops).on, Top.t, FALSE)
    OBVIOUS
  <2>4. y.cmd = "ifchange" /\ stack' = Push(x, y)
    BY <1>4, <2>1, <2>3 DEF OpIfchange, Cmd
  <2> QED
    BY <1>1, <1>2, <2>2, <2>4, JobStepQuiet
<1>5. CASE OpRead
  <2>1. PICK x : x = [Top EXCEPT !.pc = "script", !.ops = Tail(@),
                               !.ins = @ \cup {<<f, fs[f].data>> : f \in ToSet(Head(Top.ops).on)}]
    OBVIOUS
  <2>2. x.cmd = "job" /\ x.t = Top.t /\ x.pc = "script"
    BY <1>1, <1>3, <2>1 DEF JobFields
  <2>3. stack' = Put(x)
    BY <1>5, <2>1 DEF OpRead
  <2> QED
    BY <1>1, <1>2, <2>2, <2>3, JobStepQuiet
<1>6. CASE OpIfcreate \/ ScriptFails
  <2>1. PICK x : x = [Top EXCEPT !.pc = "fail"]
    OBVIOUS
  <2>2. PICK z : z = [Top EXCEPT !.ops = Tail(@)]
    OBVIOUS
  <2>3. x.cmd = "job" /\ x.t = Top.t /\ x.pc = "fail" /\ z.cmd = "job" /\ z.t = Top.t /\ z.pc = Top.pc
    BY <1>1, <1>3, <2>1, <2>2 DEF JobFields
  <2>4. stack' = Put(x) \/ stack' = Put(z)
    BY <1>6, <2>1, <2>2 DEF OpIfcreate, ScriptFails
  <2> QED
    BY <1>1, <1>2, <2>3, <2>4, JobStepQuiet
<1> QED
  BY <1>4, <1>5, <1>6

LEMMA OpAlwaysStep ==
    ASSUME TypeInv, OpAlways
    PROVE  JobStep(Top.t)
<1>1. stack # <<>> /\ Top.cmd = "job" /\ Top.pc = "script" /\ Top.pc \notin {"begin", "find"}
  BY DEF OpAlways, Op, JobAt
<1>2. UNCHANGED <<fs, manual, adopted>>
  BY DEF OpAlways, files
<1>3. DOMAIN Top = JobFields
  BY <1>1, JobFacts
<1>4. PICK x : x = [Top EXCEPT !.ops = Tail(@), !.ins = @ \cup {<<World, world>>}]
  OBVIOUS
<1>5. x.cmd = "job" /\ x.t = Top.t /\ x.pc = "script" /\ stack' = Put(x)
  BY <1>1, <1>3, <1>4 DEF JobFields, OpAlways
<1>6. PICK r : r = AlwaysRow(row[Always])
  OBVIOUS
<1>7. PICK d : d = AddDep(dep, Top.t, "m", Always)
  OBVIOUS
<1>8. Commit([row EXCEPT ![Always] = r], d)
  BY <1>6, <1>7 DEF OpAlways, AlwaysRow
<1>9. Always \in File /\ Always \notin Target
  BY Now, TreeFacts DEF File
<1>10. \A u \in Target : row'[u] = row[u]
  BY <1>8, <1>9, RowWritten
<1> QED
  BY <1>1, <1>2, <1>5, <1>10, JobStepQuiet

LEMMA OpStampStep ==
    ASSUME TypeInv, OpStamp
    PROVE  JobStep(Top.t)
<1>1. PICK t : t = Top.t
  OBVIOUS
<1>2. /\ stack # <<>> /\ Top.cmd = "job" /\ Top.pc = "script" /\ Top.pc \notin {"begin", "find"}
      /\ Top.pc \notin {"record", "hit"} /\ Lives(Top, t)
  BY <1>1 DEF OpStamp, Op, JobAt, Lives
<1>3. UNCHANGED <<fs, manual, adopted>>
  BY DEF OpStamp, files
<1>4. DOMAIN Top = JobFields /\ t \in File /\ RowFor(row[t], t, fs, run)
  BY <1>1, <1>2, JobFacts
<1>5. PICK x : x = [Top EXCEPT !.ops = Tail(@)]
  OBVIOUS
<1>6. x.cmd = "job" /\ x.t = t /\ x.pc = "script" /\ stack' = Put(x)
  BY <1>1, <1>2, <1>4, <1>5 DEF JobFields, OpStamp
<1>7. PICK r : r = StampRow(row[t], Output(Top.do, Top.ins))
  OBVIOUS
<1>8. r.stamp = row[t].stamp /\ r.gen /\ ~r.over
  BY <1>4, <1>7, Now, StampRowFacts
<1>9. Commit([row EXCEPT ![t] = r], dep)
  BY <1>1, <1>7 DEF OpStamp
<1>10. row'[t] = r /\ \A u \in Target \ {t} : row'[u] = row[u]
  BY <1>4, <1>9, RowWritten
<1>11. Elsewhere(t)
  BY <1>3, <1>10, ElsewhereSame
<1>12. Own(row[t], fs[t].mtime) => Own(row'[t], fs[t].mtime)
  BY <1>8, <1>10 DEF Own
<1>13. Here(t)
  BY <1>2, <1>3, <1>12, HereSame
<1>14. Lives(x, t)
  BY <1>6 DEF Lives
<1> QED
  BY <1>1, <1>2, <1>3, <1>6, <1>11, <1>13, <1>14, JobStepPut

LEMMA RenameStep ==
    ASSUME TypeInv, Rename
    PROVE  JobStep(Top.t)
<1>1. PICK t : t = Top.t
  OBVIOUS
<1>2. /\ stack # <<>> /\ Top.cmd = "job" /\ Top.pc = "script" /\ Top.pc \notin {"begin", "find"}
      /\ Lives(Top, t)
  BY <1>1 DEF Rename, JobAt, Lives
<1>3. DOMAIN Top = JobFields /\ t \in Target
  BY <1>1, <1>2, JobFacts
<1>4. PICK x : x = [Top EXCEPT !.pc = "record"]
  OBVIOUS
<1>5. x.cmd = "job" /\ x.t = t /\ x.pc = "record" /\ stack' = Put(x)
  BY <1>1, <1>2, <1>3, <1>4 DEF JobFields, Rename
<1>6. PICK v : fs' = [fs EXCEPT ![t] = v]
  BY <1>1 DEF Rename
<1>7. manual' = manual \ {t} /\ adopted' = adopted \ {t} /\ row' = row
  BY <1>1 DEF Rename, tables
<1>8. Elsewhere(t)
  BY <1>6, <1>7, Now DEF Elsewhere, FsOK
<1>9. Here(t)
  <2>1. IsSeq(stack)
    BY Now DEF StackOK
  <2>2. stack' # <<>> /\ Last(stack') = x
    BY <1>2, <1>5, <2>1, PutFacts DEF Put
  <2> QED
    BY <1>5, <2>2 DEF Here, Window
<1>10. Lives(x, t)
  BY <1>5 DEF Lives
<1> QED
  BY <1>1, <1>2, <1>5, <1>7, <1>8, <1>9, <1>10, JobStepPut

LEMMA CopyFailsStep ==
    ASSUME TypeInv, CopyFails
    PROVE  JobStep(Top.t)
<1>1. PICK t : t = Top.t
  OBVIOUS
<1>2. /\ stack # <<>> /\ Top.cmd = "job" /\ Top.pc = "script" /\ Top.pc \notin {"begin", "find"}
      /\ Lives(Top, t)
  BY <1>1 DEF CopyFails, JobAt, Lives
<1>3. DOMAIN Top = JobFields /\ t \in Target
  BY <1>1, <1>2, JobFacts
<1>4. PICK x : x = [Top EXCEPT !.pc = "uncopied"]
  OBVIOUS
<1>5. x.cmd = "job" /\ x.t = t /\ x.pc = "uncopied" /\ stack' = Put(x)
  BY <1>1, <1>2, <1>3, <1>4 DEF JobFields, CopyFails
<1>6. PICK v : v = Removed(fs[t])
  OBVIOUS
<1>7. fs' = [fs EXCEPT ![t] = v] /\ UNCHANGED <<manual, adopted, row>>
  BY <1>1, <1>6 DEF CopyFails, tables
<1>8. DOMAIN fs = Source \cup Target /\ IsFile(fs[t])
  BY <1>3, Now DEF FsOK
<1>9. v.data = None
  BY <1>6, <1>8 DEF Removed, IsFile
<1>10. Elsewhere(t)
  BY <1>7, <1>8 DEF Elsewhere
<1>11. Here(t)
  BY <1>3, <1>7, <1>8, <1>9 DEF Here
<1>12. Lives(x, t)
  BY <1>5 DEF Lives
<1> QED
  BY <1>1, <1>2, <1>5, <1>7, <1>10, <1>11, <1>12, JobStepPut

LEMMA RecordStep ==
    ASSUME TypeInv, Record
    PROVE  JobStep(Top.t)
<1>1. PICK t : t = Top.t
  OBVIOUS
<1>2. stack # <<>> /\ Top.cmd = "job" /\ Lives(Top, t) /\ Top.pc \notin {"begin", "find"}
  BY <1>1 DEF Record, JobAt, Lives
<1>3. UNCHANGED <<fs, manual, adopted>>
  BY DEF Record, files
<1>4. t \in File /\ RowFor(row[t], t, fs, run)
  BY <1>1, <1>2, JobFacts
<1>5. PICK r : r = Recorded(row[t], t)
  OBVIOUS
<1>6. r.stamp = Stamp(t) /\ r.gen /\ ~r.over
  BY <1>4, <1>5, Now, RecordedFacts
<1>7. PICK d : d = ZapDeps2(dep, t)
  OBVIOUS
<1>8. Commit([row EXCEPT ![t] = r], d) /\ Return(0)
  BY <1>1, <1>5, <1>7 DEF Record
<1>9. Stamp(t) # None /\ (Exists(t) => Stamp(t)[1] = fs[t].mtime)
  BY <1>4, Now, StampFacts
<1>10. t \in Target /\ fs[t].data # None => Own(r, fs[t].mtime)
  BY <1>6, <1>9, Now, TreeFacts DEF Own, Exists
<1> QED
  BY <1>1, <1>2, <1>3, <1>4, <1>6, <1>8, <1>9, <1>10, JobStepEnds

LEMMA RecordCopyFailureStep ==
    ASSUME TypeInv, RecordCopyFailure
    PROVE  JobStep(Top.t)
<1>1. PICK t : t = Top.t
  OBVIOUS
<1>2. stack # <<>> /\ Top.cmd = "job" /\ Lives(Top, t) /\ Top.pc \notin {"begin", "find"}
  BY <1>1 DEF RecordCopyFailure, JobAt, Lives
<1>3. UNCHANGED <<fs, manual, adopted>>
  BY DEF RecordCopyFailure, files
<1>4. t \in File /\ RowFor(Top.sf, t, fs, run)
  BY <1>1, <1>2, JobFacts
<1>5. PICK q : q = Recorded(Top.sf, t)
  OBVIOUS
<1>6. RowFor(q, t, fs, run) /\ ~q.over
  BY <1>4, <1>5, Now, RecordedFacts
<1>7. PICK r : r = SetFailed(q, t)
  OBVIOUS
<1>8. r.stamp = Stamp(t) /\ r.gen = Exists(t) /\ ~r.over
  <2>1. r.over => q.over
    BY <1>4, <1>6, <1>7, Now, SetFailedFacts
  <2>2. r.stamp = Stamp(t) /\ r.gen = Exists(t)
    BY <1>4, <1>6, <1>7, Now, SetFailedFacts
  <2> QED
    BY <1>6, <2>1, <2>2
<1>9. PICK d : d = ZapDeps2(dep, t)
  OBVIOUS
<1>10. Commit([row EXCEPT ![t] = r], d) /\ Return(1)
  BY <1>1, <1>5, <1>7, <1>9 DEF RecordCopyFailure
<1>11. Stamp(t) # None /\ (Exists(t) => Stamp(t)[1] = fs[t].mtime)
  BY <1>4, Now, StampFacts
<1>12. t \in Target /\ fs[t].data # None => Own(r, fs[t].mtime)
  BY <1>8, <1>11, Now, TreeFacts DEF Own, Exists
<1> QED
  BY <1>1, <1>2, <1>3, <1>4, <1>8, <1>10, <1>11, <1>12, JobStepEnds

LEMMA RecordFailureStep ==
    ASSUME TypeInv, RecordFailure
    PROVE  JobStep(Top.t)
<1>1. stack # <<>> /\ Top.cmd = "job" /\ Top.pc # "begin"
  BY DEF RecordFailure, JobAt
<1>2. UNCHANGED <<fs, manual, adopted>>
  BY DEF RecordFailure, files
<1>3. \E d : Fails(d)
  BY DEF RecordFailure
<1> QED
  BY <1>1, <1>2, <1>3, FailsStep

-----------------------------------------------------------------------------
(* Begin: an override, a source, or a build. *)
Begins(t, r) ==
    \/ /\ Overridden(row[t], t) /\ r.stamp # None /\ r.over
       /\ Return(0)
    \/ /\ Exists(t) /\ ~row[t].gen /\ r.stamp # None /\ ~r.gen
       /\ Return(0)
    \/ /\ ~Overridden(row[t], t) /\ (Exists(t) => row[t].gen /\ r = row[t])
       /\ \E x : stack' = Put(x) /\ Lives(x, t)

LEMMA BeginEffect ==
    ASSUME TypeInv, Begin, NEW t, t = Top.t
    PROVE  /\ stack # <<>> /\ t \in File /\ UNCHANGED <<fs, manual, adopted>>
           /\ \A u : ~Window(stack, u) /\ ~Lives(Top, u)
           /\ \A u \in Target \ {t} : row'[u] = row[u]
           /\ Begins(t, row'[t])
<1>1. /\ stack # <<>> /\ Top.cmd = "job" /\ JobAt("begin") /\ IsJob(Top, fs, row, run) /\ Top.pc = "begin"
      /\ DOMAIN Top = JobFields
  BY TopIsJob DEF Begin, JobAt, IsJob
<1>2. UNCHANGED <<fs, manual, adopted>>
  BY DEF Begin, files
<1>3. \A u : ~Window(stack, u) /\ ~Lives(Top, u)
  BY <1>1 DEF Window, Lives, Top
<1>4. PICK sf : sf = Top.sf
  OBVIOUS
<1>5. t \in File /\ sf = row[t] /\ RowFor(sf, t, fs, run)
  BY <1>1, <1>4 DEF IsJob
<1>6. sf.gen \in BOOLEAN /\ (sf.over => sf.stamp # None)
  BY <1>5 DEF RowFor, IsRow
<1>7. CASE /\ Overridden(sf, t)
           /\ Commit([row EXCEPT ![t] = IF sf.over THEN sf ELSE SetOverride(sf, t)], dep)
           /\ Return(0)
  <2>1. PICK r : r = IF sf.over THEN sf ELSE SetOverride(sf, t)
    OBVIOUS
  <2>2. r.stamp # None /\ r.over
    <3>1. CASE sf.over
      BY <1>6, <2>1, <3>1
    <3>2. CASE ~sf.over
      <4>1. r = SetOverride(sf, t)
        BY <2>1, <3>2
      <4>2. r.stamp = Stamp(t) /\ r.over = TRUE
        BY <1>5, <4>1, Now, SetOverrideFacts
      <4>3. Stamp(t) # None
        BY <1>5, Now, StampFacts
      <4> QED
        BY <4>2, <4>3
    <3> QED
      BY <3>1, <3>2
  <2>3. Commit([row EXCEPT ![t] = r], dep)
    BY <1>7, <2>1
  <2>4. row'[t] = r /\ \A u \in Target \ {t} : row'[u] = row[u]
    BY <1>5, <2>3, RowWritten
  <2> QED
    BY <1>1, <1>2, <1>3, <1>5, <1>7, <2>2, <2>4 DEF Begins
<1>8. CASE Exists(t) /\ ~sf.gen /\ Commit([row EXCEPT ![t] = SetStatic(sf, t)], dep) /\ Return(0)
  <2>1. PICK r : r = SetStatic(sf, t)
    OBVIOUS
  <2>2. r.stamp # None /\ ~r.gen
    BY <1>5, <2>1, Now, SetStaticFacts, StampFacts
  <2>3. Commit([row EXCEPT ![t] = r], dep)
    BY <1>8, <2>1
  <2>4. row'[t] = r /\ \A u \in Target \ {t} : row'[u] = row[u]
    BY <1>5, <2>3, RowWritten
  <2> QED
    BY <1>1, <1>2, <1>3, <1>5, <1>8, <2>2, <2>4 DEF Begins
<1>9. CASE /\ ~Overridden(sf, t) /\ ~(Exists(t) /\ ~sf.gen)
           /\ IF Intent(sf, t) # sf THEN Commit([row EXCEPT ![t] = Intent(sf, t)], dep) ELSE NoCommit(row, dep)
           /\ stack' = Put([Top EXCEPT !.sf = Intent(sf, t), !.pc = "find"])
  <2>1. PICK r : r = Intent(sf, t)
    OBVIOUS
  <2>2. row'[t] = r /\ \A u \in Target \ {t} : row'[u] = row[u]
    <3>1. CASE r # sf
      <4>1. Commit([row EXCEPT ![t] = r], dep)
        BY <1>9, <2>1, <3>1
      <4> QED
        BY <1>5, <4>1, RowWritten
    <3>2. CASE r = sf
      BY <1>5, <1>9, <2>1, <3>2 DEF NoCommit
    <3> QED
      BY <3>1, <3>2
  <2>3. Exists(t) => row[t].gen /\ r = row[t]
    BY <1>5, <1>6, <1>9, <2>1 DEF Intent
  <2>4. PICK x : x = [Top EXCEPT !.sf = r, !.pc = "find"]
    OBVIOUS
  <2>5. x.cmd = "job" /\ x.t = t /\ x.pc = "find"
    BY <1>1, <2>4 DEF JobFields
  <2>6. stack' = Put(x) /\ Lives(x, t)
    BY <1>9, <2>1, <2>4, <2>5 DEF Lives
  <2>7. Begins(t, row'[t])
    BY <1>5, <1>9, <2>2, <2>3, <2>6 DEF Begins
  <2> QED
    BY <1>1, <1>2, <1>3, <1>5, <2>2, <2>7
<1> QED
  BY <1>4, <1>7, <1>8, <1>9 DEF Begin

LEMMA BeginOwn ==
    ASSUME TypeInv, OwnInv, Begin
    PROVE  OwnNext
<1>1. PICK t : t = Top.t
  OBVIOUS
<1>2. /\ t \in File /\ UNCHANGED <<fs, manual, adopted>>
      /\ \A u : ~Window(stack, u)
      /\ \A u \in Target \ {t} : row'[u] = row[u]
      /\ Begins(t, row'[t])
  BY <1>1, BeginEffect
<1> SUFFICES ASSUME NEW u \in Target \ (manual' \cup adopted'), fs'[u].data # None
             PROVE  Own(row'[u], fs'[u].mtime)
  BY DEF OwnNext
<1>3. Own(row[u], fs[u].mtime) /\ fs[u].data # None
  BY <1>2 DEF OwnInv
<1>4. CASE u # t
  BY <1>2, <1>3, <1>4
<1>5. CASE u = t
  <2>1. Exists(t)
    BY <1>3, <1>5, Now, TreeFacts DEF Exists
  <2>2. Stamp(t)[1] = fs[t].mtime
    BY <1>2, <2>1, Now, StampFacts
  <2>3. ~Overridden(row[t], t)
    BY <1>3, <1>5, <2>2 DEF Overridden, Own, DetectOverride
  <2>4. row'[t] = row[t]
    BY <1>2, <1>3, <1>5, <2>1, <2>3 DEF Begins, Own
  <2> QED
    BY <1>2, <1>3, <1>5, <2>4
<1> QED
  BY <1>4, <1>5

LEMMA BeginHand ==
    ASSUME TypeInv, HandInv, Begin
    PROVE  HandNext /\ manual' = manual
<1>1. PICK t : t = Top.t
  OBVIOUS
<1>2. /\ stack # <<>> /\ t \in File /\ UNCHANGED <<fs, manual, adopted>>
      /\ \A u : ~Window(stack, u) /\ ~Lives(Top, u)
      /\ \A u \in Target \ {t} : row'[u] = row[u]
      /\ Begins(t, row'[t])
  BY <1>1, BeginEffect
<1>3. IsSeq(stack) /\ manual \subseteq Target
  BY Now DEF StackOK, TypeInv, GhostsOK
<1>4. \A u : Return(0) => (Building(stack', u) <=> Building(stack, u))
  BY <1>2, LivesReturn
<1>5. ASSUME NEW x, stack' = Put(x), Lives(x, t)
      PROVE  Building(stack', t) /\ \A u \in Target \ {t} : Building(stack', u) <=> Building(stack, u)
  <2>1. stack' = Append(Front(stack), x) /\ Top = Last(stack)
    BY <1>5 DEF Put, Top
  <2>2. \A u \in Target \ {t} : ~Lives(x, u)
    BY <1>5 DEF Lives
  <2>3. /\ \A u : Building(stack', u) => Building(stack, u) \/ Lives(x, u)
        /\ \A u : Building(stack, u) => Building(stack', u) \/ Lives(Top, u)
        /\ \A u : Lives(x, u) => Building(stack', u)
    BY <1>2, <1>3, <2>1, LivesPut
  <2> QED
    BY <1>2, <1>5, <2>2, <2>3
<1>6. \A u \in Target \ {t} : Building(stack', u) <=> Building(stack, u)
  BY <1>2, <1>4, <1>5 DEF Begins
<1>7. ASSUME t \in manual
      PROVE  ~Building(stack', t) /\ (row'[t].gen => row'[t].over)
  <2>1. Exists(t) /\ ~Building(stack, t) /\ fs[t].mtime \in Nat
    BY <1>3, <1>7, Now, TreeFacts DEF HandInv, Exists, FsOK, IsFile
  <2>2. Stamp(t)[1] = fs[t].mtime
    BY <1>2, <2>1, Now, StampFacts
  <2>3. row[t].gen => Overridden(row[t], t)
    <3>1. row[t].gen /\ ~row[t].over => row[t].stamp # None /\ row[t].stamp[1] < fs[t].mtime
      BY <1>7 DEF HandInv
    <3>2. row[t].gen /\ ~row[t].over => row[t].stamp[1] # Stamp(t)[1]
      <4>1. RowFor(row[t], t, fs, run)
        BY <1>2, Now DEF RowsOK
      <4>2. row[t].stamp # None => row[t].stamp \in Nat \X Nat
        BY <4>1 DEF RowFor, IsRow
      <4>3. row[t].stamp # None => row[t].stamp[1] \in Nat
        BY <4>2
      <4> QED
        BY <2>1, <2>2, <3>1, <4>3
    <3> QED
      BY <2>1, <3>1, <3>2 DEF Overridden, DetectOverride
  <2> QED
    BY <1>2, <1>4, <2>1, <2>3 DEF Begins
<1>8. ASSUME NEW u \in manual'
      PROVE  /\ fs'[u].data # None /\ ~Building(stack', u)
             /\ row'[u].gen /\ ~row'[u].over =>
                   row'[u].stamp # None /\ row'[u].stamp[1] < fs'[u].mtime
  <2>1. u \in manual /\ u \in Target /\ fs' = fs
    BY <1>2, <1>3
  <2>2. CASE u = t
    BY <1>7, <2>1, <2>2 DEF HandInv
  <2>3. CASE u # t
    BY <1>2, <1>6, <2>1, <2>3 DEF HandInv
  <2> QED
    BY <2>2, <2>3
<1>9. ASSUME ~May("Crashes"), NEW u \in Target, row'[u].gen, row'[u].stamp = None
      PROVE  Building(stack', u)
  <2>1. CASE u = t
    BY <1>2, <1>5, <1>9, <2>1 DEF Begins
  <2>2. CASE u # t
    BY <1>2, <1>6, <1>9, <2>2 DEF HandInv
  <2> QED
    BY <2>1, <2>2
<1>10. May("Crashes") => manual' = {}
  BY <1>2 DEF HandInv
<1> QED
  BY <1>2, <1>8, <1>9, <1>10 DEF HandNext

-----------------------------------------------------------------------------
(* The user, and the crash. *)
LEMMA UserQuiet ==
    ASSUME TypeInv, UNCHANGED <<row, stack, manual, adopted>>,
           \A u \in Target : fs'[u].data = fs[u].data /\ fs'[u].mtime = fs[u].mtime
    PROVE  (OwnInv => OwnNext) /\ (HandInv => HandNext)
<1>1. manual \subseteq Target
  BY DEF TypeInv, GhostsOK
<1>2. OwnInv => OwnNext
  BY DEF OwnInv, OwnNext
<1>3. HandInv => HandNext
  BY <1>1 DEF HandInv, HandNext
<1> QED
  BY <1>2, <1>3

LEMMA UserQuietActions ==
    ASSUME TypeInv,
           \/ \E s \in Source, v \in Data \cup {None} : EditSource(s, v)
           \/ \E t \in Target : TouchInode(t)
           \/ ChangeWorld
           \/ UNCHANGED vars
    PROVE  /\ OwnInv => OwnNext
           /\ HandInv => HandNext
           /\ manual' = manual
<1>1. UNCHANGED <<row, stack, manual, adopted>>
  BY DEF EditSource, TouchInode, ChangeWorld, UserStep, vars
<1>2. DOMAIN fs = Source \cup Target /\ Source \cap Target = {} /\ \A u \in Target : IsFile(fs[u])
  BY Now, TreeFacts DEF FsOK
<1>3. \A u \in Target : fs'[u].data = fs[u].data /\ fs'[u].mtime = fs[u].mtime
  <2>1. ASSUME NEW s \in Source, NEW v, EditSource(s, v), NEW u \in Target
        PROVE  fs'[u] = fs[u]
    BY <1>2, <2>1 DEF EditSource
  <2>2. ASSUME NEW t \in Target, TouchInode(t), NEW u \in Target
        PROVE  fs'[u].data = fs[u].data /\ fs'[u].mtime = fs[u].mtime
    <3>1. PICK w : w = [fs[t] EXCEPT !.ino = 2]
      OBVIOUS
    <3>2. fs' = [fs EXCEPT ![t] = w]
      BY <2>2, <3>1 DEF TouchInode
    <3>3. w.data = fs[t].data /\ w.mtime = fs[t].mtime
      BY <1>2, <3>1 DEF IsFile
    <3> QED
      BY <1>2, <3>2, <3>3
  <2>3. CASE ChangeWorld \/ UNCHANGED vars
    BY <2>3 DEF ChangeWorld, vars
  <2> QED
    BY <2>1, <2>2, <2>3
<1> QED
  BY <1>1, <1>3, UserQuiet

LEMMA StartRunStep ==
    ASSUME TypeInv, NEW c \in Commands, StartRun(c)
    PROVE  CmdStep
<1>1. UNCHANGED <<fs, manual, adopted, row>> /\ stack = <<>>
  BY DEF StartRun, files, tables, Idle
<1>2. PICK f : f = Cmd(c.cmd, c.args, None, FALSE)
  OBVIOUS
<1>3. c.cmd \in {"ifchange", "redo"}
  BY Now, TreeFacts
<1>4. f.cmd # "job"
  BY <1>2, <1>3 DEF Cmd
<1>5. stack' = Append(stack, f) /\ IsSeq(stack)
  BY <1>1, <1>2, Now DEF StartRun, StackOK
<1>6. \A u : Building(stack', u) <=> Building(stack, u)
  BY <1>4, <1>5, LivesAppend DEF Lives
<1> QED
  BY <1>1, <1>6 DEF CmdStep, Window

LEMMA EditTargetOwn ==
    ASSUME TypeInv, OwnInv, NEW t \in Target, NEW v, EditTarget(t, v)
    PROVE  OwnNext
<1>1. /\ stack = <<>> /\ stack' = stack /\ row' = row /\ adopted' = adopted \ {t}
      /\ manual' = IF v = None THEN manual \ {t} ELSE manual \cup {t}
  BY DEF EditTarget, UserStep, Idle
<1>2. PICK w : w = IF v = None THEN Removed(fs[t]) ELSE Written(fs[t], v)
  OBVIOUS
<1>3. fs' = [fs EXCEPT ![t] = w] /\ DOMAIN fs = Source \cup Target /\ IsFile(fs[t])
  BY <1>2, Now DEF EditTarget, FsOK
<1>4. v = None => w.data = None
  BY <1>2, <1>3 DEF Removed, IsFile
<1> SUFFICES ASSUME NEW u \in Target \ (manual' \cup adopted'), fs'[u].data # None
             PROVE  Own(row'[u], fs'[u].mtime)
  BY DEF OwnNext
<1>5. CASE u = t
  BY <1>1, <1>3, <1>4, <1>5
<1>6. CASE u # t
  BY <1>1, <1>3, <1>6 DEF OwnInv, Window
<1> QED
  BY <1>5, <1>6

LEMMA EditTargetHand ==
    ASSUME TypeInv, HandInv, NEW t \in Target, NEW v, EditTarget(t, v),
           May("Crashes") => HandEdited = {}
    PROVE  /\ HandNext
           /\ \A u \in manual : u \notin manual' => fs'[u].data = None /\ Idle
<1>1. /\ stack = <<>> /\ stack' = stack /\ row' = row
      /\ manual' = IF v = None THEN manual \ {t} ELSE manual \cup {t}
  BY DEF EditTarget, UserStep, Idle
<1>2. PICK w : w = IF v = None THEN Removed(fs[t]) ELSE Written(fs[t], v)
  OBVIOUS
<1>3. fs' = [fs EXCEPT ![t] = w] /\ DOMAIN fs = Source \cup Target /\ IsFile(fs[t])
  BY <1>2, Now DEF EditTarget, FsOK
<1>4. v = None => w.data = None
  BY <1>2, <1>3 DEF Removed, IsFile
<1>5. v # None => w.data = v /\ fs[t].mtime < w.mtime /\ t \in HandEdited
  BY <1>2, <1>3 DEF Written, IsFile, EditTarget
<1>6. \A u : ~Building(stack, u)
  BY <1>1 DEF Building
<1>7. manual \subseteq Target
  BY DEF TypeInv, GhostsOK
<1>8. ASSUME NEW u \in manual'
      PROVE  /\ fs'[u].data # None /\ ~Building(stack', u)
             /\ row'[u].gen /\ ~row'[u].over =>
                   row'[u].stamp # None /\ row'[u].stamp[1] < fs'[u].mtime
  <2>1. CASE u # t
    <3>1. u \in manual /\ fs'[u] = fs[u]
      BY <1>1, <1>3, <1>7, <1>8, <2>1
    <3> QED
      BY <1>1, <3>1 DEF HandInv
  <2>2. CASE u = t
    <3>1. v # None /\ fs'[t] = w
      BY <1>1, <1>3, <1>8, <2>2
    <3>2. ~May("Crashes")
      BY <1>5, <3>1
    <3>3. row[t].gen => row[t].stamp # None
      BY <1>6, <3>2 DEF HandInv
    <3>4. RowFor(row[t], t, fs, run) /\ t # Always
      BY Now, TreeFacts DEF RowsOK, File
    <3>5. row[t].stamp # None => row[t].stamp \in Nat \X Nat /\ row[t].stamp[1] <= fs[t].mtime
      BY <3>4 DEF RowFor, IsRow, Past
    <3>6. row[t].stamp # None => row[t].stamp[1] \in Nat
      BY <3>5
    <3>7. fs[t].mtime \in Nat /\ w.mtime \in Nat
      BY <1>2, <1>3, <3>1 DEF IsFile, Written
    <3>8. row[t].stamp # None => row[t].stamp[1] < w.mtime
      BY <1>5, <3>1, <3>5, <3>6, <3>7
    <3> QED
      BY <1>1, <1>5, <1>6, <2>2, <3>1, <3>3, <3>8
  <2> QED
    BY <2>1, <2>2
<1>9. May("Crashes") => manual' = {}
  BY <1>1, <1>5 DEF HandInv
<1>10. HandNext
  BY <1>1, <1>8, <1>9 DEF HandNext, HandInv
<1>11. \A u \in manual : u \notin manual' => fs'[u].data = None /\ Idle
  BY <1>1, <1>3, <1>4 DEF Idle
<1> QED
  BY <1>10, <1>11

(* A crash loses at most scans of isdirty, and between the rename and the  *)
(* commit of a first build the row already says that redo makes the file.  *)
LEMMA CrashOwn ==
    ASSUME TypeInv, OwnInv, Crash, ~May("LostRecord")
    PROVE  OwnNext
<1>1. UNCHANGED <<fs, manual, adopted>> /\ row' = saved.row /\ stack' = <<>> /\ ~InWindow
  BY DEF Crash, files
<1>2. InSync(row, saved.row)
  BY Now
<1> SUFFICES ASSUME NEW u \in Target \ (manual' \cup adopted'), fs'[u].data # None
             PROVE  Own(row'[u], fs'[u].mtime)
  BY DEF OwnNext
<1>3. Own(row[u], fs[u].mtime)
  <2>1. CASE ~Window(stack, u)
    BY <1>1, <2>1 DEF OwnInv
  <2>2. CASE Window(stack, u)
    <3>1. /\ stack # <<>> /\ Top.cmd = "job" /\ Top.pc \in {"record", "hit"} /\ Top.t = u
      BY <2>2 DEF Window, Top
    <3>2. row[u].stamp = None
      BY <1>1, <3>1 DEF InWindow, JobAt
    <3>3. row[u].gen
      BY <3>1, <3>2, TopIsJob DEF IsJob
    <3>4. RowFor(row[u], u, fs, run)
      BY Now DEF RowsOK, File
    <3>5. ~row[u].over
      BY <3>2, <3>4 DEF RowFor, IsRow
    <3> QED
      BY <3>2, <3>3, <3>5 DEF Own
  <2> QED
    BY <2>1, <2>2
<1>4. /\ saved.row[u].stamp = row[u].stamp /\ saved.row[u].over = row[u].over
      /\ row[u].gen => saved.row[u].gen
  BY <1>2 DEF InSync
<1> QED
  BY <1>1, <1>3, <1>4 DEF Own

LEMMA CrashHand ==
    ASSUME TypeInv, HandInv, Crash
    PROVE  HandNext /\ manual' = manual
<1>1. May("Crashes") /\ manual' = manual /\ manual = {}
  BY DEF Crash, files, HandInv
<1> QED
  BY <1>1 DEF HandNext

-----------------------------------------------------------------------------
LEMMA BuildEffect ==
    ASSUME TypeInv, Build, ~Begin
    PROVE  CmdStep \/ JobStep(Top.t)
  BY IfchangeStep, RedoStep, CommandEndStep, OobStep, FindStep, WantStep, LookupStep, HitRecordStep,
     ExecStep, OpStep, OpAlwaysStep, OpStampStep, RenameStep, CopyFailsStep, RecordStep,
     RecordCopyFailureStep, RecordFailureStep
     DEF Build

LEMMA OwnInit ==
    ASSUME Init
    PROVE  OwnInv
<1>1. \A t \in Target : fs[t].data = None
  <2>1. Source \cap Target = {}
    BY TreeFacts DEF Init
  <2> QED
    BY <2>1 DEF Init
<1> QED
  BY <1>1 DEF OwnInv

LEMMA OwnStep ==
    ASSUME TypeInv, OwnInv, [Next]_<<vars, tree>>, ~May("LostRecord")
    PROVE  OwnInv'
<1>1. tree' = tree
  BY DEF Next
<1>2. OwnNext
  <2>1. CASE User
    <3>1. ASSUME NEW c \in Commands, StartRun(c) PROVE OwnNext
      BY <3>1, StartRunStep, CmdStepOwn
    <3>2. ASSUME NEW t \in Target, NEW v, EditTarget(t, v) PROVE OwnNext
      BY <3>2, EditTargetOwn
    <3> QED
      BY <2>1, <3>1, <3>2, UserQuietActions DEF User
  <2>2. CASE Build
    BY <2>2, BuildEffect, BeginOwn, CmdStepOwn, JobStepOwn
  <2>3. CASE Crash
    BY <2>3, CrashOwn
  <2>4. CASE UNCHANGED vars
    BY <2>4, UserQuietActions
  <2> QED
    BY <2>1, <2>2, <2>3, <2>4 DEF Next, Rest
<1>3. Target' = Target
  BY <1>1 DEF Target
<1> QED
  BY <1>2, <1>3 DEF OwnNext, OwnInv

(* redo never takes its own output for the user's, whatever isdirty        *)
(* answers and wherever a run is killed, except between the rename and the *)
(* commit of a rebuild (LostRecord): there the old stamp is in the row,    *)
(* and the next run takes the new file for an override.                    *)
THEOREM OwnOutputKnown ==
    ASSUME \A n \in DOMAIN Trees : "LostRecord" \notin Trees[n].options
    PROVE  Spec => []NotMistaken
<1>1. Init => TypeInv /\ OwnInv
  BY TypeInit, OwnInit
<1>2. TypeInv /\ OwnInv /\ [Next]_<<vars, tree>> => (TypeInv /\ OwnInv)'
  <2> SUFFICES ASSUME TypeInv, OwnInv, [Next]_<<vars, tree>>
               PROVE  (TypeInv /\ OwnInv)'
    OBVIOUS
  <2>1. ~May("LostRecord")
    BY Now DEF May
  <2> QED
    BY <2>1, TypeStep, OwnStep
<1>3. TypeInv /\ OwnInv => NotMistaken
  <2> SUFFICES ASSUME TypeInv, OwnInv, Idle, NEW t \in Target, Exists(t), row[t].over \/ ~row[t].gen
               PROVE  t \in manual \cup adopted
    BY DEF NotMistaken
  <2>1. ~Window(stack, t) /\ fs[t].data # None
    BY DEF Window, Idle, Exists
  <2> QED
    BY <2>1 DEF OwnInv, Own
<1> QED
  BY <1>1, <1>2, <1>3, PTL DEF Spec

LEMMA HandInit ==
    ASSUME Init
    PROVE  HandInv
<1>1. manual = {}
  BY DEF Init
<1>2. \A t \in Target : ~row[t].gen
  BY DEF Init, File, Blank
<1> QED
  BY <1>1, <1>2 DEF HandInv

LEMMA HandStep ==
    ASSUME TypeInv, HandInv, [Next]_<<vars, tree>>, May("Crashes") => HandEdited = {}
    PROVE  /\ HandInv'
           /\ \A t \in manual : t \notin manual' => fs'[t].data = None /\ Idle
<1>1. tree' = tree
  BY DEF Next
<1>2. HandNext /\ \A t \in manual : t \notin manual' => fs'[t].data = None /\ Idle
  <2>1. CASE User
    <3>1. ASSUME NEW c \in Commands, StartRun(c) PROVE HandNext /\ manual' = manual
      BY <3>1, StartRunStep, CmdStepHand
    <3>2. ASSUME NEW t \in Target, NEW v, EditTarget(t, v)
          PROVE  HandNext /\ \A u \in manual : u \notin manual' => fs'[u].data = None /\ Idle
      BY <3>2, EditTargetHand
    <3> QED
      BY <2>1, <3>1, <3>2, UserQuietActions DEF User
  <2>2. CASE Build
    <3>1. HandNext /\ manual' = manual
      BY <2>2, BuildEffect, BeginHand, CmdStepHand, JobStepHand
    <3> QED
      BY <3>1
  <2>3. CASE Crash
    <3>1. HandNext /\ manual' = manual
      BY <2>3, CrashHand
    <3> QED
      BY <3>1
  <2>4. CASE UNCHANGED vars
    <3>1. HandNext /\ manual' = manual
      BY <2>4, UserQuietActions
    <3> QED
      BY <3>1
  <2> QED
    BY <2>1, <2>2, <2>3, <2>4 DEF Next, Rest
<1>3. Target' = Target /\ (May("Crashes")' <=> May("Crashes"))
  BY <1>1 DEF Target, May
<1> QED
  BY <1>2, <1>3 DEF HandNext, HandInv

(* What the user wrote over a target stays until the user removes it, in   *)
(* every tree in which either no run is killed or the user overwrites no   *)
(* target: detect_override sees every such file before a build begins.     *)
(* With both it fails: a run killed after persist_new_target_intent leaves *)
(* a generated row with no stamp, and a file written by hand then is       *)
(* rebuilt over.                                                           *)
THEOREM HandWorkSafe ==
    ASSUME \A n \in DOMAIN Trees : "Crashes" \notin Trees[n].options \/ Trees[n].handEdited = {}
    PROVE  Spec => HandWorkKept
<1>1. Init => TypeInv /\ HandInv
  BY TypeInit, HandInit
<1>2. TypeInv /\ HandInv /\ [Next]_<<vars, tree>> =>
         /\ (TypeInv /\ HandInv)'
         /\ \A t \in manual : t \notin manual' => fs'[t].data = None /\ Idle
  <2> SUFFICES ASSUME TypeInv, HandInv, [Next]_<<vars, tree>>
               PROVE  /\ (TypeInv /\ HandInv)'
                      /\ \A t \in manual : t \notin manual' => fs'[t].data = None /\ Idle
    OBVIOUS
  <2>1. May("Crashes") => HandEdited = {}
    BY Now DEF May, HandEdited
  <2> QED
    BY <2>1, TypeStep, HandStep
<1> QED
  BY <1>1, <1>2, PTL DEF Spec, HandWorkKept

=============================================================================
