------------------------- MODULE ActionCache_proofs -------------------------
(***************************************************************************)
(* Proofs about the local action cache, for any number of processes,       *)
(* targets, versions and sizes: a hit gives the output of its key, and the *)
(* collection keeps the cache within its limit.                            *)
(***************************************************************************)
EXTENDS ActionCache, TLAPS, FiniteSetTheorems

Process == [pc : PCs, key : Key \cup {None}, held : BOOLEAN, val : Output \cup {None},
            m : Output \cup {None}, todo : SUBSET Key, seen : SUBSET [k : Key, size : Size],
            total : Nat]

Types == /\ blob \in [Key -> Output \cup {None}]
         /\ meta \in [Key -> Output \cup {None}]
         /\ proc \in [Proc -> Process]
         /\ src \in [Target -> Version] /\ out \in [Target -> Output \cup {None}]
         /\ torn \subseteq Key /\ killed \in BOOLEAN
         /\ edits \in Nat /\ setup \in Setups

Collecting == {"scan", "rm", "rmMeta"}

(* The list of a collection has one entry for each object it has found,    *)
(* none for those it has yet to look at, and the total is that of the list.*)
Account(r) ==
    /\ IsFiniteSet(BytesOf(r.seen)) /\ r.total = Cardinality(BytesOf(r.seen))
    /\ \A o1, o2 \in r.seen : o1.k = o2.k => o1 = o2
    /\ r.pc = "scan" => \A o \in r.seen : o.k \notin r.todo

ShapeOK(r) ==
    /\ r.pc = "idle" => r = Idle
    /\ r.pc # "idle" => r.key \in Key
    /\ r.pc \notin Collecting => r.todo = {} /\ r.seen = {} /\ r.total = 0
    /\ r.pc = "rm" => r.todo = {}
    /\ Account(r)

Shape == Types /\ \A p \in Proc : ShapeOK(proc[p])

-----------------------------------------------------------------------------
(* A process that pulled an output stores it without the target's lock.    *)
(* While it is on its way to the store, another can build the target.  The *)
(* cache can then only be right if that one makes the same: if the source  *)
(* stays as it is, and outputs of one key do not differ.                   *)
RemoteQuiet == \A s \in Setups : s.remote => s.edits = 0 /\ \A a, b \in s.sizes : a = b

(* o was made for k. *)
Right(o, k) == o # None => o.t = k.t /\ o.v = k.v /\ o.size \in setup.sizes

(* Until there is an output, a process holds the lock of its target.       *)
Early == {"lookup", "meta?", "copy", "hit", "make", "script"}

StageOK(r) ==
    /\ r.pc \in Early => r.held
    /\ r.pc # "idle" /\ ~r.held => setup.remote
    /\ r.pc # "idle" => r.key.v \in setup.versions
    /\ r.pc # "idle" /\ setup.remote => r.key.v = src[r.key.t]
    /\ r.pc = "store" => Right(out[r.key.t], r.key) /\ out[r.key.t] # None
    /\ r.pc \in {"hit", "blob", "meta"} => Right(r.val, r.key) /\ r.val # None
    /\ r.pc \in {"copy", "hit"} => Right(r.m, r.key) /\ r.m # None

Locked == \A p, q \in Proc : p # q /\ proc[p].held /\ proc[q].held => KeyOf(p).t # KeyOf(q).t

Sources == \A t \in Target : /\ src[t] \in setup.versions
                             /\ setup.remote => Right(out[t], [t |-> t, v |-> src[t]])

Entries == \A k \in Key : /\ Right(blob[k], k) /\ Right(meta[k], k)
                          /\ blob[k] # None => k.v \in setup.versions

Stages == /\ \A p \in Proc : StageOK(proc[p])
          /\ Locked /\ Sources /\ Entries

(* The two files of a key that is not torn belong together, unless its     *)
(* store is between the renames; and what a process has read of them is    *)
(* still what is there, or gone.                                           *)
PairOf(k) ==
    /\ \/ None \in {blob[k], meta[k]} \/ blob[k] = meta[k]
       \/ \E p \in Proc : At(p, "meta") /\ KeyOf(p) = k
    /\ \A p \in Proc : KeyOf(p) = k =>
         /\ At(p, "meta") => blob[k] \in {None, proc[p].val}
         /\ At(p, "copy") => blob[k] \in {None, proc[p].m}
         /\ At(p, "hit") => proc[p].m = proc[p].val
Pairs == \A k \in Key \ torn : PairOf(k)

(* The collection of a process that stored last has found, or will find,   *)
(* every object there is.                                                  *)
Fresh(p) ==
    \/ proc[p].pc \in {"meta", "gc"}
    \/ /\ proc[p].pc \in Collecting
       /\ \A o \in Blobs : o \in proc[p].seen \/ (At(p, "scan") /\ o.k \in proc[p].todo)
Covered == /\ IsFiniteSet(BytesOf(Blobs))
           /\ \/ setup.max = 0 \/ killed \/ Bytes <= setup.max
              \/ \E p \in Proc : Fresh(p)

IInv == Shape /\ Stages /\ Pairs /\ Covered

-----------------------------------------------------------------------------
(* Counting bytes. *)

LEMMA ByteOf ==
    ASSUME NEW S, NEW b
    PROVE  b \in BytesOf(S) <=> \E o \in S : b \in {o.k} \X (1..o.size)
BY DEF BytesOf

(* One object is as many bytes as its size says. *)
LEMMA ObjectBytes ==
    ASSUME NEW k, NEW n \in Nat
    PROVE  IsFiniteSet({k} \X (1..n)) /\ Cardinality({k} \X (1..n)) = n
<1>1. IsFiniteSet({k}) /\ Cardinality({k}) = 1
  BY FS_Singleton
<1>2. IsFiniteSet(1..n) /\ Cardinality(1..n) = n
  BY FS_Interval
<1>3. /\ IsFiniteSet({k} \X (1..n))
      /\ Cardinality({k} \X (1..n)) = Cardinality({k}) * Cardinality(1..n)
  BY <1>1, <1>2, FS_Product
<1> QED BY <1>1, <1>2, <1>3

LEMMA NoBytes == BytesOf({}) = {} /\ IsFiniteSet({}) /\ Cardinality({}) = 0
BY FS_EmptySet DEF BytesOf

(* An object of a new name adds its size; ... *)
LEMMA AddObject ==
    ASSUME NEW S, IsFiniteSet(BytesOf(S)), NEW e, e.size \in Nat, \A o \in S : o.k # e.k
    PROVE  /\ IsFiniteSet(BytesOf(S \cup {e}))
           /\ Cardinality(BytesOf(S \cup {e})) = Cardinality(BytesOf(S)) + e.size
<1> DEFINE E == {e.k} \X (1..e.size)
<1>1. BytesOf(S \cup {e}) = BytesOf(S) \cup E
  <2>1. \A b : b \in BytesOf(S \cup {e}) <=> b \in BytesOf(S) \/ b \in E
    BY ByteOf
  <2> QED BY <2>1
<1>2. BytesOf(S) \cap E = {}
  BY ByteOf
<1>3. IsFiniteSet(E) /\ Cardinality(E) = e.size
  BY ObjectBytes
<1>4. /\ IsFiniteSet(BytesOf(S) \cup E)
      /\ Cardinality(BytesOf(S) \cup E)
           = Cardinality(BytesOf(S)) + Cardinality(E) - Cardinality(BytesOf(S) \cap E)
  BY <1>3, FS_Union
<1>5. Cardinality(BytesOf(S)) \in Nat
  BY FS_CardinalityType
<1>6. Cardinality(BytesOf(S) \cap E) = 0
  BY <1>2, NoBytes
<1> HIDE DEF E
<1>7. Cardinality(BytesOf(S) \cup E) = Cardinality(BytesOf(S)) + e.size
  BY <1>3, <1>4, <1>5, <1>6
<1> QED BY <1>1, <1>4, <1>7, Zenon

(* ... and one that is taken off a list takes its size with it. *)
LEMMA DropObject ==
    ASSUME NEW S, IsFiniteSet(BytesOf(S)), NEW e \in S, e.size \in Nat,
           \A o \in S : o.k = e.k => o = e
    PROVE  /\ IsFiniteSet(BytesOf(S \ {e}))
           /\ Cardinality(BytesOf(S)) = Cardinality(BytesOf(S \ {e})) + e.size
           /\ Cardinality(BytesOf(S \ {e})) \in Nat
<1>1. BytesOf(S \ {e}) \subseteq BytesOf(S)
  BY ByteOf
<1>2. IsFiniteSet(BytesOf(S \ {e}))
  BY <1>1, FS_Subset
<1>3. S = (S \ {e}) \cup {e} /\ \A o \in S \ {e} : o.k # e.k
  OBVIOUS
<1>4. Cardinality(BytesOf((S \ {e}) \cup {e})) = Cardinality(BytesOf(S \ {e})) + e.size
  BY <1>2, <1>3, AddObject
<1> QED BY <1>2, <1>3, <1>4, FS_CardinalityType

(* Fewer bytes are no more. *)
LEMMA FewerBytes ==
    ASSUME NEW S, NEW T, IsFiniteSet(BytesOf(T)), BytesOf(S) \subseteq BytesOf(T)
    PROVE  /\ IsFiniteSet(BytesOf(S))
           /\ Cardinality(BytesOf(S)) <= Cardinality(BytesOf(T))
           /\ Cardinality(BytesOf(S)) \in Nat /\ Cardinality(BytesOf(T)) \in Nat
BY FS_Subset, FS_CardinalityType

-----------------------------------------------------------------------------
(* Types and accounts. *)

LEMMA IdleOK == Idle \in Process /\ ShapeOK(Idle)
BY NoBytes DEF Idle, Process, ShapeOK, Account, PCs, Collecting

(* A process that is not collecting owes nothing. *)
LEMMA NotCollecting ==
    ASSUME NEW r \in Process, r.pc \notin {"idle"} \cup Collecting, r.key \in Key,
           r.todo = {}, r.seen = {}, r.total = 0
    PROVE  ShapeOK(r)
BY NoBytes DEF ShapeOK, Account, Collecting

(* One process changes, into one of the right shape. *)
LEMMA SetShape ==
    ASSUME Shape, NEW p \in Proc, NEW r \in Process, ShapeOK(r), Set(p, r)
    PROVE  /\ proc' \in [Proc -> Process] /\ \A q \in Proc : ShapeOK(proc'[q])
           /\ proc'[p] = r /\ \A q \in Proc \ {p} : proc'[q] = proc[q]
BY DEF Shape, Types, Set

(* The steps of a build, up to the collection, move a process on without   *)
(* touching its account.                                                   *)
LEMMA MoveShape ==
    ASSUME Shape, NEW p \in Proc, proc[p].pc \notin {"idle"} \cup Collecting,
           NEW r \in Process, r.pc \notin {"idle"} \cup Collecting,
           \A x \in {"key", "todo", "seen", "total"} : r[x] = proc[p][x], Set(p, r)
    PROVE  proc' \in [Proc -> Process] /\ \A q \in Proc : ShapeOK(proc'[q])
<1>1. /\ r.key = proc[p].key /\ r.todo = proc[p].todo /\ r.seen = proc[p].seen
      /\ r.total = proc[p].total
  OBVIOUS
<1>2. proc[p].key \in Key /\ proc[p].todo = {} /\ proc[p].seen = {} /\ proc[p].total = 0
  BY DEF Shape, ShapeOK
<1>3. ShapeOK(r)
  BY <1>1, <1>2, NotCollecting
<1> QED BY <1>3, SetShape

(* What is left to show once the processes are right. *)
LEMMA WorldShape ==
    ASSUME Shape, proc' \in [Proc -> Process], \A q \in Proc : ShapeOK(proc'[q]),
           blob' \in [Key -> Output \cup {None}], meta' \in [Key -> Output \cup {None}],
           out' \in [Target -> Output \cup {None}], torn' \subseteq Key, killed' \in BOOLEAN,
           UNCHANGED <<src, edits, setup>>
    PROVE  Shape'
BY DEF Shape, Types

LEMMA InitShape == Init => Shape
<1> SUFFICES ASSUME Init PROVE Shape
  OBVIOUS
<1>1. (CHOOSE v \in setup.versions : TRUE) \in Version
  BY CacheAssumption DEF Init
<1> QED BY <1>1, IdleOK DEF Init, Shape, Types

(* Types and accounts are kept by every step. *)
LEMMA NextShape == Shape /\ [Next]_vars => Shape'
<1> SUFFICES ASSUME Shape, [Next]_vars PROVE Shape'
  OBVIOUS
<1>t. /\ blob \in [Key -> Output \cup {None}] /\ meta \in [Key -> Output \cup {None}]
      /\ out \in [Target -> Output \cup {None}] /\ torn \subseteq Key /\ killed \in BOOLEAN
      /\ setup \in Setups /\ proc \in [Proc -> Process]
  BY DEF Shape, Types
<1>p. \A p \in Proc : /\ proc[p] \in Process /\ ShapeOK(proc[p])
                      /\ proc[p].pc # "idle" => proc[p].key \in Key
  BY DEF Shape, Types, ShapeOK
<1>k. \A k \in Key : blob[k] \in Output \cup {None} /\ meta[k] \in Output \cup {None} /\ k.t \in Target
  BY <1>t DEF Key
<1>1. ASSUME NEW p \in Proc, NEW t \in Target, Begin(p, t) PROVE Shape'
  <2> DEFINE r == [Idle EXCEPT !.pc = "lookup", !.key = [t |-> t, v |-> src[t]], !.held = TRUE]
  <2>1. [t |-> t, v |-> src[t]] \in Key
    BY DEF Shape, Types, Key
  <2>2. r \in Process /\ ShapeOK(r)
    BY <2>1, NotCollecting DEF Idle, Process, PCs, Collecting
  <2>3. proc' \in [Proc -> Process] /\ \A q \in Proc : ShapeOK(proc'[q])
    BY <1>1, <2>2, SetShape DEF Begin
  <2> QED BY <1>1, <1>t, <2>3, WorldShape DEF Begin, Files
<1>3. ASSUME NEW p \in Proc, proc[p].pc \notin {"idle"} \cup Collecting,
             NEW pc \in PCs \ ({"idle"} \cup Collecting), Go(p, pc)
      PROVE  proc' \in [Proc -> Process] /\ \A q \in Proc : ShapeOK(proc'[q])
  <2> DEFINE r == [proc[p] EXCEPT !.pc = pc]
  <2>1. /\ r \in Process /\ r.pc = pc /\ r.key = proc[p].key /\ r.todo = proc[p].todo
        /\ r.seen = proc[p].seen /\ r.total = proc[p].total
    BY <1>p DEF Process
  <2>2. Set(p, r)
    BY <1>3 DEF Go
  <2> HIDE DEF r
  <2> QED BY <1>3, <2>1, <2>2, MoveShape
<1>4. ASSUME NEW p \in Proc, Set(p, Idle)
      PROVE  proc' \in [Proc -> Process] /\ \A q \in Proc : ShapeOK(proc'[q])
  BY <1>4, IdleOK, SetShape
<1>5. ASSUME NEW p \in Proc, Lookup(p) PROVE Shape'
  <2>1. PICK pc \in {"make", "meta?"} : Go(p, pc)
    BY <1>5 DEF Lookup
  <2>2. proc' \in [Proc -> Process] /\ \A q \in Proc : ShapeOK(proc'[q])
    BY <1>3, <1>5, <2>1 DEF Lookup, At, PCs, Collecting
  <2> QED BY <1>5, <1>t, <2>2, WorldShape DEF Lookup, Files, world
<1>6. ASSUME NEW p \in Proc, ReadMeta(p) PROVE Shape'
  <2> DEFINE m == meta[KeyOf(p)]
             pc == IF m = None THEN "make" ELSE "copy"
  <2>1. proc[p].key \in Key /\ m \in Output \cup {None} /\ proc[p].held \in BOOLEAN
        /\ proc[p].val \in Output \cup {None}
    BY <1>6, <1>p, <1>k DEF ReadMeta, At, KeyOf, Process
  <2> DEFINE r == [proc[p] EXCEPT !.m = m, !.pc = pc]
  <2>2. /\ r \in Process /\ r.pc = pc /\ r.key = proc[p].key /\ r.todo = proc[p].todo
        /\ r.seen = proc[p].seen /\ r.total = proc[p].total
    BY <1>p, <2>1 DEF Process, PCs
  <2>m. Set(p, r) /\ proc[p].pc = "meta?"
    BY <1>6 DEF ReadMeta, At
  <2>3. proc' \in [Proc -> Process] /\ \A q \in Proc : ShapeOK(proc'[q])
    <3> HIDE DEF r
    <3> QED BY <2>2, <2>m, MoveShape DEF Collecting
  <2> QED BY <1>6, <1>t, <2>3, WorldShape DEF ReadMeta, Files, world
<1>7. ASSUME NEW p \in Proc, Materialize(p) PROVE Shape'
  <2> DEFINE b == blob[KeyOf(p)]
  <2>1. proc[p].key \in Key /\ b \in Output \cup {None} /\ proc[p].held \in BOOLEAN
        /\ proc[p].m \in Output \cup {None}
    BY <1>7, <1>p, <1>k DEF Materialize, At, KeyOf, Process
  <2> DEFINE r == [proc[p] EXCEPT !.pc = "hit", !.val = b]
  <2>2. /\ r \in Process /\ r.pc = "hit" /\ r.key = proc[p].key /\ r.todo = proc[p].todo
        /\ r.seen = proc[p].seen /\ r.total = proc[p].total
    BY <1>p, <2>1 DEF Process, PCs
  <2>m. proc[p].pc = "copy"
    BY <1>7 DEF Materialize, At
  <2>3. proc' \in [Proc -> Process] /\ \A q \in Proc : ShapeOK(proc'[q])
    <3>1. CASE Set(p, r)
      <4> HIDE DEF r
      <4> QED BY <2>2, <2>m, <3>1, MoveShape DEF Collecting
    <3>2. CASE Go(p, "script")
      BY <1>3, <1>7, <3>2 DEF Materialize, At, PCs, Collecting
    <3> QED BY <1>7, <3>1, <3>2 DEF Materialize
  <2> QED BY <1>7, <1>t, <2>3, WorldShape DEF Materialize, Files, world
<1>8. ASSUME NEW p \in Proc, HitDone(p) PROVE Shape'
  <2>1. out' \in [Target -> Output \cup {None}]
    BY <1>8, <1>t, <1>p, <1>k DEF HitDone, At, KeyOf, Process
  <2> QED BY <1>4, <1>8, <1>t, <2>1, WorldShape DEF HitDone, Files
<1>9. ASSUME NEW p \in Proc, proc[p].key \in Key, Made(p) PROVE out' \in [Target -> Output \cup {None}]
  <2>1. PICK s \in setup.sizes :
          out' = [out EXCEPT ![KeyOf(p).t] = [t |-> KeyOf(p).t, v |-> KeyOf(p).v, size |-> s]]
    BY <1>9 DEF Made
  <2>2. s \in Size
    BY <1>t, CacheAssumption
  <2> QED BY <1>9, <1>t, <2>1, <2>2 DEF KeyOf, Key, Output
<1>10. ASSUME NEW p \in Proc, Run(p) PROVE Shape'
  <2>1. proc' \in [Proc -> Process] /\ \A q \in Proc : ShapeOK(proc'[q])
    BY <1>3, <1>10 DEF Run, PCs, Collecting
  <2> QED BY <1>9, <1>10, <1>p, <1>t, <2>1, WorldShape DEF Run, Files
<1>11. ASSUME NEW p \in Proc, Pull(p) PROVE Shape'
  <2>1. proc[p].val \in Output \cup {None} /\ proc[p].m \in Output \cup {None} /\ proc[p].key \in Key
    BY <1>11, <1>p DEF Pull, At, Process
  <2> DEFINE r == [proc[p] EXCEPT !.pc = "store", !.held = FALSE]
  <2>2. /\ r \in Process /\ r.pc = "store" /\ r.key = proc[p].key /\ r.todo = proc[p].todo
        /\ r.seen = proc[p].seen /\ r.total = proc[p].total
    BY <1>p DEF Process, PCs
  <2>m. Set(p, r) /\ proc[p].pc = "make"
    BY <1>11 DEF Pull, At
  <2>3. proc' \in [Proc -> Process] /\ \A q \in Proc : ShapeOK(proc'[q])
    <3> HIDE DEF r
    <3> QED BY <2>2, <2>m, MoveShape DEF Collecting
  <2> QED BY <1>9, <1>11, <1>t, <2>1, <2>3, WorldShape DEF Pull, Files
<1>12. ASSUME NEW p \in Proc, Store(p) PROVE Shape'
  <2> DEFINE o == out[KeyOf(p).t]
  <2>1. o \in Output \cup {None} /\ proc[p].held \in BOOLEAN /\ proc[p].m \in Output \cup {None}
    BY <1>12, <1>t, <1>p, <1>k DEF Store, At, KeyOf, Process
  <2> DEFINE r == [proc[p] EXCEPT !.pc = "blob", !.val = o]
  <2>2. /\ r \in Process /\ r.pc = "blob" /\ r.key = proc[p].key /\ r.todo = proc[p].todo
        /\ r.seen = proc[p].seen /\ r.total = proc[p].total
    BY <1>p, <2>1 DEF Process, PCs
  <2>m. proc[p].pc = "store"
    BY <1>12 DEF Store, At
  <2>3. proc' \in [Proc -> Process] /\ \A q \in Proc : ShapeOK(proc'[q])
    <3>1. CASE Set(p, r)
      <4> HIDE DEF r
      <4> QED BY <2>2, <2>m, <3>1, MoveShape DEF Collecting
    <3>2. CASE Set(p, Idle)
      BY <1>4, <3>2
    <3> QED BY <1>12, <3>1, <3>2 DEF Store
  <2> QED BY <1>12, <1>t, <2>3, WorldShape DEF Store, Files, world
<1>13. ASSUME NEW p \in Proc, RenameBlob(p) \/ RenameMeta(p) PROVE Shape'
  <2>1. proc' \in [Proc -> Process] /\ \A q \in Proc : ShapeOK(proc'[q])
    BY <1>3, <1>13 DEF RenameBlob, RenameMeta, At, PCs, Collecting
  <2>2. proc[p].key \in Key /\ proc[p].val \in Output \cup {None}
    BY <1>13, <1>p DEF RenameBlob, RenameMeta, At, Process
  <2>3. blob' \in [Key -> Output \cup {None}] /\ meta' \in [Key -> Output \cup {None}]
    BY <1>13, <1>t, <2>2 DEF RenameBlob, RenameMeta, KeyOf
  <2> QED BY <1>13, <1>t, <2>1, <2>3, WorldShape DEF RenameBlob, RenameMeta, world
<1>14. ASSUME NEW p \in Proc, BlobFails(p) \/ MetaFails(p) PROVE Shape'
  <2>1. proc' \in [Proc -> Process] /\ \A q \in Proc : ShapeOK(proc'[q])
    BY <1>3, <1>4, <1>14 DEF BlobFails, MetaFails, At, PCs, Collecting
  <2>2. torn' \subseteq Key
    BY <1>14, <1>t, <1>p DEF BlobFails, MetaFails, At, KeyOf
  <2> QED BY <1>14, <1>t, <2>1, <2>2, WorldShape DEF BlobFails, MetaFails, world
<1>15. ASSUME NEW p \in Proc, Kill(p) PROVE Shape'
  <2>1. torn' \subseteq Key
    BY <1>15, <1>t, <1>p DEF Kill, At, KeyOf
  <2> QED BY <1>4, <1>15, <1>t, <2>1, WorldShape DEF Kill, world
<1>16. ASSUME NEW p \in Proc, Gc(p) PROVE Shape'
  <2> DEFINE r == [proc[p] EXCEPT !.pc = "scan", !.todo = [t : Target, v : setup.versions]]
  <2>1. [t : Target, v : setup.versions] \subseteq Key
    BY <1>t, CacheAssumption DEF Key
  <2>2. proc[p].seen = {} /\ proc[p].total = 0 /\ proc[p].key \in Key
    BY <1>16, <1>p DEF Gc, At, ShapeOK, Collecting
  <2>3. r \in Process /\ r.pc = "scan" /\ r.key = proc[p].key /\ r.seen = {} /\ r.total = 0
    BY <1>p, <2>1, <2>2 DEF Process, PCs
  <2>4. ShapeOK(r)
    BY <2>2, <2>3, NoBytes DEF ShapeOK, Account, Collecting
  <2>5. proc' \in [Proc -> Process] /\ \A q \in Proc : ShapeOK(proc'[q])
    BY <1>4, <1>16, <2>3, <2>4, SetShape DEF Gc
  <2> QED BY <1>16, <1>t, <2>5, WorldShape DEF Gc, Files, world
<1>17. ASSUME NEW p \in Proc, Scan(p) PROVE Shape'
  <2>1. PICK k \in proc[p].todo :
          Set(p, [proc[p] EXCEPT
                    !.todo = @ \ {k},
                    !.seen = @ \cup {[k |-> k, size |-> b.size] : b \in {blob[k]} \ {None}},
                    !.total = @ + (IF blob[k] = None THEN 0 ELSE blob[k].size),
                    !.pc = IF proc[p].todo = {k} THEN "rm" ELSE "scan"])
    BY <1>17 DEF Scan
  <2> DEFINE seen == proc[p].seen \cup {[k |-> k, size |-> b.size] : b \in {blob[k]} \ {None}}
             total == proc[p].total + (IF blob[k] = None THEN 0 ELSE blob[k].size)
             pc == IF proc[p].todo = {k} THEN "rm" ELSE "scan"
             r == [proc[p] EXCEPT !.todo = @ \ {k}, !.seen = seen, !.total = total, !.pc = pc]
  <2>2. /\ proc[p].pc = "scan" /\ proc[p].key \in Key /\ Account(proc[p]) /\ k \in Key
        /\ proc[p].todo \subseteq Key /\ proc[p].seen \subseteq [k : Key, size : Size] /\ proc[p].total \in Nat
    BY <1>17, <1>p DEF Scan, At, ShapeOK, Process
  <2>3. blob[k] # None => blob[k].size \in Size /\ blob[k].size \in Nat
    BY <2>2, <1>k, CacheAssumption DEF Output
  <2>4. /\ blob[k] = None => seen = proc[p].seen /\ total = proc[p].total
        /\ blob[k] # None => /\ seen = proc[p].seen \cup {[k |-> k, size |-> blob[k].size]}
                             /\ total = proc[p].total + blob[k].size
    BY <2>2
  <2>5. seen \subseteq [k : Key, size : Size] /\ total \in Nat
    BY <2>2, <2>3, <2>4
  <2>6. \A o \in proc[p].seen : o.k # k
    BY <2>2 DEF Account
  <2>7. IsFiniteSet(BytesOf(seen)) /\ total = Cardinality(BytesOf(seen))
    <3>1. CASE blob[k] = None
      BY <2>2, <2>4, <3>1 DEF Account
    <3>2. CASE blob[k] # None
      <4> DEFINE e == [k |-> k, size |-> blob[k].size]
      <4>1. e.k = k /\ e.size = blob[k].size
        OBVIOUS
      <4> HIDE DEF e
      <4>2. /\ IsFiniteSet(BytesOf(proc[p].seen \cup {e}))
            /\ Cardinality(BytesOf(proc[p].seen \cup {e})) = Cardinality(BytesOf(proc[p].seen)) + e.size
        BY <2>2, <2>3, <2>6, <3>2, <4>1, AddObject DEF Account
      <4>3. seen = proc[p].seen \cup {e} /\ total = proc[p].total + e.size
        BY <2>4, <3>2, <4>1 DEF e
      <4> HIDE DEF seen, total
      <4> QED BY <2>2, <4>2, <4>3 DEF Account
    <3> QED BY <3>1, <3>2
  <2>8. \A o1, o2 \in seen : o1.k = o2.k => o1 = o2
    BY <2>2, <2>4, <2>6 DEF Account
  <2>9. \A o \in seen : o.k \notin proc[p].todo \ {k}
    BY <2>2, <2>4 DEF Account
  <2> HIDE DEF seen, total
  <2>10. /\ r \in Process /\ r.pc = pc /\ r.key = proc[p].key /\ r.todo = proc[p].todo \ {k}
         /\ r.seen = seen /\ r.total = total
    BY <1>p, <2>2, <2>5 DEF Process, PCs
  <2>11. pc = "rm" => r.todo = {}
    BY <2>10
  <2>12. Account(r)
    BY <2>7, <2>8, <2>9, <2>10 DEF Account
  <2>13. ShapeOK(r)
    BY <2>2, <2>10, <2>11, <2>12 DEF ShapeOK, Collecting
  <2>14. proc' \in [Proc -> Process] /\ \A q \in Proc : ShapeOK(proc'[q])
    BY <2>1, <2>10, <2>13, SetShape DEF seen, total
  <2> QED BY <1>17, <1>t, <2>14, WorldShape DEF Scan, Files, world
<1>18. ASSUME NEW p \in Proc, RemoveBlob(p) PROVE Shape'
  <2>1. CASE Set(p, Idle) /\ UNCHANGED blob
    BY <1>4, <1>18, <1>t, <2>1, WorldShape DEF RemoveBlob, world
  <2>2. ASSUME NEW o \in proc[p].seen, blob' = [blob EXCEPT ![o.k] = None],
               Set(p, [proc[p] EXCEPT !.pc = "rmMeta", !.seen = @ \ {o}, !.todo = {o.k},
                                      !.total = @ - o.size])
        PROVE  Shape'
    <3> DEFINE r == [proc[p] EXCEPT !.pc = "rmMeta", !.seen = @ \ {o}, !.todo = {o.k}, !.total = @ - o.size]
    <3>1. /\ proc[p].key \in Key /\ Account(proc[p]) /\ proc[p].total \in Nat
          /\ proc[p].seen \subseteq [k : Key, size : Size]
      BY <1>18, <1>p DEF RemoveBlob, At, ShapeOK, Process
    <3>2. o.k \in Key /\ o.size \in Nat
      BY <3>1, CacheAssumption
    <3>a. /\ IsFiniteSet(BytesOf(proc[p].seen \ {o}))
          /\ Cardinality(BytesOf(proc[p].seen)) = Cardinality(BytesOf(proc[p].seen \ {o})) + o.size
          /\ Cardinality(BytesOf(proc[p].seen \ {o})) \in Nat
      BY <3>1, <3>2, DropObject DEF Account
    <3>3. /\ IsFiniteSet(BytesOf(proc[p].seen \ {o}))
          /\ proc[p].total - o.size = Cardinality(BytesOf(proc[p].seen \ {o}))
          /\ proc[p].total - o.size \in Nat
      BY <3>1, <3>2, <3>a DEF Account
    <3>4. /\ r \in Process /\ r.pc = "rmMeta" /\ r.key = proc[p].key
          /\ r.seen = proc[p].seen \ {o} /\ r.total = proc[p].total - o.size
      BY <1>p, <3>1, <3>2, <3>3 DEF Process, PCs
    <3>5. Account(r)
      BY <3>1, <3>3, <3>4 DEF Account
    <3>6. ShapeOK(r)
      BY <3>1, <3>4, <3>5 DEF ShapeOK, Collecting
    <3>7. proc' \in [Proc -> Process] /\ \A q \in Proc : ShapeOK(proc'[q])
      BY <2>2, <3>4, <3>6, SetShape
    <3>8. blob' \in [Key -> Output \cup {None}]
      BY <1>t, <2>2, <3>2
    <3> QED BY <1>18, <1>t, <3>7, <3>8, WorldShape DEF RemoveBlob, world
  <2> QED BY <1>18, <2>1, <2>2 DEF RemoveBlob
<1>19. ASSUME NEW p \in Proc, RemoveMeta(p) PROVE Shape'
  <2> DEFINE r == [proc[p] EXCEPT !.pc = "rm", !.todo = {}]
  <2>1. proc[p].key \in Key /\ Account(proc[p])
    BY <1>19, <1>p DEF RemoveMeta, At, ShapeOK
  <2>2. /\ r \in Process /\ r.pc = "rm" /\ r.key = proc[p].key /\ r.todo = {}
        /\ r.seen = proc[p].seen /\ r.total = proc[p].total
    BY <1>p DEF Process, PCs
  <2>3. ShapeOK(r)
    BY <2>1, <2>2 DEF ShapeOK, Account, Collecting
  <2>4. proc' \in [Proc -> Process] /\ \A q \in Proc : ShapeOK(proc'[q])
    BY <1>19, <2>2, <2>3, SetShape DEF RemoveMeta
  <2>5. meta' \in [Key -> Output \cup {None}]
    BY <1>19, <1>k DEF RemoveMeta
  <2> QED BY <1>19, <1>t, <2>4, <2>5, WorldShape DEF RemoveMeta, world
<1>20. ASSUME NEW t \in Target, Edit(t) PROVE Shape'
  <2>1. src' \in [Target -> Version]
    BY <1>20, <1>t, CacheAssumption DEF Edit, Shape, Types
  <2> QED BY <1>20, <2>1 DEF Edit, Files, Shape, Types
<1>21. CASE UNCHANGED vars
  BY <1>21 DEF vars, Shape, Types
<1> QED BY <1>1, <1>5, <1>6, <1>7, <1>8, <1>10, <1>11, <1>12, <1>13, <1>14, <1>15, <1>16, <1>17,
           <1>18, <1>19, <1>20, <1>21 DEF Next

(* Every step leaves a process that is not its own alone. *)
LEMMA OthersStay ==
    ASSUME Shape, NEW p \in Proc, NEW r, Set(p, r)
    PROVE  proc' = [proc EXCEPT ![p] = r] /\ proc'[p] = r /\ \A q \in Proc \ {p} : proc'[q] = proc[q]
BY DEF Set, Shape, Types

-----------------------------------------------------------------------------
(* Outputs and the keys they are made for. *)

LEMMA InitStages == Init => Stages
<1> SUFFICES ASSUME Init PROVE Stages
  OBVIOUS
<1>1. \A t \in Target : src[t] \in setup.versions
  BY CacheAssumption DEF Init
<1> QED BY <1>1 DEF Init, Stages, StageOK, Locked, Sources, Entries, Right, Idle, KeyOf, Early

(* The outputs stay, and the process keeps its target. *)
LEMMA StageMove ==
    ASSUME Shape, Stages, NEW p \in Proc, NEW r, Set(p, r), UNCHANGED <<src, out, setup>>,
           StageOK(r), r.held => proc[p].held /\ r.key = proc[p].key,
           \A k \in Key : /\ Right(blob'[k], k) /\ Right(meta'[k], k)
                          /\ blob'[k] # None => k.v \in setup.versions
    PROVE  Stages'
<1>1. proc'[p] = r /\ \A q \in Proc \ {p} : proc'[q] = proc[q]
  BY OthersStay
<1>2. \A q \in Proc : StageOK(proc[q])
  BY DEF Stages
<1>3. \A q \in Proc : StageOK(proc[q])'
  BY <1>1, <1>2 DEF StageOK, Right
<1>4. Locked'
  BY <1>1 DEF Stages, Locked, KeyOf
<1>5. Sources'
  BY DEF Stages, Sources, Right
<1>6. Entries'
  BY DEF Entries, Right
<1> QED BY <1>3, <1>4, <1>5, <1>6 DEF Stages

(* The files stay, too. *)
LEMMA StageStep ==
    ASSUME Shape, Stages, NEW p \in Proc, NEW r, Set(p, r), UNCHANGED <<src, out, setup, blob, meta>>,
           StageOK(r), r.held => proc[p].held /\ r.key = proc[p].key
    PROVE  Stages'
<1>1. \A k \in Key : /\ Right(blob'[k], k) /\ Right(meta'[k], k)
                     /\ blob'[k] # None => k.v \in setup.versions
  BY DEF Stages, Entries
<1> QED BY <1>1, StageMove

(* The holder of a target's lock puts an output of its key in place. *)
LEMMA StageOutput ==
    ASSUME Shape, Stages, NEW p \in Proc, proc[p].pc \in Early, NEW r, Set(p, r),
           NEW o, o # None, Right(o, proc[p].key), out' = [out EXCEPT ![proc[p].key.t] = o],
           UNCHANGED <<src, setup, blob, meta>>,
           \/ r = Idle
           \/ r.pc = "store" /\ r.key = proc[p].key /\ (r.held \/ setup.remote)
    PROVE  Stages'
<1>1. proc'[p] = r /\ \A q \in Proc \ {p} : proc'[q] = proc[q]
  BY OthersStay
<1>2. /\ proc[p].key \in Key /\ proc[p].held /\ proc[p].key.t \in Target
      /\ proc[p].key.v \in setup.versions
      /\ setup.remote => proc[p].key.v = src[proc[p].key.t]
  BY DEF Shape, ShapeOK, Stages, StageOK, Early, Key
<1>3. out'[proc[p].key.t] = o /\ \A t \in Target : t # proc[p].key.t => out'[t] = out[t]
  BY <1>2 DEF Shape, Types
<1>4. Sources'
  <2>1. SUFFICES ASSUME NEW t \in Target
                 PROVE  src[t] \in setup.versions
                        /\ (setup.remote => Right(out'[t], [t |-> t, v |-> src[t]]))
    BY DEF Sources, Right
  <2>2. CASE t = proc[p].key.t
    <3>1. out'[t] = o /\ src[t] \in setup.versions /\ (setup.remote => proc[p].key.v = src[t])
      BY <1>2, <1>3, <2>2 DEF Stages, Sources
    <3>2. setup.remote => proc[p].key.t = t /\ proc[p].key.v = src[t]
      BY <3>1, <2>2
    <3> QED BY <3>1, <3>2 DEF Right
  <2>3. CASE t # proc[p].key.t
    BY <1>3, <2>3 DEF Stages, Sources
  <2> QED BY <2>2, <2>3
<1>5. Entries'
  BY DEF Stages, Entries, Right
<1>6. Locked'
  BY <1>1, <1>2 DEF Stages, Locked, KeyOf, Idle
<1>7. StageOK(proc[p])'
  <2>1. CASE r = Idle
    BY <1>1, <2>1 DEF StageOK, Early, Idle
  <2>2. CASE r.pc = "store" /\ r.key = proc[p].key /\ (r.held \/ setup.remote)
    <3>1. Right(out'[r.key.t], r.key) /\ out'[r.key.t] # None
      BY <1>3, <2>2
    <3> QED BY <1>1, <1>2, <2>2, <3>1 DEF StageOK, Early, Right
  <2> QED BY <2>1, <2>2
<1>8. ASSUME NEW q \in Proc \ {p} PROVE StageOK(proc[q])'
  <2>1. StageOK(proc[q]) /\ proc'[q] = proc[q] /\ (proc[q].pc # "idle" => proc[q].key \in Key)
    BY <1>1, <1>8 DEF Stages, Shape, ShapeOK
  <2>2. proc[q].pc = "store" => Right(out'[proc[q].key.t], proc[q].key) /\ out'[proc[q].key.t] # None
    <3>1. SUFFICES ASSUME proc[q].pc = "store"
                   PROVE  Right(out'[proc[q].key.t], proc[q].key) /\ out'[proc[q].key.t] # None
      OBVIOUS
    <3>2. proc[q].key \in Key /\ proc[q].key.t \in Target
      BY <2>1, <3>1 DEF Key
    <3>3. CASE proc[q].held
      BY <1>2, <1>3, <1>8, <2>1, <3>1, <3>2, <3>3 DEF Stages, Locked, KeyOf, StageOK
    <3>4. CASE ~proc[q].held
      <4>1. setup.remote /\ proc[q].key.v = src[proc[q].key.t]
        BY <2>1, <3>1, <3>4 DEF StageOK
      <4>2. out'[proc[q].key.t] # None
        BY <1>3, <2>1, <3>1, <3>2 DEF StageOK
      <4> QED BY <1>4, <3>2, <4>1, <4>2 DEF Sources, Right
    <3> QED BY <3>3, <3>4
  <2> QED BY <2>1, <2>2 DEF StageOK, Right
<1> QED BY <1>4, <1>5, <1>6, <1>7, <1>8 DEF Stages

(* Who works on a key makes, stores and reads outputs of that key only. *)
LEMMA NextStages == ASSUME RemoteQuiet, Shape, Stages, [Next]_vars PROVE Stages'
<1>t. setup \in Setups /\ edits \in Nat /\ proc \in [Proc -> Process] /\ torn \subseteq Key
  BY DEF Shape, Types
<1>p. \A p \in Proc : /\ proc[p] \in Process /\ StageOK(proc[p])
                      /\ proc[p].pc # "idle" => proc[p].key \in Key /\ proc[p].key.t \in Target
  BY DEF Shape, Types, ShapeOK, Stages, Key
<1>e. \A k \in Key : /\ Right(blob[k], k) /\ Right(meta[k], k)
                     /\ blob[k] # None => k.v \in setup.versions
  BY DEF Stages, Entries
<1>i. StageOK(Idle) /\ ~Idle.held
  BY DEF StageOK, Idle, Early
<1>1. ASSUME NEW p \in Proc, NEW t \in Target, Begin(p, t) PROVE Stages'
  <2> DEFINE r == [Idle EXCEPT !.pc = "lookup", !.key = [t |-> t, v |-> src[t]], !.held = TRUE]
  <2>1. /\ r.pc = "lookup" /\ r.key = [t |-> t, v |-> src[t]] /\ r.key.t = t /\ r.key.v = src[t] /\ r.held
        /\ UNCHANGED <<blob, meta, src, out, setup>>
    BY <1>1 DEF Begin, Files, Idle
  <2> HIDE DEF r
  <2>2. proc'[p] = r /\ \A q \in Proc \ {p} : proc'[q] = proc[q]
    BY <1>1, OthersStay DEF Begin, r
  <2>3. src[t] \in setup.versions
    BY DEF Stages, Sources
  <2>4. \A q \in Proc : StageOK(proc[q])'
    BY <1>p, <2>1, <2>2, <2>3 DEF StageOK, Right, Early
  <2>5. Locked'
    BY <1>1, <2>1, <2>2 DEF Begin, Stages, Locked, KeyOf
  <2>6. Sources' /\ Entries'
    BY <2>1 DEF Stages, Sources, Entries, Right
  <2> QED BY <2>4, <2>5, <2>6 DEF Stages
<1>2. ASSUME NEW p \in Proc, NEW pc, Go(p, pc), StageOK([proc[p] EXCEPT !.pc = pc]),
             UNCHANGED <<src, out, setup, blob, meta>>
      PROVE  Stages'
  <2> DEFINE r == [proc[p] EXCEPT !.pc = pc]
  <2>1. r.held = proc[p].held /\ r.key = proc[p].key /\ Set(p, r) /\ StageOK(r)
    BY <1>2, <1>p DEF Go, Process
  <2> HIDE DEF r
  <2> QED BY <1>2, <2>1, StageStep
<1>3. ASSUME NEW p \in Proc, Set(p, Idle), UNCHANGED <<src, out, setup, blob, meta>> PROVE Stages'
  BY <1>3, <1>i, StageStep
<1>4. ASSUME NEW p \in Proc, Lookup(p) PROVE Stages'
  <2>1. PICK pc \in {"make", "meta?"} : Go(p, pc)
    BY <1>4 DEF Lookup
  <2>2. StageOK([proc[p] EXCEPT !.pc = pc])
    BY <1>4, <1>p DEF Lookup, At, StageOK, Early, Process
  <2> QED BY <1>2, <1>4, <2>1, <2>2 DEF Lookup, Files, world
<1>5. ASSUME NEW p \in Proc, ReadMeta(p) PROVE Stages'
  <2> DEFINE m == meta[KeyOf(p)]
             r == [proc[p] EXCEPT !.m = m, !.pc = IF m = None THEN "make" ELSE "copy"]
  <2>1. proc[p].key \in Key /\ Right(m, proc[p].key) /\ proc[p].held
    BY <1>5, <1>p, <1>e DEF ReadMeta, At, KeyOf, StageOK, Early
  <2>2. /\ r.held = proc[p].held /\ r.key = proc[p].key /\ r.m = m
        /\ r.pc = IF m = None THEN "make" ELSE "copy"
    BY <1>p DEF Process
  <2>3. Set(p, r) /\ UNCHANGED <<src, out, setup, blob, meta>>
    BY <1>5 DEF ReadMeta, Files, world
  <2> HIDE DEF r, m
  <2>4. StageOK(r)
    BY <1>5, <1>p, <2>1, <2>2 DEF ReadMeta, At, StageOK, Early
  <2> QED BY <2>2, <2>3, <2>4, StageStep
<1>6. ASSUME NEW p \in Proc, Materialize(p) PROVE Stages'
  <2> DEFINE b == blob[KeyOf(p)]
             r == [proc[p] EXCEPT !.pc = "hit", !.val = b]
  <2>0. UNCHANGED <<src, out, setup, blob, meta>> /\ proc[p].pc = "copy" /\ proc[p].key \in Key
    BY <1>6, <1>p DEF Materialize, Files, world, At
  <2>1. CASE b # None /\ Set(p, r)
    <3>1. /\ r.held = proc[p].held /\ r.key = proc[p].key /\ r.m = proc[p].m
          /\ r.pc = "hit" /\ r.val = b
      BY <1>p DEF Process
    <3>2. Right(b, proc[p].key)
      BY <1>e, <2>0 DEF KeyOf
    <3> HIDE DEF r, b
    <3>3. StageOK(r)
      BY <1>p, <2>0, <2>1, <3>1, <3>2 DEF StageOK, Early
    <3> QED BY <2>0, <2>1, <3>1, <3>3, StageStep
  <2>2. CASE Go(p, "script")
    <3>1. StageOK([proc[p] EXCEPT !.pc = "script"])
      BY <1>p, <2>0 DEF StageOK, Early, Process
    <3> QED BY <1>2, <2>0, <2>2, <3>1
  <2> QED BY <1>6, <2>1, <2>2 DEF Materialize
<1>7. ASSUME NEW p \in Proc, HitDone(p) PROVE Stages'
  <2>1. Right(proc[p].val, proc[p].key) /\ proc[p].val # None /\ proc[p].pc \in Early
    BY <1>7, <1>p DEF HitDone, At, StageOK, Early
  <2>2. /\ Set(p, Idle) /\ out' = [out EXCEPT ![proc[p].key.t] = proc[p].val]
        /\ UNCHANGED <<src, setup, blob, meta>>
    BY <1>7 DEF HitDone, KeyOf, Files
  <2> QED BY <2>1, <2>2, StageOutput
<1>8. ASSUME NEW p \in Proc, proc[p].key \in Key, Made(p)
      PROVE  \E o : o # None /\ Right(o, proc[p].key) /\ out' = [out EXCEPT ![proc[p].key.t] = o]
  <2>1. PICK s \in setup.sizes :
          out' = [out EXCEPT ![KeyOf(p).t] = [t |-> KeyOf(p).t, v |-> KeyOf(p).v, size |-> s]]
    BY <1>8 DEF Made
  <2>2. Right([t |-> KeyOf(p).t, v |-> KeyOf(p).v, size |-> s], proc[p].key)
    BY DEF Right, KeyOf
  <2>3. [t |-> KeyOf(p).t, v |-> KeyOf(p).v, size |-> s] \in Output
    BY <1>8, <1>t, CacheAssumption DEF KeyOf, Key, Output
  <2> QED BY <2>1, <2>2, <2>3, CacheAssumption DEF KeyOf
<1>9. ASSUME NEW p \in Proc, Run(p) PROVE Stages'
  <2> DEFINE r == [proc[p] EXCEPT !.pc = "store"]
  <2>1. PICK o : o # None /\ Right(o, proc[p].key) /\ out' = [out EXCEPT ![proc[p].key.t] = o]
    BY <1>8, <1>9, <1>p DEF Run
  <2>2. /\ Set(p, r) /\ proc[p].pc \in Early /\ UNCHANGED <<src, setup, blob, meta>>
        /\ r.pc = "store" /\ r.key = proc[p].key /\ r.held = proc[p].held /\ proc[p].held
    BY <1>9, <1>p DEF Run, Go, Early, Files, Process, StageOK
  <2> HIDE DEF r
  <2> QED BY <2>1, <2>2, StageOutput
<1>10. ASSUME NEW p \in Proc, Pull(p) PROVE Stages'
  <2> DEFINE r == [proc[p] EXCEPT !.pc = "store", !.held = FALSE]
  <2>1. PICK o : o # None /\ Right(o, proc[p].key) /\ out' = [out EXCEPT ![proc[p].key.t] = o]
    BY <1>8, <1>10, <1>p DEF Pull, At
  <2>2. /\ Set(p, r) /\ proc[p].pc \in Early /\ UNCHANGED <<src, setup, blob, meta>>
        /\ r.pc = "store" /\ r.key = proc[p].key /\ setup.remote
    BY <1>10, <1>p DEF Pull, At, Early, Files, Process
  <2> HIDE DEF r
  <2> QED BY <2>1, <2>2, StageOutput
<1>11. ASSUME NEW p \in Proc, Store(p) PROVE Stages'
  <2> DEFINE o == out[KeyOf(p).t]
             r == [proc[p] EXCEPT !.pc = "blob", !.val = o]
  <2>0. UNCHANGED <<src, out, setup, blob, meta>> /\ proc[p].pc = "store"
    BY <1>11 DEF Store, Files, world, At
  <2>1. CASE Set(p, r)
    <3>1. r.held = proc[p].held /\ r.key = proc[p].key /\ r.pc = "blob" /\ r.val = o
      BY <1>p DEF Process
    <3>2. Right(o, proc[p].key) /\ o # None
      BY <1>p, <2>0 DEF StageOK, KeyOf
    <3> HIDE DEF r, o
    <3>3. StageOK(r)
      BY <1>p, <2>0, <3>1, <3>2 DEF StageOK, Early
    <3> QED BY <2>0, <2>1, <3>1, <3>3, StageStep
  <2>2. CASE Set(p, Idle)
    BY <1>3, <2>0, <2>2
  <2> QED BY <1>11, <2>1, <2>2 DEF Store
<1>12. ASSUME NEW p \in Proc, RenameBlob(p) PROVE Stages'
  <2> DEFINE r == [proc[p] EXCEPT !.pc = "meta"]
  <2>1. /\ proc[p].pc = "blob" /\ blob' = [blob EXCEPT ![proc[p].key] = proc[p].val]
        /\ UNCHANGED <<src, out, setup, meta>> /\ Set(p, r)
    BY <1>12 DEF RenameBlob, At, KeyOf, world, Go
  <2>2. r.held = proc[p].held /\ r.key = proc[p].key /\ r.pc = "meta" /\ r.val = proc[p].val
    BY <1>p DEF Process
  <2> HIDE DEF r
  <2>3. StageOK(r)
    BY <1>p, <2>1, <2>2 DEF StageOK, Early
  <2>4. \A k \in Key : /\ Right(blob'[k], k) /\ Right(meta'[k], k)
                       /\ blob'[k] # None => k.v \in setup.versions
    BY <1>p, <1>e, <2>1 DEF StageOK, Shape, Types
  <2> QED BY <2>1, <2>2, <2>3, <2>4, StageMove
<1>13. ASSUME NEW p \in Proc, RenameMeta(p) PROVE Stages'
  <2> DEFINE r == [proc[p] EXCEPT !.pc = "gc"]
  <2>1. /\ proc[p].pc = "meta" /\ meta' = [meta EXCEPT ![proc[p].key] = proc[p].val]
        /\ UNCHANGED <<src, out, setup, blob>> /\ Set(p, r)
    BY <1>13 DEF RenameMeta, At, KeyOf, world, Go
  <2>2. r.held = proc[p].held /\ r.key = proc[p].key /\ r.pc = "gc"
    BY <1>p DEF Process
  <2> HIDE DEF r
  <2>3. StageOK(r)
    BY <1>p, <2>1, <2>2 DEF StageOK, Early
  <2>4. \A k \in Key : /\ Right(blob'[k], k) /\ Right(meta'[k], k)
                       /\ blob'[k] # None => k.v \in setup.versions
    BY <1>p, <1>e, <2>1 DEF StageOK, Shape, Types
  <2> QED BY <2>1, <2>2, <2>3, <2>4, StageMove
<1>14. ASSUME NEW p \in Proc, BlobFails(p) \/ MetaFails(p) PROVE Stages'
  <2>1. UNCHANGED <<src, out, setup, blob, meta>> /\ proc[p].pc \in {"blob", "meta"}
    BY <1>14 DEF BlobFails, MetaFails, At, world
  <2>2. \A pc \in {"meta", "gc"} : StageOK([proc[p] EXCEPT !.pc = pc])
    BY <1>p, <2>1 DEF StageOK, Early, Process
  <2>3. Set(p, Idle) \/ \E pc \in {"meta", "gc"} : Go(p, pc)
    BY <1>14 DEF BlobFails, MetaFails
  <2> QED BY <1>2, <1>3, <2>1, <2>2, <2>3
<1>15. ASSUME NEW p \in Proc, Kill(p) PROVE Stages'
  BY <1>3, <1>15 DEF Kill, world
<1>16. ASSUME NEW p \in Proc, NEW r, Set(p, r), proc[p].pc \in {"gc"} \cup Collecting,
              r.pc \in Collecting, r.held = proc[p].held, r.key = proc[p].key,
              UNCHANGED <<src, out, setup>>,
              \A k \in Key : blob'[k] \in {None, blob[k]} /\ meta'[k] \in {None, meta[k]}
       PROVE  Stages'
  <2>1. StageOK(r)
    BY <1>p, <1>16 DEF StageOK, Early, Collecting
  <2>2. \A k \in Key : /\ Right(blob'[k], k) /\ Right(meta'[k], k)
                       /\ blob'[k] # None => k.v \in setup.versions
    BY <1>e, <1>16 DEF Right
  <2> QED BY <1>16, <2>1, <2>2, StageMove
<1>17. ASSUME NEW p \in Proc, Gc(p) PROVE Stages'
  <2> DEFINE r == [proc[p] EXCEPT !.pc = "scan", !.todo = [t : Target, v : setup.versions]]
  <2>0. UNCHANGED <<src, out, setup, blob, meta>> /\ proc[p].pc = "gc"
    BY <1>17 DEF Gc, Files, world, At
  <2>1. r.pc = "scan" /\ r.held = proc[p].held /\ r.key = proc[p].key
    BY <1>p DEF Process
  <2>2. Set(p, Idle) \/ Set(p, r)
    BY <1>17 DEF Gc
  <2> HIDE DEF r
  <2> QED BY <1>3, <1>16, <2>0, <2>1, <2>2 DEF Collecting
<1>18. ASSUME NEW p \in Proc, Scan(p) PROVE Stages'
  <2>1. PICK k \in proc[p].todo :
          Set(p, [proc[p] EXCEPT
                    !.todo = @ \ {k},
                    !.seen = @ \cup {[k |-> k, size |-> b.size] : b \in {blob[k]} \ {None}},
                    !.total = @ + (IF blob[k] = None THEN 0 ELSE blob[k].size),
                    !.pc = IF proc[p].todo = {k} THEN "rm" ELSE "scan"])
    BY <1>18 DEF Scan
  <2> DEFINE r == [proc[p] EXCEPT
                     !.todo = @ \ {k},
                     !.seen = @ \cup {[k |-> k, size |-> b.size] : b \in {blob[k]} \ {None}},
                     !.total = @ + (IF blob[k] = None THEN 0 ELSE blob[k].size),
                     !.pc = IF proc[p].todo = {k} THEN "rm" ELSE "scan"]
  <2>2. Set(p, r)
    BY <2>1
  <2>3. r.pc \in Collecting /\ r.held = proc[p].held /\ r.key = proc[p].key
    BY <1>p DEF Process, Collecting
  <2>4. UNCHANGED <<src, out, setup, blob, meta>> /\ proc[p].pc = "scan"
    BY <1>18 DEF Scan, Files, world, At
  <2> HIDE DEF r
  <2> QED BY <1>16, <2>2, <2>3, <2>4 DEF Collecting
<1>19. ASSUME NEW p \in Proc, RemoveBlob(p) PROVE Stages'
  <2>0. UNCHANGED <<src, out, setup, meta>> /\ proc[p].pc = "rm"
    BY <1>19 DEF RemoveBlob, world, At
  <2>1. CASE Set(p, Idle) /\ UNCHANGED blob
    BY <1>3, <2>0, <2>1
  <2>2. ASSUME NEW o \in proc[p].seen, blob' = [blob EXCEPT ![o.k] = None],
               Set(p, [proc[p] EXCEPT !.pc = "rmMeta", !.seen = @ \ {o}, !.todo = {o.k},
                                      !.total = @ - o.size])
        PROVE  Stages'
    <3> DEFINE r == [proc[p] EXCEPT !.pc = "rmMeta", !.seen = @ \ {o}, !.todo = {o.k}, !.total = @ - o.size]
    <3>1. Set(p, r) /\ r.pc \in Collecting /\ r.held = proc[p].held /\ r.key = proc[p].key
      BY <1>p, <2>2 DEF Process, Collecting
    <3> HIDE DEF r
    <3>2. \A k \in Key : blob'[k] \in {None, blob[k]} /\ meta'[k] \in {None, meta[k]}
      BY <2>0, <2>2 DEF Shape, Types
    <3> QED BY <1>16, <2>0, <3>1, <3>2 DEF Collecting
  <2> QED BY <1>19, <2>1, <2>2 DEF RemoveBlob
<1>20. ASSUME NEW p \in Proc, RemoveMeta(p) PROVE Stages'
  <2> DEFINE r == [proc[p] EXCEPT !.pc = "rm", !.todo = {}]
  <2>1. r.pc = "rm" /\ r.held = proc[p].held /\ r.key = proc[p].key
    BY <1>p DEF Process
  <2>2. /\ UNCHANGED <<src, out, setup, blob>> /\ proc[p].pc = "rmMeta" /\ Set(p, r)
        /\ \A k \in Key : meta'[k] \in {None, meta[k]}
    BY <1>20 DEF RemoveMeta, world, At
  <2> HIDE DEF r
  <2> QED BY <1>16, <2>1, <2>2 DEF Collecting
<1>21. ASSUME NEW t \in Target, Edit(t) PROVE Stages'
  <2>1. ~setup.remote
    BY <1>21, <1>t DEF Edit, RemoteQuiet
  <2>2. UNCHANGED <<proc, out, blob, meta, setup>>
    BY <1>21 DEF Edit, Files
  <2>3. \A u \in Target : src'[u] \in setup.versions
    BY <1>21 DEF Edit, Stages, Sources, Shape, Types
  <2>4. \A q \in Proc : StageOK(proc[q])'
    BY <1>p, <2>1, <2>2 DEF StageOK, Right
  <2> QED BY <2>1, <2>2, <2>3, <2>4 DEF Stages, Sources, Entries, Locked, Right, KeyOf
<1>22. CASE UNCHANGED vars
  <2>1. \A q \in Proc : StageOK(proc[q])'
    BY <1>p, <1>22 DEF StageOK, Right, vars
  <2> QED BY <1>22, <2>1 DEF vars, Stages, Sources, Entries, Locked, Right, KeyOf
<1> QED BY <1>1, <1>4, <1>5, <1>6, <1>7, <1>9, <1>10, <1>11, <1>12, <1>13, <1>14, <1>15, <1>17, <1>18,
           <1>19, <1>20, <1>21, <1>22 DEF Next

-----------------------------------------------------------------------------
(* The two files of a key. *)

(* Two processes work on one key at a time only where outputs are pulled. *)
LEMMA SameKey ==
    ASSUME Shape, Stages, NEW p \in Proc, NEW q \in Proc \ {p},
           proc[p].pc # "idle", proc[q].pc # "idle", proc[p].key = proc[q].key
    PROVE  setup.remote
BY DEF Stages, StageOK, Locked, KeyOf

(* There all outputs of a key are the same. *)
LEMMA OneOutput ==
    ASSUME RemoteQuiet, Shape, setup.remote, NEW k, NEW a \in Output, NEW b \in Output,
           Right(a, k), Right(b, k)
    PROVE  a = b
<1>1. setup \in Setups
  BY DEF Shape, Types
<1>2. a.size = b.size /\ a.t = b.t /\ a.v = b.v
  BY <1>1, CacheAssumption DEF RemoteQuiet, Right
<1> QED BY <1>2 DEF Output

(* A step of p after which no file is new. *)
LEMMA PairStep ==
    ASSUME Shape, Pairs, NEW p \in Proc, NEW r, Set(p, r), torn \subseteq torn',
           \A k \in Key : blob'[k] \in {None, blob[k]} /\ meta'[k] \in {None, meta[k]},
           proc[p].pc = "meta" => proc[p].key \in torn',
           r.pc \in {"meta", "copy", "hit"} => r.key \in Key,
           r.pc = "meta" => r.key \in torn',
           r.pc = "copy" /\ r.key \notin torn' => blob[r.key] \in {None, r.m},
           r.pc = "hit" /\ r.key \notin torn' => r.m = r.val
    PROVE  Pairs'
<1>1. proc'[p] = r /\ \A q \in Proc \ {p} : proc'[q] = proc[q]
  BY OthersStay
<1> SUFFICES ASSUME NEW k \in Key, k \notin torn' PROVE PairOf(k)'
  BY DEF Pairs
<1>2. PairOf(k) /\ blob'[k] \in {None, blob[k]} /\ meta'[k] \in {None, meta[k]}
  BY DEF Pairs
<1>3. \/ None \in {blob'[k], meta'[k]} \/ blob'[k] = meta'[k]
      \/ \E q \in Proc : At(q, "meta")' /\ KeyOf(q)' = k
  BY <1>1, <1>2 DEF PairOf, At, KeyOf
<1>4. ASSUME NEW q \in Proc, KeyOf(q)' = k
      PROVE  /\ At(q, "meta")' => blob'[k] \in {None, proc'[q].val}
             /\ At(q, "copy")' => blob'[k] \in {None, proc'[q].m}
             /\ At(q, "hit")' => proc'[q].m = proc'[q].val
  <2>1. CASE q = p
    BY <1>1, <1>2, <1>4, <2>1 DEF At, KeyOf
  <2>2. CASE q # p
    BY <1>1, <1>2, <1>4, <2>2 DEF PairOf, At, KeyOf
  <2> QED BY <2>1, <2>2
<1> QED BY <1>3, <1>4 DEF PairOf

LEMMA InitPairs == Init => Pairs
BY DEF Init, Pairs, PairOf, At, KeyOf, Idle

(* Blob and meta of a key are changed and read together. *)
LEMMA NextPairs == ASSUME RemoteQuiet, Shape, Stages, Pairs, [Next]_vars PROVE Pairs'
<1>p. \A p \in Proc : /\ proc[p] \in Process /\ StageOK(proc[p])
                      /\ proc[p].pc # "idle" => proc[p].key \in Key
  BY DEF Shape, Types, ShapeOK, Stages
<1>e. \A k \in Key : /\ Right(blob[k], k) /\ Right(meta[k], k)
                     /\ blob[k] \in Output \cup {None} /\ meta[k] \in Output \cup {None}
  BY DEF Stages, Entries, Shape, Types
<1>1. ASSUME NEW p \in Proc, NEW r, Set(p, r), UNCHANGED <<blob, meta, torn>>,
             proc[p].pc # "meta", r.pc \notin {"meta", "copy", "hit"}
      PROVE  Pairs'
  BY <1>1, PairStep
<1>2. ASSUME NEW p \in Proc, NEW t \in Target, Begin(p, t) PROVE Pairs'
  <2> DEFINE r == [Idle EXCEPT !.pc = "lookup", !.key = [t |-> t, v |-> src[t]], !.held = TRUE]
  <2>1. Set(p, r) /\ r.pc = "lookup" /\ UNCHANGED <<blob, meta, torn>> /\ proc[p].pc = "idle"
    BY <1>2 DEF Begin, At, Files, Idle
  <2> HIDE DEF r
  <2> QED BY <1>1, <2>1
<1>3. ASSUME NEW p \in Proc, NEW pc, Go(p, pc), UNCHANGED <<blob, meta, torn>>,
             proc[p].pc # "meta", pc \notin {"meta", "copy", "hit"}
      PROVE  Pairs'
  <2> DEFINE r == [proc[p] EXCEPT !.pc = pc]
  <2>1. Set(p, r) /\ r.pc = pc
    BY <1>3, <1>p DEF Go, Process
  <2> HIDE DEF r
  <2> QED BY <1>1, <1>3, <2>1
<1>i. Idle.pc = "idle"
  BY DEF Idle
<1>4. ASSUME NEW p \in Proc, Lookup(p) PROVE Pairs'
  <2>1. PICK pc \in {"make", "meta?"} : Go(p, pc)
    BY <1>4 DEF Lookup
  <2> QED BY <1>3, <1>4, <2>1 DEF Lookup, At, Files
<1>5. ASSUME NEW p \in Proc, ReadMeta(p) PROVE Pairs'
  <2> DEFINE m == meta[KeyOf(p)]
             r == [proc[p] EXCEPT !.m = m, !.pc = IF m = None THEN "make" ELSE "copy"]
  <2>1. Set(p, r) /\ UNCHANGED <<blob, meta, torn>> /\ proc[p].pc = "meta?" /\ proc[p].key \in Key
    BY <1>5, <1>p DEF ReadMeta, Files, At
  <2>2. r.key = proc[p].key /\ r.m = m /\ r.pc = IF m = None THEN "make" ELSE "copy"
    BY <1>p DEF Process
  <2>3. ASSUME m # None, proc[p].key \notin torn PROVE blob[proc[p].key] \in {None, m}
    <3> DEFINE k == proc[p].key
    <3>1. PairOf(k) /\ m = meta[k]
      BY <2>1, <2>3 DEF Pairs, KeyOf
    <3>2. ASSUME NEW q \in Proc, At(q, "meta"), KeyOf(q) = k, blob[k] # None PROVE blob[k] = m
      <4>1. setup.remote
        BY <2>1, <3>2, SameKey DEF At, KeyOf
      <4> QED BY <1>e, <2>1, <2>3, <3>1, <3>2, <4>1, OneOutput
    <3> QED BY <2>3, <3>1, <3>2 DEF PairOf
  <2> HIDE DEF r, m
  <2> QED BY <2>1, <2>2, <2>3, PairStep
<1>6. ASSUME NEW p \in Proc, Materialize(p) PROVE Pairs'
  <2> DEFINE b == blob[KeyOf(p)]
             r == [proc[p] EXCEPT !.pc = "hit", !.val = b]
  <2>0. UNCHANGED <<blob, meta, torn>> /\ proc[p].pc = "copy" /\ proc[p].key \in Key
    BY <1>6, <1>p DEF Materialize, Files, At
  <2>1. CASE b # None /\ Set(p, r)
    <3>1. r.key = proc[p].key /\ r.m = proc[p].m /\ r.pc = "hit" /\ r.val = b
      BY <1>p DEF Process
    <3>2. proc[p].key \notin torn => b \in {None, proc[p].m}
      BY <2>0 DEF Pairs, PairOf, At, KeyOf
    <3> HIDE DEF r, b
    <3> QED BY <2>0, <2>1, <3>1, <3>2, PairStep
  <2>2. CASE Go(p, "script")
    BY <1>3, <2>0, <2>2
  <2> QED BY <1>6, <2>1, <2>2 DEF Materialize
<1>7. ASSUME NEW p \in Proc, HitDone(p) PROVE Pairs'
  BY <1>1, <1>7, <1>i DEF HitDone, At, Files
<1>8. ASSUME NEW p \in Proc, Run(p) PROVE Pairs'
  BY <1>3, <1>8 DEF Run, Files
<1>9. ASSUME NEW p \in Proc, Pull(p) PROVE Pairs'
  <2> DEFINE r == [proc[p] EXCEPT !.pc = "store", !.held = FALSE]
  <2>1. Set(p, r) /\ r.pc = "store" /\ UNCHANGED <<blob, meta, torn>> /\ proc[p].pc = "make"
    BY <1>9, <1>p DEF Pull, At, Files, Process
  <2> HIDE DEF r
  <2> QED BY <1>1, <2>1
<1>10. ASSUME NEW p \in Proc, Store(p) PROVE Pairs'
  <2> DEFINE r == [proc[p] EXCEPT !.pc = "blob", !.val = out[KeyOf(p).t]]
  <2>1. r.pc = "blob" /\ UNCHANGED <<blob, meta, torn>> /\ proc[p].pc = "store"
    BY <1>10, <1>p DEF Store, At, Files, Process
  <2>2. Set(p, r) \/ Set(p, Idle)
    BY <1>10 DEF Store
  <2> HIDE DEF r
  <2> QED BY <1>1, <1>i, <2>1, <2>2
<1>11. ASSUME NEW p \in Proc, RenameBlob(p) PROVE Pairs'
  <2> DEFINE r == [proc[p] EXCEPT !.pc = "meta"]
  <2>0. PICK k \in Key : k = proc[p].key
    BY <1>11, <1>p DEF RenameBlob, At
  <2>1. /\ proc[p].pc = "blob" /\ blob' = [blob EXCEPT ![k] = proc[p].val] /\ k = proc[p].key
        /\ UNCHANGED <<meta, torn>> /\ Set(p, r) /\ proc[p].val \in Output /\ Right(proc[p].val, k)
    BY <1>11, <1>p, <2>0 DEF RenameBlob, At, KeyOf, Go, Process, StageOK
  <2>2. r.key = k /\ r.pc = "meta" /\ r.val = proc[p].val
    BY <1>p, <2>0 DEF Process
  <2>3. proc'[p] = r /\ \A q \in Proc \ {p} : proc'[q] = proc[q]
    BY <2>1, OthersStay
  <2>4. blob'[k] = proc[p].val /\ \A j \in Key \ {k} : blob'[j] = blob[j]
    BY <2>1 DEF Shape, Types
  <2> HIDE DEF r
  <2>5. ASSUME NEW j \in Key \ {k}, j \notin torn PROVE PairOf(j)'
    <3>1. PairOf(j) /\ blob'[j] = blob[j] /\ meta'[j] = meta[j]
      BY <2>1, <2>4, <2>5 DEF Pairs
    <3>2. \A q \in Proc : KeyOf(q)' = j => proc'[q] = proc[q]
      BY <2>2, <2>3 DEF KeyOf
    <3>3. \A q \in Proc : At(q, "meta") /\ KeyOf(q) = j => q # p
      BY <2>1 DEF At
    <3> QED BY <2>3, <3>1, <3>2, <3>3 DEF PairOf, At, KeyOf
  <2>6. ASSUME k \notin torn PROVE PairOf(k)'
    <3>1. At(p, "meta")' /\ KeyOf(p)' = k
      BY <2>2, <2>3 DEF At, KeyOf
    <3>2. ASSUME NEW q \in Proc, KeyOf(q)' = k
          PROVE  /\ At(q, "meta")' => blob'[k] = proc'[q].val
                 /\ At(q, "copy")' => blob'[k] = proc'[q].m
                 /\ At(q, "hit")' => proc'[q].m = proc'[q].val
      <4>1. CASE q = p
        <5>1. proc'[q].pc = "meta" /\ proc'[q].val = proc[p].val
          BY <2>2, <2>3, <4>1
        <5> QED BY <2>4, <5>1 DEF At
      <4>2. CASE q # p
        <5>1. proc'[q] = proc[q] /\ proc[q].key = k
          BY <2>3, <3>2, <4>2 DEF KeyOf
        <5>2. proc[q].pc # "idle" => setup.remote
          BY <2>1, <4>2, <5>1, SameKey
        <5>3. ASSUME proc[q].pc = "meta" PROVE blob'[k] = proc[q].val
          <6>1. proc[q].val \in Output /\ Right(proc[q].val, k)
            BY <1>p, <5>1, <5>3 DEF StageOK, Process
          <6>2. setup.remote
            BY <5>2, <5>3
          <6>3. proc[p].val = proc[q].val
            BY <2>1, <6>1, <6>2, OneOutput
          <6> QED BY <2>4, <6>3
        <5>4. ASSUME proc[q].pc = "copy" PROVE blob'[k] = proc[q].m
          <6>1. proc[q].m \in Output /\ Right(proc[q].m, k)
            BY <1>p, <5>1, <5>4 DEF StageOK, Process
          <6>2. setup.remote
            BY <5>2, <5>4
          <6>3. proc[p].val = proc[q].m
            BY <2>1, <6>1, <6>2, OneOutput
          <6> QED BY <2>4, <6>3
        <5>5. ASSUME proc[q].pc = "hit" PROVE proc[q].m = proc[q].val
          BY <2>1, <2>6, <5>1, <5>5 DEF Pairs, PairOf, At, KeyOf
        <5> QED BY <5>1, <5>3, <5>4, <5>5 DEF At
      <4> QED BY <4>1, <4>2
    <3> QED BY <3>1, <3>2 DEF PairOf
  <2> QED BY <2>1, <2>5, <2>6 DEF Pairs
<1>12. ASSUME NEW p \in Proc, RenameMeta(p) PROVE Pairs'
  <2> DEFINE r == [proc[p] EXCEPT !.pc = "gc"]
             k == proc[p].key
  <2>1. /\ proc[p].pc = "meta" /\ meta' = [meta EXCEPT ![k] = proc[p].val] /\ k \in Key
        /\ UNCHANGED <<blob, torn>> /\ Set(p, r)
    BY <1>12, <1>p DEF RenameMeta, At, KeyOf, Go
  <2>2. r.key = k /\ r.pc = "gc"
    BY <1>p DEF Process
  <2>3. proc'[p] = r /\ \A q \in Proc \ {p} : proc'[q] = proc[q]
    BY <2>1, OthersStay
  <2>4. meta'[k] = proc[p].val /\ \A j \in Key \ {k} : meta'[j] = meta[j]
    BY <2>1 DEF Shape, Types
  <2> HIDE DEF r
  <2> SUFFICES ASSUME NEW j \in Key \ torn PROVE PairOf(j)'
    BY <2>1 DEF Pairs
  <2>5. PairOf(j)
    BY DEF Pairs
  <2>6. \A q \in Proc : KeyOf(q)' = j =>
           /\ At(q, "meta")' => blob'[j] \in {None, proc'[q].val}
           /\ At(q, "copy")' => blob'[j] \in {None, proc'[q].m}
           /\ At(q, "hit")' => proc'[q].m = proc'[q].val
    BY <2>1, <2>2, <2>3, <2>5 DEF PairOf, At, KeyOf
  <2>7. \/ None \in {blob'[j], meta'[j]} \/ blob'[j] = meta'[j]
        \/ \E q \in Proc : At(q, "meta")' /\ KeyOf(q)' = j
    <3>1. CASE j = k
      <4>1. blob[k] \in {None, proc[p].val}
        BY <2>1, <2>5, <3>1 DEF PairOf, At, KeyOf
      <4> QED BY <2>1, <2>4, <3>1, <4>1
    <3>2. CASE j # k
      <4>1. \A q \in Proc : KeyOf(q) = j => q # p
        BY <3>2 DEF KeyOf
      <4> QED BY <2>1, <2>3, <2>4, <2>5, <3>2, <4>1 DEF PairOf, At, KeyOf
    <3> QED BY <3>1, <3>2
  <2> QED BY <2>6, <2>7 DEF PairOf
<1>13. ASSUME NEW p \in Proc, BlobFails(p) PROVE Pairs'
  <2>1. /\ proc[p].pc = "blob" /\ proc[p].key \in Key /\ torn' = torn \cup {proc[p].key}
        /\ UNCHANGED <<blob, meta>>
    BY <1>13, <1>p DEF BlobFails, At, KeyOf
  <2>2. CASE Set(p, Idle)
    BY <1>i, <2>1, <2>2, PairStep
  <2>3. CASE Go(p, "meta")
    <3> DEFINE r == [proc[p] EXCEPT !.pc = "meta"]
    <3>1. Set(p, r) /\ r.pc = "meta" /\ r.key = proc[p].key
      BY <2>3, <1>p DEF Go, Process
    <3> HIDE DEF r
    <3> QED BY <2>1, <3>1, PairStep
  <2> QED BY <1>13, <2>2, <2>3 DEF BlobFails
<1>14. ASSUME NEW p \in Proc, MetaFails(p) PROVE Pairs'
  <2> DEFINE r == [proc[p] EXCEPT !.pc = "gc"]
  <2>1. /\ proc[p].pc = "meta" /\ torn' = torn \cup {proc[p].key}
        /\ UNCHANGED <<blob, meta>> /\ Set(p, r) /\ r.pc = "gc"
    BY <1>14, <1>p DEF MetaFails, At, KeyOf, Go, Process
  <2> HIDE DEF r
  <2> QED BY <2>1, PairStep
<1>15. ASSUME NEW p \in Proc, Kill(p) PROVE Pairs'
  <2>1. /\ Set(p, Idle) /\ UNCHANGED <<blob, meta>> /\ torn \subseteq torn'
        /\ proc[p].pc = "meta" => proc[p].key \in torn'
    BY <1>15 DEF Kill, At, KeyOf
  <2> QED BY <1>i, <2>1, PairStep
<1>16. ASSUME NEW p \in Proc, Gc(p) PROVE Pairs'
  <2> DEFINE r == [proc[p] EXCEPT !.pc = "scan", !.todo = [t : Target, v : setup.versions]]
  <2>1. r.pc = "scan" /\ UNCHANGED <<blob, meta, torn>> /\ proc[p].pc = "gc"
    BY <1>16, <1>p DEF Gc, At, Files, Process
  <2>2. Set(p, Idle) \/ Set(p, r)
    BY <1>16 DEF Gc
  <2> HIDE DEF r
  <2> QED BY <1>1, <1>i, <2>1, <2>2
<1>17. ASSUME NEW p \in Proc, Scan(p) PROVE Pairs'
  <2>1. PICK k \in proc[p].todo :
          Set(p, [proc[p] EXCEPT
                    !.todo = @ \ {k},
                    !.seen = @ \cup {[k |-> k, size |-> b.size] : b \in {blob[k]} \ {None}},
                    !.total = @ + (IF blob[k] = None THEN 0 ELSE blob[k].size),
                    !.pc = IF proc[p].todo = {k} THEN "rm" ELSE "scan"])
    BY <1>17 DEF Scan
  <2> DEFINE r == [proc[p] EXCEPT
                     !.todo = @ \ {k},
                     !.seen = @ \cup {[k |-> k, size |-> b.size] : b \in {blob[k]} \ {None}},
                     !.total = @ + (IF blob[k] = None THEN 0 ELSE blob[k].size),
                     !.pc = IF proc[p].todo = {k} THEN "rm" ELSE "scan"]
  <2>2. Set(p, r)
    BY <2>1
  <2>3. r.pc \in {"rm", "scan"} /\ UNCHANGED <<blob, meta, torn>> /\ proc[p].pc = "scan"
    BY <1>17, <1>p DEF Scan, At, Files, Process
  <2> HIDE DEF r
  <2> QED BY <1>1, <2>2, <2>3
<1>18. ASSUME NEW p \in Proc, RemoveBlob(p) PROVE Pairs'
  <2>0. UNCHANGED <<meta, torn>> /\ proc[p].pc = "rm"
    BY <1>18 DEF RemoveBlob, At
  <2>1. CASE Set(p, Idle) /\ UNCHANGED blob
    BY <1>1, <1>i, <2>0, <2>1
  <2>2. ASSUME NEW o \in proc[p].seen, blob' = [blob EXCEPT ![o.k] = None],
               Set(p, [proc[p] EXCEPT !.pc = "rmMeta", !.seen = @ \ {o}, !.todo = {o.k},
                                      !.total = @ - o.size])
        PROVE  Pairs'
    <3> DEFINE r == [proc[p] EXCEPT !.pc = "rmMeta", !.seen = @ \ {o}, !.todo = {o.k}, !.total = @ - o.size]
    <3>1. Set(p, r) /\ r.pc = "rmMeta"
      BY <1>p, <2>2 DEF Process
    <3> HIDE DEF r
    <3>2. \A k \in Key : blob'[k] \in {None, blob[k]} /\ meta'[k] \in {None, meta[k]}
      BY <2>0, <2>2 DEF Shape, Types
    <3> QED BY <2>0, <3>1, <3>2, PairStep
  <2> QED BY <1>18, <2>1, <2>2 DEF RemoveBlob
<1>19. ASSUME NEW p \in Proc, RemoveMeta(p) PROVE Pairs'
  <2> DEFINE r == [proc[p] EXCEPT !.pc = "rm", !.todo = {}]
  <2>1. /\ UNCHANGED <<blob, torn>> /\ proc[p].pc = "rmMeta" /\ Set(p, r) /\ r.pc = "rm"
        /\ \A k \in Key : meta'[k] \in {None, meta[k]}
    BY <1>19, <1>p DEF RemoveMeta, At, Process
  <2> HIDE DEF r
  <2> QED BY <2>1, PairStep
<1>20. ASSUME NEW t \in Target, Edit(t) PROVE Pairs'
  BY <1>20 DEF Edit, Files, Pairs, PairOf, At, KeyOf
<1>21. CASE UNCHANGED vars
  BY <1>21 DEF vars, Pairs, PairOf, At, KeyOf
<1> QED BY <1>2, <1>4, <1>5, <1>6, <1>7, <1>8, <1>9, <1>10, <1>11, <1>12, <1>13, <1>14, <1>15, <1>16,
           <1>17, <1>18, <1>19, <1>20, <1>21 DEF Next

-----------------------------------------------------------------------------
(* The collection. *)

LEMMA BlobOf ==
    ASSUME NEW o
    PROVE  o \in Blobs <=> \E k \in Key : blob[k] # None /\ o = [k |-> k, size |-> blob[k].size]
BY DEF Blobs

(* What holds of the whole store once it holds of every list. *)
LEMMA FewerObjects ==
    ASSUME NEW S, NEW T, S \subseteq T
    PROVE  BytesOf(S) \subseteq BytesOf(T)
BY ByteOf

LEMMA InitCovered == Init => Covered
<1> SUFFICES ASSUME Init PROVE Covered
  OBVIOUS
<1>1. Blobs = {}
  BY DEF Init, Blobs
<1>2. BytesOf(Blobs) = {}
  BY <1>1, NoBytes
<1>3. setup.max \in Nat
  BY CacheAssumption DEF Init
<1> QED BY <1>2, <1>3, NoBytes DEF Covered, Bytes

(* A step of p after which no blob is new: the collections of others still *)
(* know what is there.                                                     *)
LEMMA CoverStep ==
    ASSUME Shape, Covered, NEW p \in Proc, NEW r, Set(p, r), Blobs' \subseteq Blobs,
           setup' = setup, killed => killed',
           Fresh(p) => Fresh(p)' \/ setup.max = 0 \/ killed' \/ Bytes' <= setup.max
    PROVE  Covered'
<1>1. proc'[p] = r /\ \A q \in Proc \ {p} : proc'[q] = proc[q]
  BY OthersStay
<1>2. BytesOf(Blobs)' = BytesOf(Blobs')
  BY DEF BytesOf
<1>3. BytesOf(Blobs') \subseteq BytesOf(Blobs)
  BY FewerObjects
<1>4. /\ IsFiniteSet(BytesOf(Blobs')) /\ Cardinality(BytesOf(Blobs')) <= Cardinality(BytesOf(Blobs))
      /\ Cardinality(BytesOf(Blobs')) \in Nat /\ Cardinality(BytesOf(Blobs)) \in Nat
  BY <1>3, FewerBytes DEF Covered
<1>5. setup.max \in Nat
  BY CacheAssumption DEF Shape, Types
<1>6. Bytes <= setup.max => Bytes' <= setup.max
  BY <1>2, <1>4, <1>5 DEF Bytes
<1>7. \A q \in Proc \ {p} : Fresh(q) => Fresh(q)'
  BY <1>1 DEF Fresh, At
<1> QED BY <1>2, <1>4, <1>6, <1>7 DEF Covered

(* Nothing happens to the blobs, and a collection goes on. *)
LEMMA CoverMove ==
    ASSUME Shape, Covered, NEW p \in Proc, NEW r, Set(p, r), UNCHANGED <<blob, setup, killed>>,
           Fresh(p) => \/ r.pc \in {"meta", "gc"} \/ setup.max = 0 \/ Bytes <= setup.max
                       \/ /\ r.pc \in Collecting
                          /\ \A o \in Blobs : o \in r.seen \/ (r.pc = "scan" /\ o.k \in r.todo)
    PROVE  Covered'
<1>1. proc'[p] = r
  BY OthersStay
<1>2. Blobs' = Blobs /\ Bytes' = Bytes
  BY DEF Blobs, Bytes, BytesOf
<1>3. Fresh(p) => Fresh(p)' \/ setup.max = 0 \/ Bytes' <= setup.max
  BY <1>1, <1>2 DEF Fresh, At
<1> QED BY <1>2, <1>3, CoverStep

(* A store that is over its limit is being collected. *)
LEMMA NextCovered == ASSUME Shape, Stages, Covered, [Next]_vars PROVE Covered'
<1>p. \A p \in Proc : /\ proc[p] \in Process /\ ShapeOK(proc[p])
                      /\ proc[p].pc # "idle" => proc[p].key \in Key
  BY DEF Shape, Types, ShapeOK
<1>m. setup.max \in Nat /\ setup \in Setups
  BY CacheAssumption DEF Shape, Types
<1>1. ASSUME NEW p \in Proc, NEW r, Set(p, r), UNCHANGED <<blob, setup, killed>>,
             proc[p].pc \notin {"meta", "gc"} \cup Collecting
      PROVE  Covered'
  <2>1. ~Fresh(p)
    BY <1>1 DEF Fresh
  <2> QED BY <1>1, <2>1, CoverMove
<1>2. ASSUME NEW p \in Proc, NEW t \in Target, Begin(p, t) PROVE Covered'
  BY <1>1, <1>2 DEF Begin, At, Files, Collecting
<1>3. ASSUME NEW p \in Proc, Lookup(p) \/ ReadMeta(p) PROVE Covered'
  BY <1>1, <1>3 DEF Lookup, ReadMeta, Go, At, Files, world, Collecting
<1>4. ASSUME NEW p \in Proc, Materialize(p) PROVE Covered'
  BY <1>1, <1>4 DEF Materialize, Go, At, Files, world, Collecting
<1>5. ASSUME NEW p \in Proc, HitDone(p) \/ Run(p) \/ Pull(p) PROVE Covered'
  BY <1>1, <1>5 DEF HitDone, Run, Pull, Go, At, Files, Collecting
<1>6. ASSUME NEW p \in Proc, Store(p) PROVE Covered'
  BY <1>1, <1>6 DEF Store, At, Files, world, Collecting
<1>7. ASSUME NEW p \in Proc, RenameBlob(p) PROVE Covered'
  <2> DEFINE r == [proc[p] EXCEPT !.pc = "meta"]
             e == [k |-> proc[p].key, size |-> proc[p].val.size]
             E == {e.k} \X (1..e.size)
  <2>1. /\ proc[p].pc = "blob" /\ blob' = [blob EXCEPT ![proc[p].key] = proc[p].val]
        /\ proc[p].key \in Key /\ UNCHANGED <<setup, killed>> /\ Set(p, r) /\ r.pc = "meta"
        /\ proc[p].val \in Output
    BY <1>7, <1>p DEF RenameBlob, At, KeyOf, Go, Process, world, Stages, StageOK
  <2>2. Fresh(p)'
    <3>1. proc'[p] = r
      BY <2>1, OthersStay
    <3> QED BY <2>1, <3>1 DEF Fresh
  <2>3. Blobs' \subseteq Blobs \cup {e}
    BY <2>1 DEF Blobs, Shape, Types
  <2>4. e.size \in Nat
    BY <2>1, CacheAssumption DEF Output
  <2>5. IsFiniteSet(E)
    BY <2>4, ObjectBytes
  <2>6. BytesOf(Blobs') \subseteq BytesOf(Blobs) \cup E
    <3> HIDE DEF e
    <3> QED BY <2>3, ByteOf
  <2> HIDE DEF E
  <2>7. IsFiniteSet(BytesOf(Blobs) \cup E)
    BY <2>5, FS_Union DEF Covered
  <2>8. IsFiniteSet(BytesOf(Blobs'))
    BY <2>6, <2>7, FS_Subset
  <2>9. BytesOf(Blobs)' = BytesOf(Blobs')
    BY DEF BytesOf
  <2> QED BY <2>2, <2>8, <2>9 DEF Covered
<1>8. ASSUME NEW p \in Proc, RenameMeta(p) \/ MetaFails(p) PROVE Covered'
  <2> DEFINE r == [proc[p] EXCEPT !.pc = "gc"]
  <2>1. Set(p, r) /\ r.pc = "gc" /\ UNCHANGED <<blob, setup, killed>>
    BY <1>8, <1>p DEF RenameMeta, MetaFails, Go, world, Process
  <2> HIDE DEF r
  <2> QED BY <2>1, CoverMove
<1>9. ASSUME NEW p \in Proc, BlobFails(p) PROVE Covered'
  BY <1>1, <1>9 DEF BlobFails, Go, At, world, Collecting
<1>10. ASSUME NEW p \in Proc, Kill(p) PROVE Covered'
  <2>1. Set(p, Idle) /\ killed' /\ UNCHANGED <<blob, setup>>
    BY <1>10 DEF Kill, world
  <2>2. Blobs' = Blobs
    BY <2>1 DEF Blobs
  <2> QED BY <2>1, <2>2, CoverStep
<1>11. ASSUME NEW p \in Proc, Gc(p) PROVE Covered'
  <2> DEFINE r == [proc[p] EXCEPT !.pc = "scan", !.todo = [t : Target, v : setup.versions]]
  <2>0. UNCHANGED <<blob, setup, killed>> /\ proc[p].pc = "gc"
    BY <1>11 DEF Gc, At, Files, world
  <2>1. CASE setup.max = 0 /\ Set(p, Idle)
    BY <2>0, <2>1, CoverMove
  <2>2. CASE Set(p, r)
    <3>1. r.pc = "scan" /\ r.todo = [t : Target, v : setup.versions]
      BY <1>p DEF Process
    <3>2. ASSUME NEW o \in Blobs PROVE o.k \in [t : Target, v : setup.versions]
      <4>1. PICK k \in Key : blob[k] # None /\ o = [k |-> k, size |-> blob[k].size]
        BY BlobOf
      <4>2. k.v \in setup.versions /\ k \in [t : Target, v : Version]
        BY <4>1 DEF Stages, Entries, Key
      <4> QED BY <4>1, <4>2
    <3> HIDE DEF r
    <3> QED BY <2>0, <2>2, <3>1, <3>2, CoverMove DEF Collecting
  <2> QED BY <1>11, <2>1, <2>2 DEF Gc
<1>12. ASSUME NEW p \in Proc, Scan(p) PROVE Covered'
  <2>1. PICK k \in proc[p].todo :
          Set(p, [proc[p] EXCEPT
                    !.todo = @ \ {k},
                    !.seen = @ \cup {[k |-> k, size |-> b.size] : b \in {blob[k]} \ {None}},
                    !.total = @ + (IF blob[k] = None THEN 0 ELSE blob[k].size),
                    !.pc = IF proc[p].todo = {k} THEN "rm" ELSE "scan"])
    BY <1>12 DEF Scan
  <2> DEFINE r == [proc[p] EXCEPT
                     !.todo = @ \ {k},
                     !.seen = @ \cup {[k |-> k, size |-> b.size] : b \in {blob[k]} \ {None}},
                     !.total = @ + (IF blob[k] = None THEN 0 ELSE blob[k].size),
                     !.pc = IF proc[p].todo = {k} THEN "rm" ELSE "scan"]
  <2>2. Set(p, r)
    BY <2>1
  <2>3. /\ r.pc = IF proc[p].todo = {k} THEN "rm" ELSE "scan"
        /\ r.todo = proc[p].todo \ {k}
        /\ r.seen = proc[p].seen \cup {[k |-> k, size |-> b.size] : b \in {blob[k]} \ {None}}
    BY <1>p DEF Process
  <2>4. UNCHANGED <<blob, setup, killed>> /\ proc[p].pc = "scan"
    BY <1>12 DEF Scan, At, Files, world
  <2> HIDE DEF r
  <2>5. ASSUME Fresh(p), NEW o \in Blobs PROVE o \in r.seen \/ (r.pc = "scan" /\ o.k \in r.todo)
    <3>1. PICK j \in Key : blob[j] # None /\ o = [k |-> j, size |-> blob[j].size]
      BY BlobOf
    <3>2. o \in proc[p].seen \/ j \in proc[p].todo
      BY <2>4, <2>5, <3>1 DEF Fresh
    <3>3. CASE j = k
      BY <2>3, <3>1, <3>3
    <3>4. CASE j # k
      BY <2>3, <3>1, <3>2, <3>4
    <3> QED BY <3>3, <3>4
  <2> QED BY <2>2, <2>3, <2>4, <2>5, CoverMove DEF Collecting
<1>13. ASSUME NEW p \in Proc, RemoveBlob(p) PROVE Covered'
  <2>0. UNCHANGED <<setup, killed>> /\ proc[p].pc = "rm" /\ Account(proc[p]) /\ proc[p].total \in Nat
    BY <1>13, <1>p DEF RemoveBlob, At, world, ShapeOK, Process
  <2>1. CASE (proc[p].total <= setup.max \/ proc[p].seen = {}) /\ Set(p, Idle) /\ UNCHANGED blob
    <3>1. Fresh(p) => Bytes <= setup.max
      <4> SUFFICES ASSUME Fresh(p) PROVE Bytes <= setup.max
        OBVIOUS
      <4>1. Blobs \subseteq proc[p].seen
        BY <2>0 DEF Fresh, At
      <4>2. BytesOf(Blobs) \subseteq BytesOf(proc[p].seen)
        BY <4>1, FewerObjects
      <4>3. Bytes <= proc[p].total /\ Bytes \in Nat
        BY <2>0, <4>2, FewerBytes DEF Account, Bytes
      <4>4. proc[p].seen = {} => proc[p].total = 0
        BY <2>0, NoBytes DEF Account
      <4> QED BY <1>m, <2>0, <2>1, <4>3, <4>4
    <3> QED BY <2>0, <2>1, <3>1, CoverMove
  <2>2. ASSUME NEW o \in proc[p].seen, blob' = [blob EXCEPT ![o.k] = None],
               Set(p, [proc[p] EXCEPT !.pc = "rmMeta", !.seen = @ \ {o}, !.todo = {o.k},
                                      !.total = @ - o.size])
        PROVE  Covered'
    <3> DEFINE r == [proc[p] EXCEPT !.pc = "rmMeta", !.seen = @ \ {o}, !.todo = {o.k}, !.total = @ - o.size]
    <3>1. Set(p, r) /\ r.pc = "rmMeta" /\ r.seen = proc[p].seen \ {o}
      BY <1>p, <2>2 DEF Process
    <3> HIDE DEF r
    <3>2. Blobs' \subseteq Blobs /\ \A b \in Blobs' : b # o
      <4>1. \A k \in Key : blob'[k] # None => blob'[k] = blob[k] /\ k # o.k
        BY <2>2 DEF Shape, Types
      <4>2. \A b \in Blobs' : \E k \in Key : blob'[k] # None /\ b = [k |-> k, size |-> blob'[k].size]
        BY DEF Blobs
      <4> QED BY <4>1, <4>2, BlobOf
    <3>3. Fresh(p) => Fresh(p)'
      <4>1. proc'[p] = r
        BY <3>1, OthersStay
      <4> QED BY <2>0, <3>1, <3>2, <4>1 DEF Fresh, At, Collecting
    <3> QED BY <2>0, <3>1, <3>2, <3>3, CoverStep
  <2> QED BY <1>13, <2>1, <2>2 DEF RemoveBlob
<1>14. ASSUME NEW p \in Proc, RemoveMeta(p) PROVE Covered'
  <2> DEFINE r == [proc[p] EXCEPT !.pc = "rm", !.todo = {}]
  <2>1. /\ UNCHANGED <<blob, setup, killed>> /\ proc[p].pc = "rmMeta" /\ Set(p, r)
        /\ r.pc = "rm" /\ r.seen = proc[p].seen
    BY <1>14, <1>p DEF RemoveMeta, At, world, Process
  <2>2. Fresh(p) => \A o \in Blobs : o \in r.seen
    BY <2>1 DEF Fresh, At
  <2> HIDE DEF r
  <2> QED BY <2>1, <2>2, CoverMove DEF Collecting
<1>15. ASSUME UNCHANGED <<blob, proc, setup, killed>> PROVE Covered'
  BY <1>15 DEF Covered, Fresh, Bytes, BytesOf, Blobs, At
<1>16. ASSUME NEW t \in Target, Edit(t) PROVE Covered'
  BY <1>15, <1>16 DEF Edit, Files
<1>17. CASE UNCHANGED vars
  BY <1>15, <1>17 DEF vars
<1> QED BY <1>2, <1>3, <1>4, <1>5, <1>6, <1>7, <1>8, <1>9, <1>10, <1>11, <1>12, <1>13, <1>14, <1>16,
           <1>17 DEF Next

-----------------------------------------------------------------------------
(* Each process keeps a well-formed account of what it does, and the total *)
(* of a collection never goes below zero (maybe_gc subtracts the size of   *)
(* each object it removes).                                                *)
THEOREM TypeCorrect == Spec => []TypeOK
<1>1. Shape => TypeOK
  <2> SUFFICES ASSUME Shape PROVE TypeOK
    OBVIOUS
  <2>1. ASSUME NEW p \in Proc PROVE (proc[p].pc = "idle") = (proc[p].key = None)
    BY CacheAssumption DEF Shape, ShapeOK, Idle
  <2> QED BY <2>1 DEF Shape, Types, Process, TypeOK
<1> QED BY <1>1, InitShape, NextShape, PTL DEF Spec

(* The inductive invariant, where no process stores without a lock what    *)
(* another one may be making differently.                                  *)
THEOREM Invariance == ASSUME RemoteQuiet PROVE Spec => []IInv
<1>1. Init => IInv
  BY InitShape, InitStages, InitPairs, InitCovered DEF IInv
<1>2. IInv /\ [Next]_vars => IInv'
  BY NextShape, NextStages, NextPairs, NextCovered DEF IInv
<1> QED BY <1>1, <1>2, PTL DEF Spec

(* A hit gives an output made for its key, and the meta of that output     *)
(* unless a store of the key was torn (lookup, materialize, store), for    *)
(* any number of processes that store, collect and are killed meanwhile.   *)
THEOREM HitsAreOfTheirKey == ASSUME RemoteQuiet PROVE Spec => []HitOfKey
<1>1. IInv => HitOfKey
  <2> SUFFICES ASSUME IInv, NEW p \in Proc, At(p, "hit")
               PROVE  /\ proc[p].val.t = proc[p].key.t /\ proc[p].val.v = proc[p].key.v
                      /\ proc[p].m = proc[p].val \/ proc[p].key \in torn
    BY DEF HitOfKey
  <2>1. proc[p].key \in Key /\ Right(proc[p].val, proc[p].key) /\ proc[p].val # None
    BY DEF IInv, Shape, ShapeOK, Stages, StageOK, At
  <2>2. proc[p].key \notin torn => proc[p].m = proc[p].val
    BY <2>1 DEF IInv, Pairs, PairOf, At, KeyOf
  <2> QED BY <2>1, <2>2 DEF Right
<1> QED BY <1>1, Invariance, PTL

(* However many processes store and collect at once, the cache is over its *)
(* limit only while one of them is on its way to the end of its            *)
(* collection, or one was killed there (maybe_gc).                         *)
THEOREM CollectionSuffices == ASSUME RemoteQuiet PROVE Spec => []GcBound
<1>1. IInv => GcBound
  BY DEF IInv, Covered, Fresh, GcBound, Collecting
<1> QED BY <1>1, Invariance, PTL

=============================================================================
