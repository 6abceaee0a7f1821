----------------------------- MODULE ActionCache -----------------------------
(***************************************************************************)
(* The local action cache as processes use it: two files per key, a blob   *)
(* and its meta, written one after the other, looked up without a lock,    *)
(* and removed by the collection that every store ends with                *)
(* (action_cache.rs, and the calls in builder.rs).                         *)
(*                                                                         *)
(* A key is a target and the stamps of what it is made from.  A process    *)
(* that builds a target holds its lock, so two processes meet in the cache *)
(* under different keys, or where one works on a key that the other is     *)
(* collecting, or where a process stores after it has unlocked the target. *)
(* An output is what a script left: its bytes, whose size the collection   *)
(* counts.                                                                 *)
(***************************************************************************)
EXTENDS Naturals, FiniteSets

CONSTANTS Proc, Target,
          Version,    \* versions of each target's source
          Size,       \* sizes an output can have
          None,
          Setups      \* the situations to look at:
    \*   sizes   what outputs come out as; with one, scripts are deterministic
    \*   versions   of sources in play
    \*   max     REDO_ACTION_CACHE_MAX_BYTES; 0: no limit
    \*   remote  whether there is a remote cache to pull from
    \*   builds, edits, faults   bounds on builds, edits of sources, and
    \*           processes killed or renames failing

Key    == [t : Target, v : Version]
Output == [t : Target, v : Version, size : Size]

ASSUME CacheAssumption ==
    /\ Size \subseteq Nat
    /\ None \notin Key \cup Output
    /\ \A s \in Setups : /\ s.versions \subseteq Version /\ s.versions # {}
                         /\ s.sizes \subseteq Size /\ s.max \in Nat /\ s.remote \in BOOLEAN

VARIABLES blob, meta,   \* blob[k], meta[k]: the output they hold or speak of
          proc,         \* what each process does
          src, out,     \* of each target: its source's version, the target itself
          torn,         \* history: keys whose store got one of its files only
          killed,       \* history: a process was killed
          builds, edits, faults, setup
vars == <<blob, meta, proc, src, out, torn, killed, builds, edits, faults, setup>>
world == <<src, out, builds, edits, setup>>   \* what the cache does not change

(* held: the process has the lock of its target; val: the output it has    *)
(* found or stores; m: the meta it has read; todo, seen: keys its          *)
(* collection has not looked at yet, blobs it has found; total: the bytes  *)
(* it thinks are there.                                                    *)
Idle == [pc |-> "idle", key |-> None, held |-> FALSE, val |-> None, m |-> None,
         todo |-> {}, seen |-> {}, total |-> 0]
PCs == {"idle", "lookup", "meta?", "copy", "hit", "make", "script", "store", "blob", "meta",
        "gc", "scan", "rm", "rmMeta"}

TypeOK ==
    /\ blob \in [Key -> Output \cup {None}]
    /\ meta \in [Key -> Output \cup {None}]
    /\ \A p \in Proc : LET r == proc[p] IN
         /\ r.pc \in PCs /\ r.held \in BOOLEAN /\ (r.pc = "idle") = (r.key = None)
         /\ r.key \in Key \cup {None} /\ r.val \in Output \cup {None}
         /\ r.m \in Output \cup {None} /\ r.todo \subseteq Key
         /\ r.seen \subseteq [k : Key, size : Size] /\ r.total \in Nat
    /\ src \in [Target -> Version] /\ out \in [Target -> Output \cup {None}]
    /\ torn \subseteq Key /\ killed \in BOOLEAN

Init == /\ setup \in Setups
        /\ blob = [k \in Key |-> None] /\ meta = [k \in Key |-> None]
        /\ proc = [p \in Proc |-> Idle]
        /\ src = [t \in Target |-> CHOOSE v \in setup.versions : TRUE]
        /\ out = [t \in Target |-> None]
        /\ torn = {} /\ killed = FALSE
        /\ builds = 0 /\ edits = 0 /\ faults = 0
-----------------------------------------------------------------------------
At(p, pc)  == proc[p].pc = pc
Set(p, r)  == proc' = [proc EXCEPT ![p] = r]
Go(p, pc)  == Set(p, [proc[p] EXCEPT !.pc = pc])
KeyOf(p)   == proc[p].key
Files      == <<blob, meta, torn, killed, faults>>

(* Mutant of Begin: the key is left empty. *)
BeginUnkeyed(p, t) ==
    /\ At(p, "idle") /\ builds < setup.builds
    /\ builds' = builds + 1
    /\ Set(p, [Idle EXCEPT !.pc = "lookup", !.held = TRUE])
    /\ UNCHANGED <<Files, src, out, edits, setup>>

(* A redo-ifchange finds the target out of date, or gone, and locks it. *)
Begin(p, t) ==
    /\ At(p, "idle") /\ builds < setup.builds
    /\ \A q \in Proc : ~(proc[q].held /\ KeyOf(q).t = t)
    /\ builds' = builds + 1
    /\ Set(p, [Idle EXCEPT !.pc = "lookup", !.key = [t |-> t, v |-> src[t]], !.held = TRUE])
    /\ UNCHANGED <<Files, src, out, edits, setup>>

(* lookup: both files exist; the meta is read.  Without them: no hit.      *)
Lookup(p) ==
    /\ At(p, "lookup")
    /\ Go(p, IF None \in {blob[KeyOf(p)], meta[KeyOf(p)]} THEN "make" ELSE "meta?")
    /\ UNCHANGED <<Files, world>>
ReadMeta(p) ==
    /\ At(p, "meta?")
    /\ LET m == meta[KeyOf(p)] IN
       Set(p, [proc[p] EXCEPT !.m = m, !.pc = IF m = None THEN "make" ELSE "copy"])
    /\ UNCHANGED <<Files, world>>

(* materialize: the blob is copied to $3 and renamed.  When the blob is    *)
(* gone, or that fails, the script is run; the remote cache is not asked.  *)
Materialize(p) ==
    /\ At(p, "copy")
    /\ LET b == blob[KeyOf(p)] IN
       \/ b # None /\ Set(p, [proc[p] EXCEPT !.pc = "hit", !.val = b])
       \/ Go(p, "script")
    /\ UNCHANGED <<Files, world>>
HitDone(p) == /\ At(p, "hit") /\ Set(p, Idle)
              /\ out' = [out EXCEPT ![KeyOf(p).t] = proc[p].val]
              /\ UNCHANGED <<Files, src, builds, edits, setup>>

(* No hit: the script makes the output, ... *)
Made(p) == \E s \in setup.sizes :
    out' = [out EXCEPT ![KeyOf(p).t] = [t |-> KeyOf(p).t, v |-> KeyOf(p).v, size |-> s]]
Run(p)  == /\ proc[p].pc \in {"make", "script"} /\ Made(p) /\ Go(p, "store")
           /\ UNCHANGED <<Files, src, builds, edits, setup>>

(* ... or the remote cache has it.  Then the target is unlocked before the *)
(* output is stored.                                                       *)
Pull(p) == /\ At(p, "make") /\ setup.remote /\ Made(p)
           /\ Set(p, [proc[p] EXCEPT !.pc = "store", !.held = FALSE])
           /\ UNCHANGED <<Files, src, builds, edits, setup>>
-----------------------------------------------------------------------------
(* store: nothing to do when both files are there; otherwise the target is *)
(* copied to a private file.                                               *)
Store(p) ==
    /\ At(p, "store")
    /\ IF None \in {blob[KeyOf(p)], meta[KeyOf(p)]}
         THEN Set(p, [proc[p] EXCEPT !.pc = "blob", !.val = out[KeyOf(p).t]])
         ELSE Set(p, Idle)
    /\ UNCHANGED <<Files, world>>

(* The blob is renamed into place, then the meta.                          *)
RenameBlob(p) ==
    /\ At(p, "blob") /\ Go(p, "meta")
    /\ blob' = [blob EXCEPT ![KeyOf(p)] = proc[p].val]
    /\ UNCHANGED <<meta, torn, killed, faults, world>>

(* Mutant of RenameMeta: a meta that is there is left alone. *)
RenameMetaKeeps(p) ==
    /\ At(p, "meta") /\ Go(p, "gc")
    /\ meta' = [meta EXCEPT ![KeyOf(p)] = IF @ = None THEN proc[p].val ELSE @]
    /\ UNCHANGED <<blob, torn, killed, faults, world>>

RenameMeta(p) ==
    /\ At(p, "meta") /\ Go(p, "gc")
    /\ meta' = [meta EXCEPT ![KeyOf(p)] = proc[p].val]
    /\ UNCHANGED <<blob, torn, killed, faults, world>>

Fault == faults < setup.faults /\ faults' = faults + 1

(* A blob that cannot be renamed ends the store, unless there is one.      *)
BlobFails(p) ==
    /\ At(p, "blob") /\ Fault
    /\ IF blob[KeyOf(p)] = None THEN Set(p, Idle) ELSE Go(p, "meta")
    /\ torn' = torn \cup {KeyOf(p)}
    /\ UNCHANGED <<blob, meta, killed, world>>

(* Mutant of MetaFails: the store returns the error. *)
MetaFailsEnds(p) ==
    /\ At(p, "meta") /\ Fault /\ Set(p, Idle)
    /\ torn' = torn \cup {KeyOf(p)}
    /\ UNCHANGED <<blob, meta, killed, world>>

(* A meta that cannot be written is left out. *)
MetaFails(p) ==
    /\ At(p, "meta") /\ Fault /\ Go(p, "gc")
    /\ torn' = torn \cup {KeyOf(p)}
    /\ UNCHANGED <<blob, meta, killed, world>>
-----------------------------------------------------------------------------
(* maybe_gc: collect_objects walks the buckets while others store and      *)
(* collect ...                                                             *)
Gc(p) ==
    /\ At(p, "gc")
    /\ IF setup.max = 0 THEN Set(p, Idle)
       ELSE Set(p, [proc[p] EXCEPT !.pc = "scan", !.todo = [t : Target, v : setup.versions]])
    /\ UNCHANGED <<Files, world>>
Scan(p) ==
    /\ At(p, "scan") /\ proc[p].todo # {}
    /\ \E k \in proc[p].todo :
         Set(p, [proc[p] EXCEPT
                   !.todo = @ \ {k},
                   !.seen = @ \cup {[k |-> k, size |-> b.size] : b \in {blob[k]} \ {None}},
                   !.total = @ + (IF blob[k] = None THEN 0 ELSE blob[k].size),
                   !.pc = IF proc[p].todo = {k} THEN "rm" ELSE "scan"])
    /\ UNCHANGED <<Files, world>>

(* ... and objects of the list are removed until the rest is small enough, *)
(* blob first.  The code takes the oldest first; here it is any.           *)
RemoveBlob(p) ==
    /\ At(p, "rm")
    /\ IF proc[p].total <= setup.max \/ proc[p].seen = {}
         THEN Set(p, Idle) /\ UNCHANGED blob
         ELSE \E o \in proc[p].seen :
                /\ blob' = [blob EXCEPT ![o.k] = None]
                /\ Set(p, [proc[p] EXCEPT !.pc = "rmMeta", !.seen = @ \ {o}, !.todo = {o.k},
                                          !.total = @ - o.size])
    /\ UNCHANGED <<meta, torn, killed, faults, world>>
RemoveMeta(p) ==
    /\ At(p, "rmMeta")
    /\ meta' = [k \in Key |-> IF k \in proc[p].todo THEN None ELSE meta[k]]
    /\ Set(p, [proc[p] EXCEPT !.pc = "rm", !.todo = {}])
    /\ UNCHANGED <<blob, torn, killed, faults, world>>
-----------------------------------------------------------------------------
(* The process is killed; its private files stay behind under names nobody *)
(* looks up.                                                               *)
Kill(p) ==
    /\ ~At(p, "idle") /\ Fault /\ Set(p, Idle)
    /\ killed' = TRUE
    /\ torn' = IF At(p, "meta") THEN torn \cup {KeyOf(p)} ELSE torn
    /\ UNCHANGED <<blob, meta, world>>

(* A source is replaced, or the old one put back, while its target is not  *)
(* being built (module BuildState is about edits during a build).          *)
Edit(t) ==
    /\ edits < setup.edits /\ edits' = edits + 1
    /\ \A p \in Proc : ~(proc[p].held /\ KeyOf(p).t = t)
    /\ \E v \in setup.versions \ {src[t]} : src' = [src EXCEPT ![t] = v]
    /\ UNCHANGED <<Files, proc, out, builds, setup>>

Next == \/ \E p \in Proc :
             \/ \E t \in Target : Begin(p, t)
             \/ Lookup(p) \/ ReadMeta(p) \/ Materialize(p) \/ HitDone(p) \/ Run(p) \/ Pull(p)
             \/ Store(p) \/ RenameBlob(p) \/ RenameMeta(p) \/ BlobFails(p) \/ MetaFails(p)
             \/ Gc(p) \/ Scan(p) \/ RemoveBlob(p) \/ RemoveMeta(p) \/ Kill(p)
        \/ \E t \in Target : Edit(t)

Spec == Init /\ [][Next]_vars
-----------------------------------------------------------------------------
(* A hit gives an output that was made for this very key, however stores,  *)
(* collections and kills of other processes lie between its steps; and the *)
(* meta it goes with is that output's, unless a store of the key once got  *)
(* only one of its two files in place (lookup, materialize, store).        *)
HitOfKey == \A p \in Proc : At(p, "hit") =>
    LET r == proc[p] IN /\ r.val.t = r.key.t /\ r.val.v = r.key.v
                        /\ r.m = r.val \/ r.key \in torn

BytesOf(S) == UNION {{o.k} \X (1..o.size) : o \in S}   \* every byte: its file, its place there
Blobs == {[k |-> k, size |-> blob[k].size] : k \in {k \in Key : blob[k] # None}}
Bytes == Cardinality(BytesOf(Blobs))

(* The cache is over its limit only while a store is on its way through    *)
(* the collection, whoever else stores or collects at the same time, or    *)
(* once a process was killed, wherever it was: after a kill nothing is     *)
(* claimed (maybe_gc).                                                     *)
GcBound == \/ setup.max = 0 \/ killed \/ Bytes <= setup.max
           \/ \E p \in Proc : proc[p].pc \in {"meta", "gc", "scan", "rm", "rmMeta"}
=============================================================================
