----------------------------- MODULE BuildState -----------------------------
(***************************************************************************)
(* What redo remembers between runs and how it decides what to rebuild:    *)
(* the tables Files and Deps with their transactions (state.rs), isdirty   *)
(* (deps.rs), the life of one build (builder.rs), the commands a script    *)
(* uses to declare its inputs, and the local action cache.                 *)
(*                                                                         *)
(* One command runs at a time, with -j1: a stack of processes, of which    *)
(* only the top one moves.  Between runs, and if EditsInRun during them,   *)
(* a user edits, touches and removes files.  A crash kills the whole stack *)
(* and loses the open transaction.                                         *)
(*                                                                         *)
(* A script's output is the set of pairs <<file, what was read from it>>;  *)
(* the script of a checksummed target (redo-stamp) keeps only half of what *)
(* it reads.  Every write of a file gives it a fresh mtime.                *)
(***************************************************************************)
EXTENDS Integers, Sequences, FiniteSets, SequencesExt, TLC

CONSTANTS
    Trees,       \* Trees[n]: a source tree, and what may happen to it
    Data,        \* what a source may contain
    Hand,        \* what the user writes into a target
    None,
    MaxRuns, MaxEdits

Always == "//ALWAYS"
World == "world"      \* what a script that says redo-always looks at

(* Options: CacheOn (REDO_NO_ACTION_CACHE is not set), EditsInRun (the     *)
(* user edits sources during a run, too), Crashes (a run may be killed),   *)
(* LostRecord (also between the rename and the commit of a rebuild),       *)
(* KeepGoing (--keep-going).                                               *)
Options == {"CacheOn", "EditsInRun", "Crashes", "LostRecord", "KeepGoing"}

ASSUME BuildStateAssumption ==
    /\ MaxRuns \in Nat /\ MaxEdits \in Nat
    /\ 0 \in Data /\ None \notin Data \cup {Hand} /\ None \notin Nat \X Nat
    /\ \A n \in DOMAIN Trees :
         LET w == Trees[n] IN
         /\ w.phony \cup w.flaky \cup w.handEdited \subseteq w.target
         /\ w.absent \cup w.removable \cup w.fixed \subseteq w.source
         /\ w.source \cap w.target = {} /\ Always \notin w.source \cup w.target
         /\ w.order \in Seq(w.source \cup w.target \cup {Always})
         /\ ToSet(w.order) = w.source \cup w.target \cup {Always}
         /\ \A t \in w.target : w.cands[t] \in Seq(w.source) \ {<<>>}
         /\ \A f \in w.source \cup {Always} : w.cands[f] = <<>>
         /\ \A t \in w.target : \A do \in ToSet(w.cands[t]) : \A v \in Data :
              w.script[do][v] \in Seq([op : {"ifchange", "ifcreate", "always", "stamp"},
                                      on : Seq(w.source \cup w.target)])
         /\ w.commands \subseteq [cmd : {"ifchange", "redo"}, args : Seq(w.source \cup w.target)]
         /\ w.options \subseteq Options

VARIABLES
    fs,      \* fs[f]: its mtime and inode, its contents (None: it is not there)
    row,     \* row[f]: the row of Files, as the open connection sees it
    dep,     \* dep[t]: the rows of Deps for t: file -> [mode, del]
    saved,   \* what is committed of the two tables
    run,     \* the last runid
    stack,   \* the processes of this run, the toplevel command first
    world,
    cache,   \* the action cache: entries [t, key, data]
    edits,   \* how often the user has done something
    manual,  \* the targets whose contents the user wrote
    adopted, \* the targets redo took for sources when no .do file was left
    quiet,   \* no edit since this run started
    sure,    \* targets a run reported done, with no edit since
    built,   \* scripts started in this run
    tree     \* the name of the source tree

Source     == Trees[tree].source      \* files nobody generates, the .do files included
Target     == Trees[tree].target      \* files with a .do file
Order      == Trees[tree].order       \* all files, by rowid
Cands      == Trees[tree].cands       \* Cands[t]: the .do files that could build t, best first
Script     == Trees[tree].script      \* Script[do][v]: what version v of the .do file runs
Phony      == Trees[tree].phony       \* targets whose script writes nothing
Flaky      == Trees[tree].flaky       \* targets whose script may fail
Commands   == Trees[tree].commands    \* what the user may type
Absent     == Trees[tree].absent      \* sources that do not exist at first
Removable  == Trees[tree].removable   \* sources the user may remove
Fixed      == Trees[tree].fixed       \* sources the user leaves alone
HandEdited == Trees[tree].handEdited  \* targets the user may overwrite
May(o)     == o \in Trees[tree].options

File == Source \cup Target \cup {Always}

files == <<fs, world, manual, adopted>>
tables == <<row, dep, saved>>
ghosts == <<sure, quiet, built>>
vars == <<fs, row, dep, saved, run, stack, world, cache, edits, manual, adopted,
          quiet, sure, built>>

(***************************************************************************)
(* Files: a stamp is mtime and size, which an override must differ in, and *)
(* the rest (inode, mode, owner).                                          *)
(***************************************************************************)
Missing == <<0, 0>>
Exists(f) == f # Always /\ fs[f].data # None
Stamp(f) == IF Exists(f) THEN <<fs[f].mtime, fs[f].ino>> ELSE Missing
DetectOverrideAny(a, b) == a # b  \* mutant: compares the whole stamp
DetectOverride(a, b) == a[1] # b[1]

Written(g, data) == [mtime |-> g.mtime + 1, ino |-> 1, data |-> data]
Removed(g) == [g EXCEPT !.data = None]

(***************************************************************************)
(* Rows of Files (File::set_* and update_stamp).                           *)
(***************************************************************************)
Blank == [gen |-> FALSE, over |-> FALSE, checked |-> 0, changed |-> 0, failed |-> 0,
          stamp |-> None, csum |-> None]

SetChangedNext(r) == [r EXCEPT !.changed = run + 1, !.failed = 0, !.over = FALSE]  \* mutant
SetChanged(r) == [r EXCEPT !.changed = run, !.failed = 0, !.over = FALSE]

UpdateStamp(r, f) == IF r.stamp = Stamp(f) THEN r ELSE SetChanged([r EXCEPT !.stamp = Stamp(f)])

SetFailed(r, f) == [UpdateStamp(r, f) EXCEPT !.failed = run, !.gen = Exists(f)]
SetStatic(r, f) == [UpdateStamp(r, f) EXCEPT !.failed = 0, !.over = FALSE, !.gen = FALSE]
SetOverride(r, f) == [UpdateStamp(r, f) EXCEPT !.failed = 0, !.over = TRUE]

(* File::from_row: //ALWAYS has changed in every run. *)
FromRow(rw, f) == IF f = Always /\ rw[f].changed < run THEN [rw[f] EXCEPT !.changed = run] ELSE rw[f]

(***************************************************************************)
(* Rows of Deps.                                                           *)
(***************************************************************************)
AddDeps(d, t, mode, fseq) ==
    [d EXCEPT ![t] = [f \in DOMAIN @ \cup ToSet(fseq) |->
                        IF f \in ToSet(fseq) THEN [mode |-> mode, del |-> FALSE] ELSE @[f]]]
AddDep(d, t, mode, f) == AddDeps(d, t, mode, <<f>>)

ZapDeps1(d, t) == [d EXCEPT ![t] = [f \in DOMAIN @ |-> [@[f] EXCEPT !.del = TRUE]]]
ZapDeps2(d, t) == [d EXCEPT ![t] = [f \in {g \in DOMAIN @ : ~@[g].del} |-> @[f]]]

(* The files of S by rowid: the order of a query of Deps, and the order in *)
(* which redo-unlocked gets its arguments.                                 *)
InOrder(S) ==
    LET sel[i \in 0..Len(Order)] ==
          IF i = 0 THEN <<>>
          ELSE IF Order[i] \in S THEN Append(sel[i - 1], Order[i]) ELSE sel[i - 1]
    IN  sel[Len(Order)]

(* File::deps: an overridden file or a source has none. *)
DepsOf(r, t) == IF r.over \/ ~r.gen THEN <<>> ELSE InOrder(DOMAIN dep[t])

(* A dependency that changed after this run is news to r's target. *)
MaxChangedNow(r) == run  \* mutant
MaxChanged(r) == IF r.changed > r.checked THEN r.changed ELSE r.checked

(***************************************************************************)
(* isdirty: the verdict, the checksummed files that must be rebuilt first, *)
(* the files found clean so far, and those found with another stamp than   *)
(* the recorded one.                                                       *)
(***************************************************************************)
Answer(v, must, done, stale) == [v |-> v, must |-> must, done |-> done, stale |-> stale]

IsDirty[f \in File, mx \in Nat, done \in SUBSET File, stale \in SUBSET File] ==
    LET r == FromRow(row, f)
        (* One dependency d of f after those that gave b; dirt ends the loop. *)
        Scan(b, d) ==
            LET c == IF dep[f][d].mode = "m" THEN IsDirty[d, MaxChanged(r), b.done, b.stale]
                     ELSE Answer(IF Exists(d) THEN "dirty" ELSE "clean", {}, b.done, b.stale)
            IN  IF b.v # "clean" THEN b
                ELSE IF c.v # "dirty" THEN Answer("clean", b.must \cup c.must, c.done, c.stale)
                ELSE IF r.csum = None THEN Answer("dirty", {}, c.done, c.stale)
                ELSE Answer("must", {f}, c.done, c.stale)
    IN  IF r.failed # 0 \/ r.changed = 0 \/ r.changed > mx THEN Answer("dirty", {}, done, stale)
        ELSE IF f \in done \/ r.checked >= run THEN Answer("clean", {}, done, stale)
        ELSE IF r.stamp = None THEN Answer("dirty", {}, done, stale)
        ELSE IF r.stamp # Stamp(f)
             THEN IF r.csum = None THEN Answer("dirty", {}, done, stale \cup {f})
                  ELSE Answer("must", {f}, done, stale \cup {f})
        ELSE LET a == FoldLeft(Scan, Answer("clean", {}, done, stale), DepsOf(r, f))
             IN  IF a.v = "dirty" THEN a
                 ELSE IF a.must # {} THEN Answer("must", a.must, a.done, a.stale)
                 ELSE Answer("clean", {}, a.done \cup {f}, a.stale)

(* What a command asks. *)
IsDirtyDefault(f) == IsDirty[f, run, {}, {}]

(* What isdirty saves: set_checked_save for a clean file, and a target     *)
(* that vanished becomes a source.                                         *)
Vanished(f) == row[f].gen /\ row[f].stamp # None /\ ~Exists(f)
Scanned(a) ==
    [f \in File |-> IF f \in a.done THEN [FromRow(row, f) EXCEPT !.checked = run]
                   ELSE IF f \in a.stale /\ Vanished(f) THEN [row[f] EXCEPT !.gen = FALSE]
                   ELSE row[f]]

(***************************************************************************)
(* The stack.  A frame is a command (cmd "ifchange", "redo" or "unlocked": *)
(* redo-ifchange with REDO_UNLOCKED), a redo-unlocked process ("oob"), or  *)
(* the build of one target ("job").                                        *)
(***************************************************************************)
Cmd(c, args, me, noOob) ==
    [cmd |-> c, args |-> args, todo |-> args, rc |-> 0, me |-> me, noOob |-> noOob]

(* via: the command, or "want" for a missing dependency of a cached build. *)
Job(t, via, sf) ==
    [cmd |-> "job", t |-> t, via |-> via, sf |-> sf, pc |-> "begin", do |-> None,
     ops |-> <<>>, ins |-> {}, key |-> FALSE, want |-> <<>>, gens |-> {}]

Oob(t, list, me) == [cmd |-> "oob", t |-> t, list |-> list, me |-> me, pc |-> "deps"]

Top == Last(stack)
Put(f) == Append(Front(stack), f)
Push(f, g) == Append(Put(f), g)

(* The top process ends with status rv; the one below sees it. *)
Seen(f, rv) ==
    CASE f.cmd \in {"ifchange", "redo", "unlocked"} ->
           [f EXCEPT !.rc = IF rv = 0 THEN @ ELSE 1]
      [] f.cmd = "oob" -> [f EXCEPT !.pc = IF rv = 0 THEN (IF @ = "deps1" THEN "self" ELSE "ok") ELSE "fail"]
      [] f.cmd = "job" -> [f EXCEPT !.pc = IF rv = 0 THEN (IF @ = "wanted" THEN "want" ELSE "read")
                                           ELSE (IF @ = "wanted" THEN "nowant" ELSE "fail")]

Return(rv) ==
    LET s == Front(stack)
    IN  stack' = IF s = <<>> THEN <<>> ELSE Append(Front(s), Seen(Last(s), rv))

(* Tables: r and d become the connection's view, committed or not. *)
Commit(r, d) == row' = r /\ dep' = d /\ saved' = [row |-> r, dep |-> d]
NoCommit(r, d) == row' = r /\ dep' = d /\ UNCHANGED saved

(***************************************************************************)
(* The user.                                                               *)
(***************************************************************************)
Idle == stack = <<>>

UserStep ==
    /\ edits < MaxEdits
    /\ edits' = edits + 1
    /\ sure' = {} /\ quiet' = FALSE
    /\ UNCHANGED <<row, dep, saved, run, stack, cache, built>>

EditSource(s, v) ==
    /\ Idle \/ May("EditsInRun")
    /\ s \in Source \ Fixed
    /\ v # fs[s].data /\ (v = None => s \in Removable)
    /\ fs' = [fs EXCEPT ![s] = IF v = None THEN Removed(@) ELSE Written(@, v)]
    /\ UserStep
    /\ UNCHANGED <<world, manual, adopted>>

(* The user overwrites a target, or removes it. *)
EditTarget(t, v) ==
    /\ Idle
    /\ t \in Target \ Phony
    /\ IF v = None THEN Exists(t) ELSE t \in HandEdited
    /\ fs' = [fs EXCEPT ![t] = IF v = None THEN Removed(@) ELSE Written(@, v)]
    /\ manual' = IF v = None THEN manual \ {t} ELSE manual \cup {t}
    /\ adopted' = adopted \ {t}
    /\ UserStep
    /\ UNCHANGED world

(* chmod, or a copy that keeps the mtime. *)
TouchInode(f) ==
    /\ Idle
    /\ f \in Target /\ Exists(f) /\ fs[f].ino = 1
    /\ fs' = [fs EXCEPT ![f].ino = 2]
    /\ UserStep
    /\ UNCHANGED <<world, manual, adopted>>

ChangeWorld ==
    /\ Idle
    /\ world' \in Data \ {world}
    /\ UserStep
    /\ UNCHANGED <<fs, manual, adopted>>

(* A new run: ensure_runid, and the toplevel command. *)
StartRun(c) ==
    /\ Idle
    /\ run < MaxRuns
    /\ run' = run + 1
    /\ stack' = <<Cmd(c.cmd, c.args, None, FALSE)>>
    /\ sure' = IF c.cmd = "redo" THEN {} ELSE sure
    /\ quiet' = TRUE /\ built' = {}
    /\ UNCHANGED <<files, tables, cache, edits>>

(***************************************************************************)
(* run_ifchange and run_redo: the loop over the arguments.                 *)
(***************************************************************************)
Busy(c) == stack # <<>> /\ Top.cmd = c
Going == Top.todo # <<>> /\ (Top.rc = 0 \/ May("KeepGoing"))
Next1(f) == [f EXCEPT !.todo = Tail(@)]

Ifchange ==
    /\ \/ Busy("ifchange") \/ Busy("unlocked")
    /\ Going
    /\ LET t == Head(Top.todo)
           a == IsDirtyDefault(t)
           rw == Scanned(a)
       IN  \/ /\ a.v = "clean"
              /\ stack' = Put(Next1(Top))
              /\ Commit(rw, dep)
           \/ /\ a.v = "must" /\ Top.cmd = "ifchange" /\ ~Top.noOob /\ a.must # {t}
              /\ stack' = Push(Next1(Top), Oob(t, InOrder(a.must), Top.me))
              /\ Commit(rw, dep)
           \/ /\ a.v = "dirty" \/ (a.v = "must" /\ (Top.cmd = "unlocked" \/ Top.noOob \/ a.must = {t}))
              /\ stack' = Push(Next1(Top), Job(t, Top.cmd, rw[t]))
              /\ NoCommit(rw, dep)
    /\ UNCHANGED <<files, run, cache, edits, ghosts>>

(* redo does not ask whether the target is dirty. *)
Redo ==
    /\ Busy("redo") /\ Going
    /\ LET t == Head(Top.todo) IN
       IF Exists(t) /\ ~row[t].gen
       THEN stack' = Put(Next1(Top))
       ELSE stack' = Push(Next1(Top), Job(t, "redo", row[t]))
    /\ UNCHANGED <<files, tables, run, cache, edits, ghosts>>

(* The command ends.  If it was the toplevel one, so does the run. *)
CommandEnd ==
    /\ stack # <<>> /\ Top.cmd \in {"ifchange", "redo", "unlocked"} /\ ~Going
    /\ Return(Top.rc)
    /\ Commit(row, dep)
    /\ sure' = IF Len(stack) > 1 THEN sure
               ELSE IF Top.rc = 0 /\ quiet THEN sure \cup ToSet(Top.args) ELSE {}
    /\ UNCHANGED <<files, run, cache, edits, quiet, built>>

(***************************************************************************)
(* schedule_build_one and build_one, up to the fork.                       *)
(***************************************************************************)
JobAt(pc) == stack # <<>> /\ Top.cmd = "job" /\ Top.pc = pc

(* The user has changed a file that redo made. *)
OverriddenMarked(sf, t) == sf.gen /\ Exists(t) /\ sf.over  \* mutant: ignores the stamp
Overridden(sf, t) ==
    /\ sf.gen /\ Exists(t)
    /\ sf.over \/ (sf.stamp # None /\ DetectOverride(sf.stamp, Stamp(t)))

(* persist_new_target_intent *)
IntentLost(sf, t) == sf  \* mutant: nothing is saved
Intent(sf, t) == IF Exists(t) \/ sf.gen THEN sf ELSE [sf EXCEPT !.gen = TRUE, !.over = FALSE]

Begin ==
    /\ JobAt("begin")
    /\ LET t == Top.t
           sf == Top.sf
           over == Overridden(sf, t)
           static == ~over /\ Exists(t) /\ ~sf.gen
       IN  \/ /\ over
              /\ Commit([row EXCEPT ![t] = IF sf.over THEN sf ELSE SetOverride(sf, t)], dep)
              /\ Return(0)
           \/ /\ static
              /\ Commit([row EXCEPT ![t] = SetStatic(sf, t)], dep)
              /\ Return(0)
           \/ /\ ~over /\ ~static
              /\ LET new == Intent(sf, t) IN
                 /\ IF new # sf THEN Commit([row EXCEPT ![t] = new], dep) ELSE NoCommit(row, dep)
                 /\ stack' = Put([Top EXCEPT !.sf = new, !.pc = "find"])
    /\ UNCHANGED <<files, run, cache, edits, ghosts>>

(* The build fails before or after the script ran: the row as it was when  *)
(* the build began is marked and saved.                                    *)
Fails(d) == Commit([row EXCEPT ![Top.t] = SetFailed(Top.sf, Top.t)], d) /\ Return(1)

(* zap_deps1 and find_do_for_target.  A better .do file that is missing is *)
(* a dependency of mode c; the one used is a static source.                *)
Candidates(t) == {i \in DOMAIN Cands[t] : Exists(Cands[t][i])}
First(t) == CHOOSE i \in Candidates(t) : \A j \in Candidates(t) : i <= j

(* What must exist before the cache is asked.  The target is no override   *)
(* here (Begin has seen to that), so File::deps gives all its rows.        *)
Required(ds) == InOrder({f \in DOMAIN ds \ {Always} : ds[f].mode = "m"})

MarkDoNot(do) == row  \* mutant
MarkDo(do) == [row EXCEPT ![do] = SetStatic(@, do)]

Find ==
    /\ JobAt("find")
    /\ LET t == Top.t
           d == ZapDeps1(dep, t)
       IN  \/ /\ Candidates(t) = {}
              /\ LET e == AddDeps(d, t, "c", Cands[t]) IN
                 IF Exists(t)
                 THEN /\ Commit([row EXCEPT ![t] = SetStatic(Top.sf, t)], e)
                      /\ Return(0)
                      /\ adopted' = adopted \cup {t}
                 ELSE Fails(e) /\ UNCHANGED adopted
           \/ /\ Candidates(t) # {}
              /\ LET n   == First(t)
                     do  == Cands[t][n]
                     e   == AddDep(AddDeps(d, t, "c", SubSeq(Cands[t], 1, n - 1)), t, "m", do)
                     hit == May("CacheOn") /\ Top.via = "ifchange" /\ Top.sf.csum = None
                 IN  /\ NoCommit(MarkDo(do), e)
                     /\ stack' = Put([Top EXCEPT
                          !.do = do, !.pc = IF hit THEN "want" ELSE "exec",
                          !.want = IF hit THEN Required(e[t]) ELSE <<>>,
                          !.gens = IF hit THEN {f \in ToSet(Required(e[t])) : row[f].gen} ELSE {}])
                     /\ UNCHANGED adopted
    /\ UNCHANGED <<fs, world, manual, run, cache, edits, ghosts>>

(***************************************************************************)
(* The local action cache.                                                 *)
(***************************************************************************)

(* Before the lookup, dependencies that are missing are built, if they     *)
(* were generated when the rows were read.                                 *)
Want ==
    /\ JobAt("want") /\ Top.want # <<>>
    /\ LET d == Head(Top.want)
           j == [Top EXCEPT !.want = Tail(@)]
       IN  \/ /\ Exists(d)
              /\ stack' = Put(j)
              /\ UNCHANGED tables
           \/ /\ ~Exists(d) /\ d \in Top.gens
              /\ stack' = Push([j EXCEPT !.pc = "wanted"], Job(d, "want", row[d]))
              /\ UNCHANGED tables
           \/ /\ ~Exists(d) /\ d \notin Top.gens
              /\ Fails(dep)
    /\ UNCHANGED <<files, run, cache, edits, ghosts>>

(* compute_action_key_v0: the dependencies and their stamps. *)
Key(d, t) == {<<d[t][f].mode, f, Stamp(f)>> : f \in DOMAIN d[t]}

Cacheable(d, t) == Always \notin DOMAIN d[t]

Entries(d, t) == {e \in cache : e.t = t /\ e.key = Key(d, t)}

(* Lookup; on a hit the old output is renamed into place. *)
Lookup ==
    /\ JobAt("want") /\ Top.want = <<>>
    /\ LET t == Top.t IN
       \/ /\ ~Cacheable(dep, t) \/ Entries(dep, t) = {}
          /\ stack' = Put([Top EXCEPT !.pc = "exec", !.key = Cacheable(dep, t)])
          /\ UNCHANGED <<fs, manual, adopted>>
       \/ /\ Cacheable(dep, t)
          /\ \E e \in Entries(dep, t) :
                /\ fs' = [fs EXCEPT ![t] = Written(@, e.data)]
                /\ manual' = manual \ {t} /\ adopted' = adopted \ {t}
                /\ stack' = Put([Top EXCEPT !.pc = "hit"])
    /\ UNCHANGED <<world, tables, run, cache, edits, ghosts>>

HitRecord ==
    /\ JobAt("hit")
    /\ LET t == Top.t
           r == [row[t] EXCEPT !.gen = TRUE, !.over = FALSE, !.failed = 0, !.csum = None]
       IN  Commit([row EXCEPT ![t] = UpdateStamp(r, t)],
                  [dep EXCEPT ![t] = [f \in DOMAIN @ |-> [@[f] EXCEPT !.del = FALSE]]])
    /\ Return(0)
    /\ UNCHANGED <<files, run, cache, edits, ghosts>>

(* After a build (action_cache::store): the first entry for a key stays. *)
Store(t, d) ==
    IF Top.key /\ Exists(t) /\ Cacheable(d, t) /\ Entries(d, t) = {}
    THEN cache \cup {[t |-> t, key |-> Key(d, t), data |-> fs[t].data]}
    ELSE cache

(***************************************************************************)
(* The script and what it calls.                                           *)
(***************************************************************************)
Stamped(t) == Candidates(t) # {} /\ \E v \in Data : "stamp" \in {o.op : o \in ToSet(Script[Cands[t][First(t)]][v])}

(* What the script writes after it read ins. *)
Half(ins) == {<<p[1], IF p[2] = None THEN None ELSE p[2] \div 2>> : p \in ins}
Output(do, ins) ==
    IF "stamp" \in {o.op : o \in ToSet(Script[do][(CHOOSE p \in ins : p[1] = do)[2]])} THEN Half(ins) ELSE ins

Exec ==
    /\ JobAt("exec")
    /\ Commit(row, dep)
    /\ LET do == Top.do IN
       stack' = Put(IF Exists(do)
                    THEN [Top EXCEPT !.pc = "script", !.ops = Script[do][fs[do].data],
                                     !.ins = {<<do, fs[do].data>>}]
                    ELSE [Top EXCEPT !.pc = "fail"])
    /\ built' = built \cup {Top.t}
    /\ UNCHANGED <<files, run, cache, edits, sure, quiet>>

Op(o) == JobAt("script") /\ Top.ops # <<>> /\ Head(Top.ops).op = o

(* redo-ifchange records the dependencies first. *)
OpIfchange ==
    /\ Op("ifchange")
    /\ LET on == Head(Top.ops).on IN
       /\ Commit(row, AddDeps(dep, Top.t, "m", on))
       /\ stack' = Push([Top EXCEPT !.pc = "wait"], Cmd("ifchange", on, Top.t, FALSE))
    /\ UNCHANGED <<files, run, cache, edits, ghosts>>

(* redo-ifchange succeeded: the script reads the files. *)
OpRead ==
    /\ JobAt("read")
    /\ stack' = Put([Top EXCEPT !.pc = "script", !.ops = Tail(@),
                                !.ins = @ \cup {<<f, fs[f].data>> : f \in ToSet(Head(Top.ops).on)}])
    /\ UNCHANGED <<files, tables, run, cache, edits, ghosts>>

OpIfcreate ==
    /\ Op("ifcreate")
    /\ LET on == Head(Top.ops).on IN
       IF \E f \in ToSet(on) : Exists(f)
       THEN stack' = Put([Top EXCEPT !.pc = "fail"]) /\ UNCHANGED tables
       ELSE /\ Commit(row, AddDeps(dep, Top.t, "c", on))
            /\ stack' = Put([Top EXCEPT !.ops = Tail(@)])
    /\ UNCHANGED <<files, run, cache, edits, ghosts>>

OpAlways ==
    /\ Op("always")
    /\ Commit([row EXCEPT ![Always] = SetChanged([@ EXCEPT !.stamp = Missing, !.gen = FALSE])],
              AddDep(dep, Top.t, "m", Always))
    /\ stack' = Put([Top EXCEPT !.ops = Tail(@), !.ins = @ \cup {<<World, world>>}])
    /\ UNCHANGED <<files, run, cache, edits, ghosts>>

(* redo-stamp, given the output. *)
(* Mutants: it never, or always, says that the target has changed. *)
StampRowChecked(r, sum) ==
    [r EXCEPT !.gen = TRUE, !.over = FALSE, !.failed = 0, !.checked = run, !.csum = sum,
              !.changed = IF @ = 0 THEN run ELSE @]
StampRowChanged(r, sum) == [SetChanged(r) EXCEPT !.gen = TRUE, !.csum = sum]
StampRow(r, sum) ==
    LET g == [r EXCEPT !.gen = TRUE, !.over = FALSE, !.failed = 0]
    IN  IF r.csum # sum THEN [SetChanged(g) EXCEPT !.csum = sum] ELSE [g EXCEPT !.checked = run]

OpStamp ==
    /\ Op("stamp")
    /\ Commit([row EXCEPT ![Top.t] = StampRow(@, Output(Top.do, Top.ins))], dep)
    /\ stack' = Put([Top EXCEPT !.ops = Tail(@)])
    /\ UNCHANGED <<files, run, cache, edits, ghosts>>

(***************************************************************************)
(* After the script.                                                       *)
(***************************************************************************)

(* The output is renamed into place; no output: the target is removed. *)
Rename ==
    /\ JobAt("script") /\ Top.ops = <<>>
    /\ fs' = [fs EXCEPT ![Top.t] = IF Top.t \in Phony THEN Removed(@)
                                   ELSE Written(@, Output(Top.do, Top.ins))]
    /\ manual' = manual \ {Top.t} /\ adopted' = adopted \ {Top.t}
    /\ stack' = Put([Top EXCEPT !.pc = "record"])
    /\ UNCHANGED <<world, tables, run, cache, edits, ghosts>>

(* The new state of the row; redo-stamp may have set changed or checked. *)
RecordedForced(r, t) ==  \* mutant: always set_changed
    SetChanged(UpdateStamp([r EXCEPT !.gen = TRUE, !.over = FALSE], t))
Recorded(r, t) ==
    LET g == [r EXCEPT !.gen = TRUE, !.over = FALSE]
    IN  IF g.checked >= run \/ g.changed >= run
        THEN [g EXCEPT !.stamp = Stamp(t)]
        ELSE SetChanged(UpdateStamp([g EXCEPT !.csum = None], t))

Record ==
    /\ JobAt("record")
    /\ LET t == Top.t
           d == ZapDeps2(dep, t)
           r == Recorded(row[t], t)
       IN  /\ Commit([row EXCEPT ![t] = r], d)
           /\ cache' = IF r.csum = None THEN Store(t, d) ELSE cache
    /\ Return(0)
    /\ UNCHANGED <<files, run, edits, ghosts>>

(* The script fails. *)
ScriptFails ==
    /\ JobAt("script") /\ Top.t \in Flaky
    /\ stack' = Put([Top EXCEPT !.pc = "fail"])
    /\ UNCHANGED <<files, tables, run, cache, edits, ghosts>>

RecordFailure ==
    /\ \/ JobAt("fail") /\ Fails(ZapDeps2(dep, Top.t))
       \/ JobAt("nowant") /\ Fails(dep)
    /\ UNCHANGED <<files, run, cache, edits, ghosts>>

(* The captured output cannot be copied.  build_one then removes the       *)
(* target; the other path leaves it.                                       *)
CopyFails ==
    /\ JobAt("script") /\ Top.ops = <<>> /\ Top.t \in Flaky \ Phony
    /\ Top.via # "ifchange"
    /\ fs' = [fs EXCEPT ![Top.t] = Removed(@)]
    /\ stack' = Put([Top EXCEPT !.pc = "uncopied"])
    /\ UNCHANGED <<world, manual, adopted, tables, run, cache, edits, ghosts>>

RecordCopyFailure ==
    /\ JobAt("uncopied")
    /\ Commit([row EXCEPT ![Top.t] = SetFailed(Recorded(Top.sf, Top.t), Top.t)], ZapDeps2(dep, Top.t))
    /\ Return(1)
    /\ UNCHANGED <<files, run, cache, edits, ghosts>>

(***************************************************************************)
(* redo-unlocked: the checksummed files first, then the target.            *)
(***************************************************************************)
OobAt(pc) == stack # <<>> /\ Top.cmd = "oob" /\ Top.pc = pc

OobDeps ==
    /\ OobAt("deps")
    /\ Commit(row, IF Top.me = None THEN dep ELSE AddDeps(dep, Top.me, "m", Top.list))
    /\ stack' = Push([Top EXCEPT !.pc = "deps1"], Cmd("ifchange", Top.list, Top.me, TRUE))
    /\ UNCHANGED <<files, run, cache, edits, ghosts>>

OobSelf ==
    /\ OobAt("self")
    /\ stack' = Push([Top EXCEPT !.pc = "self1"], Cmd("unlocked", <<Top.t>>, Top.me, TRUE))
    /\ UNCHANGED <<files, tables, run, cache, edits, ghosts>>

OobEnd ==
    /\ OobAt("ok") \/ OobAt("fail")
    /\ Return(IF Top.pc = "ok" THEN 0 ELSE 1)
    /\ UNCHANGED <<files, tables, run, cache, edits, ghosts>>

(***************************************************************************)
(* Everything is killed; what was not committed is lost.                   *)
(***************************************************************************)
InWindow == (JobAt("record") \/ JobAt("hit")) /\ row[Top.t].stamp # None

Crash ==
    /\ May("Crashes") /\ ~Idle
    /\ InWindow => May("LostRecord")
    /\ stack' = <<>>
    /\ row' = saved.row /\ dep' = saved.dep
    /\ sure' = {}
    /\ UNCHANGED <<files, saved, run, cache, edits, quiet, built>>

Init ==
    /\ tree \in DOMAIN Trees
    /\ fs = [f \in Source \cup Target |->
               [mtime |-> 1, ino |-> 1,
                data |-> IF f \in Source \ Absent THEN 0 ELSE None]]
    /\ row = [f \in File |-> Blank]
    /\ dep = [f \in Source \cup Target |-> <<>>]
    /\ saved = [row |-> row, dep |-> dep]
    /\ run = 0
    /\ stack = <<>>
    /\ world = 0
    /\ cache = {}
    /\ edits = 0
    /\ manual = {}
    /\ adopted = {}
    /\ quiet = TRUE
    /\ sure = {}
    /\ built = {}

User ==
    \/ \E s \in Source, v \in Data \cup {None} : EditSource(s, v)
    \/ \E t \in Target, v \in {Hand, None} : EditTarget(t, v)
    \/ \E t \in Target : TouchInode(t)
    \/ ChangeWorld
    \/ \E c \in Commands : StartRun(c)

Build ==
    \/ Ifchange \/ Redo \/ CommandEnd
    \/ Begin \/ Find \/ Want \/ Lookup \/ HitRecord \/ Exec
    \/ OpIfchange \/ OpRead \/ OpIfcreate \/ OpAlways \/ OpStamp
    \/ Rename \/ Record \/ ScriptFails \/ RecordFailure \/ CopyFails \/ RecordCopyFailure
    \/ OobDeps \/ OobSelf \/ OobEnd

(* Nobody types anything. *)
Rest == Idle /\ UNCHANGED vars

Next == (User \/ Build \/ Crash \/ Rest) /\ UNCHANGED tree

Spec == Init /\ [][Next]_<<vars, tree>>

-----------------------------------------------------------------------------
(* Types; in particular no row of Files carries a runid of the future.     *)
TypeOK ==
    /\ \A f \in Source \cup Target :
         /\ fs[f].mtime \in Nat /\ fs[f].ino \in {1, 2}
         /\ f \in Source => fs[f].data \in Data \cup {None}
    /\ DOMAIN row = File
    /\ \A f \in File :
         /\ row[f].gen \in BOOLEAN /\ row[f].over \in BOOLEAN
         /\ {row[f].checked, row[f].changed, row[f].failed} \subseteq 0..run
    /\ \A t \in Source \cup Target :
         /\ DOMAIN dep[t] \subseteq File
         /\ \A f \in DOMAIN dep[t] : dep[t][f].mode \in {"m", "c"} /\ dep[t][f].del \in BOOLEAN
    /\ DOMAIN saved.row = File /\ DOMAIN saved.dep = DOMAIN dep
    /\ run \in 0..MaxRuns /\ edits \in 0..MaxEdits
    /\ world \in Data
    /\ manual \cup built \subseteq Target /\ sure \cup adopted \subseteq File

(***************************************************************************)
(* What a build from nothing would give.                                   *)
(***************************************************************************)
Ops(t) == LET do == Cands[t][First(t)] IN Script[do][fs[do].data]
AskedFor(t) == UNION {ToSet(o.on) : o \in {x \in ToSet(Ops(t)) : x.op = "ifchange"}}
Buildable(t) == t \in Target \ (manual \cup adopted) /\ Candidates(t) # {}

Fresh[f \in Source \cup Target] ==
    IF ~Buildable(f) THEN fs[f].data
    ELSE IF f \in Phony THEN None
    ELSE LET do == Cands[f][First(f)]
         IN  Output(do, {<<do, fs[do].data>>}
                        \cup {<<g, Fresh[g]>> : g \in AskedFor(f)}
                        \cup (IF \E o \in ToSet(Ops(f)) : o.op = "always" THEN {<<World, world>>} ELSE {}))

Needs[f \in Source \cup Target] ==
    IF ~Buildable(f) THEN {f} ELSE {f} \cup UNION {Needs[g] : g \in AskedFor(f)}

(* Soundness of isdirty: a redo-ifchange or redo that reports success, with *)
(* no edit since it began, leaves every target it was asked for, and       *)
(* everything below it, as a build from nothing would.                     *)
UpToDate ==
    Idle => \A t \in sure : \A f \in Needs[t] : fs[f].data = Fresh[f]

(* redo never takes its own output for something the user wrote: neither   *)
(* as an override (detect_override) nor as a source (set_static).          *)
NotMistaken ==
    Idle => \A t \in Target : Exists(t) /\ (row[t].over \/ ~row[t].gen) => t \in manual \cup adopted

(* What the user wrote over a target is never overwritten: neither a       *)
(* rename after a build nor a cache hit replaces it.                       *)
HandWorkKept ==
    [][\A t \in manual : t \notin manual' => fs'[t].data = None /\ Idle]_vars

(* Scripts that look at the world are run every time, and so are those     *)
(* that read their output, unless it is checksummed.                       *)
Volatile[t \in Source \cup Target] ==
    /\ Buildable(t)
    /\ \/ \E o \in ToSet(Ops(t)) : o.op = "always"
       \/ \E g \in AskedFor(t) : Volatile[g] /\ ~Stamped(g)

(* Minimality of isdirty: redo-ifchange of what is known to be done runs   *)
(* no other script.                                                        *)
NothingTwice ==
    ~Idle /\ stack[1].cmd = "ifchange" /\ ToSet(stack[1].args) \subseteq sure
       => \A t \in built : Volatile[t]

(* What redo-stamp is for.                                                 *)
(* A target that asks only for checksummed targets is not rebuilt because  *)
(* these were, if they came out as before: redo-ifchange runs its script   *)
(* only if one of them has other contents than it was built from, or will, *)
(* its file was touched, or something failed.                              *)
Sealed(t) == Buildable(t) /\ AskedFor(t) # {} /\ \A g \in AskedFor(t) : Stamped(g)

ChecksumStops ==
    [][\A t \in built' \ built :
         Sealed(t) /\ Top.via # "redo" =>
            \/ row[t].stamp # Stamp(t) \/ row[t].failed # 0
            \/ \E g \in AskedFor(t) : ~({<<g, fs[g].data>>, <<g, Fresh[g]>>} \subseteq fs[t].data)
            \/ \E g \in AskedFor(t) : row[g].failed # 0]_vars
=============================================================================
