----------------------------- MODULE RemoteBuild -----------------------------
(***************************************************************************)
(* Workspaces that build one target through the action cache, the remote   *)
(* artifact cache and remote execution (builder.rs, remote_cache.rs,       *)
(* redo_remote_exec.rs), all against one redo-cache-server (CacheServer).  *)
(*                                                                         *)
(* In every workspace the target's script runs `redo-ifchange src` and     *)
(* writes an output made from src.  Scripts need not be deterministic: an  *)
(* output is the input it was made from and a tag.  Every request can      *)
(* fail, be refused or time out; every answer can be lost or come too      *)
(* late.                                                                   *)
(***************************************************************************)
EXTENDS CacheServer, FiniteSetsExt

CONSTANTS Client,   \* workspaces
          Input,    \* contents src can have
          Tag,      \* ways one run of the script can differ from another
          Setups    \* the situations to look at:
    \*   options  how the server may be started
    \*   inputs   the first content of each source
    \*   deps     whether each target has recorded dependencies
    \*   tags, remoteTags   what each script's runs, here and on the server, give
    \*   remote   workspaces with REDO_REMOTE_EXEC
    \*   pushing  workspaces with REDO_ACTION_CACHE_REMOTE_PUSH
    \*   lossy    writes that may fail unnoticed: "deps" (the server's blob of
    \*            the deps file), "flag" (the remote-ok file), "copy" (the
    \*            server's copies of the inputs)
    \*   builds, edits, crashes, rot   bounds on the builds of each workspace,
    \*            the edits, server crashes and corrupted blobs

VARIABLES cl,      \* cl[c]: the build of workspace c
          src,     \* src[c]: content of the source
          stamp,   \* stamp[c]: its stamp, a new one after every edit
          deps,    \* deps[c]: TRUE when src is a recorded dependency of the target
          out,     \* out[c]: the target, or None
          status,  \* status[c]: what the last build reported; "none" after an edit
          local,   \* local[c]: the local action cache, stamp of src -> output
          edits, setup
buildVars == <<cl, src, stamp, deps, out, status, local, edits, setup>>
vars == <<serverVars, buildVars>>

Output == Input \X Tag

(* The blobs of this system.  A manifest names the output blob it is for. *)
In(i)    == [kind |-> "in",  of |-> <<i>>]
Out(o)   == [kind |-> "out", of |-> o]
Man(o)   == [kind |-> "man", of |-> o]
DepsSrc  == [kind |-> "deps", of |-> <<"src">>]
Trace    == [kind |-> "trace", of |-> <<>>]
DoFile   == [kind |-> "do", of |-> <<>>]
Blobs    == {In(i) : i \in Input} \cup {Out(o) : o \in Output}
              \cup {Man(o) : o \in Output} \cup {DepsSrc, Trace, DoFile}

(* Mutant of KeyFor: the key holds the dependencies' names only. *)
KeyForNames(r, d, i) == <<r, IF d THEN CHOOSE j \in Input : TRUE ELSE "unkeyed">>

(* compute_action_key_v1_remote hashes the policy, which tells a workspace *)
(* with remote execution (r) from one without, and the contents of the     *)
(* recorded dependencies: of src, or of nothing but the .do file.          *)
Unkeyed == "unkeyed"
Keys == BOOLEAN \X (Input \cup {Unkeyed})
KeyFor(r, d, i) == <<r, IF d THEN i ELSE Unkeyed>>
KeyOf(c) == KeyFor(c \in setup.remote, deps[c], src[c])

(* compute_action_key_v0 hashes the stamps of the same dependencies. *)
LocalKeys == 0..setup.edits + 1
LocalKeyFor(d, s) == IF d THEN s ELSE 0
LocalKeyOf(c) == LocalKeyFor(deps[c], stamp[c])

(* An ExecResponse: exit code, manifest and deps file of the run. *)
Results == [exit : {"ok", "failed"}, man : {Man(o) : o \in Output} \cup {None},
            deps : {DepsSrc, None}]

(* The server's blobs, keys and results are this system's; an input that   *)
(* is in use does not rot.                                                 *)
ASSUME BuildAssumption ==
    /\ Blob = Blobs /\ Key = Keys /\ Result = Results
    /\ Unkeyed \notin Input /\ None \notin Output
    /\ Handler \subseteq Nat \ {0}
    /\ \A b \in Perishable : b.kind \in {"out", "man"}
    /\ \A s \in Setups : /\ s.options \subseteq [readOnly : BOOLEAN, exec : BOOLEAN]
                          /\ s.tags \in [Client -> SUBSET Tag] /\ s.remoteTags \subseteq Tag
                          /\ s.builds \in [Client -> Nat] /\ s.edits \in Nat

(* want: the blob to fetch or push next; tmp: the output fetched or made;  *)
(* out0 and flag: src is in deps.out0, the remote-ok file exists; db: the  *)
(* script declared src in the database; conn: the connection of a PUT or   *)
(* POST under way, or 0; builds: how many were started.                    *)
Idle == [pc |-> "idle", want |-> None, tmp |-> None, out0 |-> FALSE, flag |-> FALSE,
         db |-> FALSE, conn |-> 0, builds |-> 0]
PCs == {"idle", "local", "getA", "getM", "getO", "start", "upload", "post", "getDeps",
        "getTrace", "getM2", "getO2", "script", "finish", "pushO", "pushM", "pushA"}

TypeOK == /\ ServerTypeOK
          /\ cl \in [Client -> [pc : PCs, want : Blob \cup {None}, tmp : Output \cup {None},
                                out0 : BOOLEAN, flag : BOOLEAN, db : BOOLEAN,
                                conn : Handler \cup {0}, builds : Nat]]
          /\ src \in [Client -> Input] /\ deps \in [Client -> BOOLEAN]
          /\ stamp \in [Client -> 1..edits + 1]
          /\ out \in [Client -> Output \cup {None}]
          /\ status \in [Client -> {"none", "ok", "failed"}]
          /\ local \in [Client -> [LocalKeys -> Output \cup {None}]]
          /\ edits \in 0..setup.edits /\ setup \in Setups

(* Workspaces may have been built before: dependencies can be recorded. *)
Init == /\ ServerInit
        /\ cl = [c \in Client |-> Idle]
        /\ setup \in Setups
        /\ src \in [Client -> Input] /\ \A c \in Client : src[c] \in setup.inputs[c]
        /\ deps \in [Client -> BOOLEAN] /\ \A c \in Client : deps[c] \in setup.deps[c]
        /\ options \in setup.options
        /\ out = [c \in Client |-> None]
        /\ status = [c \in Client |-> "none"]
        /\ local = [c \in Client |-> [k \in LocalKeys |-> None]]
        /\ stamp = [c \in Client |-> 1]
        /\ edits = 0
-----------------------------------------------------------------------------
At(c, pc)   == cl[c].pc = pc
Step(c, r)  == cl' = [cl EXCEPT ![c] = r]
Go(c, pc)   == Step(c, [cl[c] EXCEPT !.pc = pc])
End(c)      == Step(c, [Idle EXCEPT !.builds = cl[c].builds])
Kept(v)     == UNCHANGED <<serverVars, v>>
State       == <<src, stamp, deps, out, status, local, edits, setup>>

(* action_cache::store keeps an entry that is there; errors are ignored. *)
Store(c, o) == \/ local' = [local EXCEPT ![c][LocalKeyOf(c)] = IF @ = None THEN o ELSE @]
               \/ UNCHANGED local

(* schedule_build_one starts: it removes the target's old deps.out0 and    *)
(* remote-ok files, and $3.                                                *)
Start(c) ==
    /\ At(c, "idle") /\ cl[c].builds < setup.builds[c]
    /\ Step(c, [Idle EXCEPT !.pc = "local", !.builds = cl[c].builds + 1])
    /\ status' = [status EXCEPT ![c] = "none"]
    /\ Kept(<<src, stamp, deps, out, local, edits, setup>>)

(* The file is in place and recorded; the dependencies are the old ones. *)
Installed(c, o) == /\ out' = [out EXCEPT ![c] = o]
                   /\ status' = [status EXCEPT ![c] = "ok"]
                   /\ End(c)
                   /\ UNCHANGED <<src, stamp, deps, edits, setup>>

(* The local cache: a hit ends the build; a failure to copy or rename it   *)
(* leads to the script, a miss to the remote cache.  An entry may have     *)
(* been removed by then to keep the cache within its size.                 *)
LookupLocal(c) ==
    /\ At(c, "local")
    /\ LET hit == local[c][LocalKeyOf(c)] IN
       \/ hit # None /\ Installed(c, hit) /\ UNCHANGED local
       \/ hit # None /\ Go(c, "start") /\ UNCHANGED State
       \/ /\ Go(c, "getA")
          /\ local' = [local EXCEPT ![c][LocalKeyOf(c)] = None]
          /\ UNCHANGED <<src, stamp, deps, out, status, edits, setup>>
    /\ UNCHANGED serverVars

(* The remote cache: mapping, manifest, output.  Whatever goes wrong, the  *)
(* script is run instead.                                                  *)
GetAction(c) ==
    /\ At(c, "getA")
    /\ \/ /\ Mapped(KeyOf(c)) # None
          /\ Step(c, [cl[c] EXCEPT !.pc = "getM", !.want = Mapped(KeyOf(c))])
       \/ Go(c, "start")
    /\ Kept(State)

(* get_blob_bytes_verified, download_blob_to_file_verified *)
Fetched(b) == Served(b) = b

(* Mutant of GetManifest: a manifest that is missing fails the build. *)
GetManifestStrict(c) ==
    /\ At(c, "getM")
    /\ IF Fetched(cl[c].want)
         THEN /\ Step(c, [cl[c] EXCEPT !.pc = "getO", !.want = Out(cl[c].want.of)])
              /\ UNCHANGED State
         ELSE /\ status' = [status EXCEPT ![c] = "failed"] /\ End(c)
              /\ UNCHANGED <<src, stamp, deps, out, local, edits, setup>>
    /\ UNCHANGED serverVars

GetManifest(c) ==
    /\ At(c, "getM")
    /\ \/ /\ Fetched(cl[c].want)
          /\ Step(c, [cl[c] EXCEPT !.pc = "getO", !.want = Out(cl[c].want.of)])
       \/ Go(c, "start")
    /\ Kept(State)

GetOutput(c) ==
    /\ At(c, "getO")
    /\ \/ /\ Fetched(cl[c].want)
          /\ Installed(c, cl[c].want.of)
          /\ Store(c, cl[c].want.of)
       \/ Go(c, "start") /\ UNCHANGED State
    /\ UNCHANGED serverVars
-----------------------------------------------------------------------------
(* No hit: a job is started, redo-remote-exec where remote execution is    *)
(* wanted, the script where it is not.                                     *)
StartJob(c) ==
    /\ At(c, "start")
    /\ IF c \in setup.remote THEN Step(c, [cl[c] EXCEPT !.pc = "upload", !.want = DoFile])
                              ELSE Go(c, "script")
    /\ Kept(State)

(* Mutant of Timeout: the client's streams have no timeout. *)
TimeoutNever(c) == FALSE

(* A request on the lowest free connection of the server; its answer; and  *)
(* the client's timeout, after which the server's thread goes on.          *)
Slots == {x \in Handler : handler[x] = Free}
Waiting(c) == cl[c].conn # 0
Send(c, r) == /\ ~Waiting(c) /\ Slots # {}
              /\ Connect(Min(Slots), r)
              /\ Step(c, [cl[c] EXCEPT !.conn = Min(Slots)])
              /\ UNCHANGED State
Answered200(c) == /\ Waiting(c) /\ handler[cl[c].conn].code = "200"
                  /\ Collect(cl[c].conn)
Refused(c)  == /\ Waiting(c) /\ handler[cl[c].conn].code # "200"
               /\ Collect(cl[c].conn)
Timeout(c)  == Waiting(c) /\ Abandon(cl[c].conn)
NoConnection(c) == ~Waiting(c) /\ UNCHANGED serverVars
Unanswered(c)   == NoConnection(c) \/ Refused(c) \/ Timeout(c)
Hangup(c, pc)   == Step(c, [cl[c] EXCEPT !.pc = pc, !.conn = 0]) /\ UNCHANGED State

(* Every error that redo-remote-exec meets while it uploads, or after the  *)
(* answer, ends the job with status 201: the target fails and keeps only   *)
(* the dependencies declared in this build.  The deps file, once fetched,  *)
(* and the flag stay behind.                                               *)
Fail(c) == /\ status' = [status EXCEPT ![c] = "failed"]
           /\ deps' = [deps EXCEPT ![c] = cl[c].db]
           /\ Step(c, [Idle EXCEPT !.builds = cl[c].builds, !.flag = cl[c].flag,
                                   !.out0 = cl[c].out0 /\ ~At(c, "getDeps")])
           /\ UNCHANGED <<src, stamp, out, local, edits, setup>>

(* The inputs: the .do file, and src where it is a recorded dependency. *)
Inputs(c) == IF deps[c] THEN {DoFile, In(src[c])} ELSE {DoFile}

Upload(c) ==
    /\ At(c, "upload")
    /\ \/ Send(c, [op |-> "putB", name |-> cl[c].want, body |-> cl[c].want])
       \/ /\ Answered200(c) /\ cl[c].want = DoFile /\ deps[c]
          /\ Step(c, [cl[c] EXCEPT !.want = In(src[c]), !.conn = 0]) /\ UNCHANGED State
       \/ Answered200(c) /\ ~(cl[c].want = DoFile /\ deps[c]) /\ Hangup(c, "post")
       \/ Unanswered(c) /\ Fail(c)

(* POST /v1/exec: without a usable answer the script is run here. *)
Post(c) ==
    /\ At(c, "post")
    /\ LET res == handler[cl[c].conn].res IN
       \/ Send(c, [op |-> "exec", inputs |-> Inputs(c)])
       \/ /\ Answered200(c) /\ res.exit = "ok"
          /\ Step(c, [cl[c] EXCEPT !.pc = "getDeps", !.conn = 0, !.out0 = (res.deps # None),
                                   !.want = res.man])
          /\ UNCHANGED State
       \/ Answered200(c) /\ res.exit # "ok" /\ Hangup(c, "script")
       \/ Unanswered(c) /\ Hangup(c, "script")

(* Mutant of GetDeps: a deps file that cannot be fetched counts as empty. *)
GetDepsLenient(c) ==
    /\ At(c, "getDeps")
    /\ \E got \in BOOLEAN : Step(c, [cl[c] EXCEPT !.pc = "getTrace", !.out0 = @ /\ got])
    /\ Kept(State)

(* The deps file: fetched, or written empty when the server has none. *)
GetDeps(c) ==
    /\ At(c, "getDeps")
    /\ \/ (cl[c].out0 => Fetched(DepsSrc)) /\ Go(c, "getTrace") /\ UNCHANGED State
       \/ cl[c].out0 /\ Fail(c)
    /\ UNCHANGED serverVars

(* The trace; then, unless there is no output, the remote-ok flag. *)
GetTrace(c) ==
    /\ At(c, "getTrace")
    /\ \/ /\ Fetched(Trace) /\ cl[c].want = None
          /\ Go(c, "script") /\ UNCHANGED State
       \/ /\ Fetched(Trace) /\ cl[c].want # None
          /\ \E f \in {TRUE} \cup {FALSE : x \in setup.lossy \cap {"flag"}} :
               Step(c, [cl[c] EXCEPT !.pc = "getM2", !.flag = f])
          /\ UNCHANGED State
       \/ Fail(c)
    /\ UNCHANGED serverVars

FetchManifest(c) ==
    /\ At(c, "getM2")
    /\ \/ /\ Fetched(cl[c].want)
          /\ Step(c, [cl[c] EXCEPT !.pc = "getO2", !.want = Out(cl[c].want.of)])
          /\ UNCHANGED State
       \/ Fail(c)
    /\ UNCHANGED serverVars

FetchOutput(c) ==
    /\ At(c, "getO2")
    /\ \/ /\ Fetched(cl[c].want)
          /\ Step(c, [cl[c] EXCEPT !.pc = "finish", !.tmp = cl[c].want.of])
          /\ UNCHANGED State
       \/ Fail(c)
    /\ UNCHANGED serverVars
-----------------------------------------------------------------------------
(* The script runs here and declares src in the state database. *)
Script(c) ==
    /\ At(c, "script")
    /\ \E t \in setup.tags[c] : Step(c, [cl[c] EXCEPT !.pc = "finish", !.tmp = <<src[c], t>>, !.db = TRUE])
    /\ Kept(State)

(* The job's callback: rename, dependencies of deps.out0 if the flag is    *)
(* there, those not declared in this build dropped, commit; then the local *)
(* cache, under the key of what is recorded now.  An entry that is there   *)
(* stays, and it is the entry that is pushed.                              *)
Finish(c) ==
    /\ At(c, "finish")
    /\ LET now   == cl[c].db \/ (cl[c].flag /\ cl[c].out0)
           key   == LocalKeyFor(now, stamp[c])
           entry == IF local[c][key] = None THEN cl[c].tmp ELSE local[c][key] IN
       /\ out' = [out EXCEPT ![c] = cl[c].tmp]
       /\ status' = [status EXCEPT ![c] = "ok"]
       /\ deps' = [deps EXCEPT ![c] = now]
       /\ \/ /\ local' = [local EXCEPT ![c][key] = entry]
             /\ IF c \in setup.pushing
                  THEN Step(c, [Idle EXCEPT !.pc = "pushO", !.want = Out(entry),
                                            !.builds = cl[c].builds])
                  ELSE End(c)
          \/ UNCHANGED local /\ End(c)
    /\ UNCHANGED <<src, stamp, edits, setup>> /\ UNCHANGED serverVars

(* The push: output, manifest, mapping.  No result is looked at. *)
PushRequest(c) ==
    CASE At(c, "pushO") -> [op |-> "putB", name |-> cl[c].want, body |-> cl[c].want]
      [] At(c, "pushM") -> [op |-> "putB", name |-> Man(cl[c].want.of), body |-> Man(cl[c].want.of)]
      [] OTHER          -> [op |-> "putA", key |-> KeyOf(c), man |-> Man(cl[c].want.of)]
Push(c) ==
    /\ cl[c].pc \in {"pushO", "pushM", "pushA"}
    /\ \/ Send(c, PushRequest(c))
       \/ /\ Answered200(c) \/ Unanswered(c)
          /\ CASE At(c, "pushO") -> Hangup(c, "pushM")
               [] At(c, "pushM") -> Hangup(c, "pushA")
               [] OTHER          -> End(c) /\ UNCHANGED State
-----------------------------------------------------------------------------
(* The server's side of POST /v1/exec.  redo-ifchange there only records   *)
(* its arguments, and fails when the file was not uploaded.  Where inputs  *)
(* are cut short, the script may do anything.                              *)
RunRemotely(x) ==
    LET cut  == handler[x].tmp = Bad
        read == {i \in Input : cut \/ In(i) \in handler[x].req.inputs} IN
    \/ Execute(x, {Trace}, [exit |-> "failed", man |-> None, deps |-> None])
    \/ /\ handler[x].pc = "run"
       /\ \E i \in read, t \in setup.remoteTags :
            \/ Execute(x, {Out(<<i, t>>), Man(<<i, t>>), DepsSrc, Trace},
                          [exit |-> "ok", man |-> Man(<<i, t>>), deps |-> DepsSrc])
            \/ Execute(x, {Out(<<i, t>>), DepsSrc, Trace},
                          [exit |-> "ok", man |-> None, deps |-> DepsSrc])
            \/ /\ "deps" \in setup.lossy \/ cut
               /\ Execute(x, {Out(<<i, t>>), Man(<<i, t>>), Trace},
                             [exit |-> "ok", man |-> Man(<<i, t>>), deps |-> None])

(* The user edits src between builds (before the first, Init has done so). *)
Edit(c) ==
    /\ At(c, "idle") /\ edits < setup.edits
    /\ 0 < cl[c].builds /\ cl[c].builds < setup.builds[c]
    /\ edits' = edits + 1
    /\ \E i \in Input \ {src[c]} : src' = [src EXCEPT ![c] = i]
    /\ stamp' = [stamp EXCEPT ![c] = @ + 1]
    /\ status' = [status EXCEPT ![c] = "none"]
    /\ Kept(<<cl, deps, out, local, setup>>)

ClientStep(c) == \/ LookupLocal(c) \/ GetAction(c) \/ GetManifest(c) \/ GetOutput(c)
                 \/ StartJob(c) \/ Upload(c) \/ Post(c) \/ GetDeps(c) \/ GetTrace(c)
                 \/ FetchManifest(c) \/ FetchOutput(c) \/ Script(c) \/ Finish(c) \/ Push(c)

ServerStep == \/ \E x \in Handler : HandlerStep(x) \/ RunRemotely(x)
              \/ "copy" \in setup.lossy /\ \E x \in Handler : CopyFails(x)
              \/ crashes < setup.crashes /\ Crash
              \/ Cardinality(rotten) < setup.rot /\ \E b \in Blob : Rot(b)

Next == \/ \E c \in Client : Start(c) \/ ClientStep(c) \/ Edit(c)
        \/ ServerStep /\ UNCHANGED buildVars

Spec == Init /\ [][Next]_vars

(* A client that is building goes on: its own steps never wait for the     *)
(* server longer than the stream's timeout.  Nothing is asked of the       *)
(* server.                                                                 *)
FairSpec == Spec /\ \A c \in Client : WF_vars(ClientStep(c))
-----------------------------------------------------------------------------
(* What a build reported as done left the output of the source it was      *)
(* asked to build, wherever that output came from: the script, either      *)
(* cache or a remote run, over truncated, corrupted, late or repeated      *)
(* transfers (schedule_build_one, redo_remote_exec.rs); unless the server  *)
(* could not copy the inputs it was sent, which it does not notice.        *)
OutputOfSource == \A c \in Client : status[c] = "ok" => \/ out[c][1] = src[c]
                                                       \/ "copy" \in setup.lossy

(* ... and the dependency its script declared is recorded, so that a       *)
(* later change of src leads to a rebuild (the callback in                 *)
(* schedule_build_one, read_deps_out0), unless the server could not copy   *)
(* the inputs or store the deps file, or the client its flag: none of it   *)
(* is noticed.                                                             *)
DepsRecorded == \A c \in Client : status[c] = "ok" => deps[c] \/ setup.lossy # {}

(* The caches never fail a build that the script could do: without remote  *)
(* execution every failure of the server ends in a local run               *)
(* (remote_cache.rs).                                                      *)
CacheFallsBack == \A c \in Client \ setup.remote : status[c] # "failed"

(* Every build ends, even when the server never answers. *)
BuildsEnd == \A c \in Client : ~At(c, "idle") ~> At(c, "idle")
=============================================================================
