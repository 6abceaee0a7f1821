---------------------------- MODULE CacheServer ----------------------------
(***************************************************************************)
(* redo-cache-server: one thread per connection over a directory of blobs, *)
(* named by their digest, and a directory of action files.  No thread      *)
(* locks anything; what makes the store safe is that files are written     *)
(* under a private name and renamed.                                       *)
(*                                                                         *)
(* A digest stands for the content it is the digest of, so a blob b is     *)
(* intact when the file named b holds b; Bad is any other content (a body  *)
(* cut off by a broken connection, a file the disk corrupted).  GET        *)
(* requests change nothing and are one read of one file, so they need no   *)
(* thread here.  Requests no client of this repository sends (bad digests, *)
(* unknown paths) are left out.                                            *)
(***************************************************************************)
EXTENDS Naturals, FiniteSets

CONSTANTS Handler,     \* connections the server can have at once
          Blob, Key,   \* digests and action keys
          Perishable,  \* blobs whose file the disk may corrupt
          Result,      \* what POST /v1/exec can report
          None, Bad,
          MaxCrashes, MaxRot   \* bounds

VARIABLES file,     \* file[b]: content of blobs/../b, or None
          actions,  \* actions[k]: the manifest digest in actions/../k, or None
          handler,  \* handler[x]: the thread that serves connection x
          options,  \* --read-only, --enable-exec
          rotten,   \* history: the blobs the disk corrupted
          crashes   \* how often the server was killed and restarted

serverVars == <<file, actions, handler, options, rotten, crashes>>

PutBlob   == [op : {"putB"}, name : Blob, body : Blob \cup {Bad}]
PutAction == [op : {"putA"}, key : Key, man : Blob]
PostExec  == [op : {"exec"}, inputs : SUBSET Blob]
Request   == PutBlob \cup PutAction \cup PostExec

Codes == {"200", "400", "403", "404", "409", "err"}

ASSUME ServerAssumption == /\ None \notin Blob \cup {Bad} /\ Bad \notin Blob
                           /\ None \notin Request \cup Codes \cup Result
                           /\ Perishable \subseteq Blob
                           /\ MaxCrashes \in Nat /\ MaxRot \in Nat

(* tmp: the content of the thread's private file, Bad also when the inputs *)
(* in the work directory of exec are not the ones sent; live: the client   *)
(* still waits for the answer; res: the body of an exec answer.            *)
Free == [pc |-> "free", req |-> None, tmp |-> None, live |-> FALSE,
         code |-> None, res |-> None]
Thread == [pc : {"free", "recv", "rename", "run", "done"},
           req : Request \cup {None}, tmp : Blob \cup {Bad, None}, live : BOOLEAN,
           code : Codes \cup {None}, res : Result \cup {None}]

ServerTypeOK == /\ file \in [Blob -> Blob \cup {Bad, None}]
                /\ actions \in [Key -> Blob \cup {None}]
                /\ handler \in [Handler -> Thread]
                /\ options \in [readOnly : BOOLEAN, exec : BOOLEAN]
                /\ rotten \subseteq Blob
                /\ crashes \in 0..MaxCrashes

ServerInit == /\ file = [b \in Blob |-> None]
              /\ actions = [k \in Key |-> None]
              /\ handler = [x \in Handler |-> Free]
              /\ options \in [readOnly : BOOLEAN, exec : BOOLEAN]
              /\ rotten = {}
              /\ crashes = 0
-----------------------------------------------------------------------------
(* handle_one starts with the request line and headers of a new connection. *)
Connect(x, r) ==
    /\ handler[x] = Free
    /\ handler' = [handler EXCEPT ![x] = [Free EXCEPT !.pc = "recv", !.req = r, !.live = TRUE]]
    /\ UNCHANGED <<file, actions, options, rotten, crashes>>

(* GET: handle_get_blob sends what the file holds, unread, and             *)
(* handle_get_action the manifest digest; None is 404.                     *)
Served(b) == file[b]
Mapped(k) == actions[k]

(* The answer is written; a client that has given up does not get it. *)
Answered(h, code) == IF h.live THEN [h EXCEPT !.pc = "done", !.code = code] ELSE Free
Answer(x, code) == handler' = [handler EXCEPT ![x] = Answered(@, code)]
Goto(x, pc)     == handler' = [handler EXCEPT ![x].pc = pc]

(* Mutant of Refuse: a code the client's parser does not know. *)
RefuseMethod(x) ==
    /\ handler[x].pc = "recv" /\ options.readOnly /\ Answer(x, "405")
    /\ UNCHANGED <<file, actions, options, rotten, crashes>>

(* PUT and POST are refused by a --read-only server (or without its bearer *)
(* token); exec also where it is not enabled or bwrap is missing.  The     *)
(* client treats all answers but 200 alike, so the 404 of exec stands for  *)
(* 500 and 501 too.                                                        *)
Refuse(x) ==
    /\ handler[x].pc = "recv"
    /\ \/ options.readOnly /\ Answer(x, "403")
       \/ ~options.readOnly /\ handler[x].req.op = "exec" /\ ~options.exec /\ Answer(x, "404")
    /\ UNCHANGED <<file, actions, options, rotten, crashes>>

Serving(x, op, pc) == /\ handler[x].pc = pc /\ handler[x].req.op = op
                      /\ ~options.readOnly
                      /\ UNCHANGED <<options, rotten, crashes>>

(* Mutant of ReceiveBlob: the digest of the body is not compared. *)
ReceiveBlobUnverified(x) ==
    /\ Serving(x, "putB", "recv")
    /\ \E got \in {handler[x].req.body, Bad} :
         IF file[handler[x].req.name] # None THEN Answer(x, "200")
         ELSE handler' = [handler EXCEPT ![x].pc = "rename", ![x].tmp = got]
    /\ UNCHANGED <<file, actions>>

(* handle_put_blob hashes the body while it writes it to its temporary     *)
(* file (a body cut short ends the loop like a complete one), compares the *)
(* digest, then looks whether the blob is there already.                   *)
ReceiveBlob(x) ==
    /\ Serving(x, "putB", "recv")
    /\ \E got \in {handler[x].req.body, Bad} :
         CASE got # handler[x].req.name           -> Answer(x, "400")
           [] file[handler[x].req.name] # None    -> Answer(x, "200")
           [] OTHER -> handler' = [handler EXCEPT ![x].pc = "rename", ![x].tmp = got]
    /\ UNCHANGED <<file, actions>>

(* The rename takes effect; the directories are synced and the answer is   *)
(* sent.  A client that times out, or a server killed, in between is the   *)
(* same to everybody as one that does so with the answer on its way.       *)
RenameBlob(x) ==
    /\ Serving(x, "putB", "rename")
    /\ file' = [file EXCEPT ![handler[x].req.name] = handler[x].tmp]
    /\ Answer(x, "200")
    /\ UNCHANGED actions

(* Mutant of Compare: an existing mapping is taken for this one. *)
CompareBlind(x) == Answer(x, "200")

(* handle_put_action: an existing file decides at once. *)
Compare(x) == LET r == handler[x].req IN
              Answer(x, IF actions[r.key] = r.man THEN "200" ELSE "409")
CheckAction(x) ==
    /\ Serving(x, "putA", "recv")
    /\ IF actions[handler[x].req.key] = None THEN Goto(x, "rename") ELSE Compare(x)
    /\ UNCHANGED <<file, actions>>

(* rename(2) replaces whatever is there, so it does not tell the thread    *)
(* that another one was first.                                             *)
RenameAction(x) ==
    /\ Serving(x, "putA", "rename")
    /\ actions' = [actions EXCEPT ![handler[x].req.key] = handler[x].req.man]
    /\ Answer(x, "200")
    /\ UNCHANGED file

(* The rename fails although the file is there: what is there decides.     *)
(* Where nothing is there, the thread aborts.                              *)
RenameFails(x) ==
    /\ \/ Serving(x, "putB", "rename") /\ file[handler[x].req.name] # None /\ Answer(x, "200")
       \/ Serving(x, "putA", "rename") /\ actions[handler[x].req.key] # None /\ Compare(x)
    /\ UNCHANGED <<file, actions>>

(* handle_post_exec copies the inputs out of the store into a fresh work   *)
(* directory, without looking at their digest.                             *)
Materialize(x) ==
    /\ Serving(x, "exec", "recv") /\ options.exec
    /\ IF \E b \in handler[x].req.inputs : file[b] = None
         THEN Answer(x, "400") ELSE Goto(x, "run")
    /\ UNCHANGED <<file, actions>>

(* ... or without looking whether the copy succeeds: the script will find  *)
(* some input missing or cut short.                                        *)
CopyFails(x) ==
    /\ Serving(x, "exec", "recv") /\ options.exec
    /\ \A b \in handler[x].req.inputs : file[b] # None
    /\ handler' = [handler EXCEPT ![x].pc = "run", ![x].tmp = Bad]
    /\ UNCHANGED <<file, actions>>

(* The script has run: what it left is stored, unless it is there already, *)
(* and reported.                                                           *)
Execute(x, new, res) ==
    /\ Serving(x, "exec", "run")
    /\ file' = [b \in Blob |-> IF b \in new /\ file[b] = None THEN b ELSE file[b]]
    /\ handler' = [handler EXCEPT ![x] = Answered([@ EXCEPT !.res = res], "200")]
    /\ UNCHANGED actions

(* An I/O error or the 30 s timeout of the stream: handle_one returns Err, *)
(* the thread ends and closes the connection without an answer.            *)
Abort(x) ==
    /\ handler[x].pc \in {"recv", "rename", "run"}
    /\ Answer(x, "err")
    /\ UNCHANGED <<file, actions, options, rotten, crashes>>
-----------------------------------------------------------------------------
(* The client reads the answer, or gives up waiting for it; the thread of  *)
(* a client that gave up goes on.                                          *)
Collect(x) ==
    /\ handler[x].pc = "done"
    /\ handler' = [handler EXCEPT ![x] = Free]
    /\ UNCHANGED <<file, actions, options, rotten, crashes>>

Abandon(x) ==
    /\ handler[x].live
    /\ handler' = [handler EXCEPT ![x] = IF @.pc = "done" THEN Free ELSE [@ EXCEPT !.live = FALSE]]
    /\ UNCHANGED <<file, actions, options, rotten, crashes>>

(* The process is killed and started again: all threads end where they     *)
(* are, their temporary files stay behind under names nobody looks up.     *)
Crash ==
    /\ crashes < MaxCrashes
    /\ \E x \in Handler : handler[x].pc # "free"
    /\ crashes' = crashes + 1
    /\ handler' = [x \in Handler |->
                     IF handler[x].pc \in {"free", "done"} THEN handler[x]
                     ELSE Answered(handler[x], "err")]
    /\ UNCHANGED <<file, actions, options, rotten>>

(* The disk corrupts a stored blob. *)
Rot(b) ==
    /\ Cardinality(rotten) < MaxRot /\ b \in Perishable
    /\ file[b] = b
    /\ file' = [file EXCEPT ![b] = Bad]
    /\ rotten' = rotten \cup {b}
    /\ UNCHANGED <<actions, handler, options, crashes>>

HandlerStep(x) == \/ Refuse(x) \/ ReceiveBlob(x) \/ RenameBlob(x)
                  \/ CheckAction(x) \/ RenameAction(x) \/ RenameFails(x)
                  \/ Materialize(x) \/ Abort(x)

(* The server among any clients. *)
ServerNext == \/ \E x \in Handler : \/ \E r \in Request : Connect(x, r)
                                    \/ HandlerStep(x) \/ CopyFails(x)
                                    \/ \E new \in SUBSET Blob, res \in Result : Execute(x, new, res)
                                    \/ Collect(x) \/ Abandon(x)
              \/ Crash
              \/ \E b \in Blob : Rot(b)

ServerSpec == ServerInit /\ [][ServerNext]_serverVars
-----------------------------------------------------------------------------
(* Whatever is cut off, abandoned, killed or done twice at once, the file  *)
(* under a digest holds the content of that digest, until the disk itself  *)
(* corrupts it (handle_put_blob, store_blob_bytes_known).                  *)
BlobIntegrity == \A b \in Blob : file[b] \in {None, b} \/ b \in rotten

(* A mapping that is there is never replaced (handle_put_action: "Race:    *)
(* first writer won; enforce immutability").                               *)
MappingKept == [][\A k \in Key : actions[k] # None => actions'[k] = actions[k]]_serverVars

(* The threads together implement a service whose requests take effect at  *)
(* one moment each and whose answers are true (handle_put_blob,            *)
(* handle_put_action, handle_post_exec).                                   *)
Service == INSTANCE CacheService
             WITH stored  <- {b \in Blob : file[b] # None},
                  mapping <- actions,
                  request <- [x \in Handler |-> handler[x].req],
                  answer  <- [x \in Handler |-> handler[x].code]
ImplementsService == Service!Spec
=============================================================================
