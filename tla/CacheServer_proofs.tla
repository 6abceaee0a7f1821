------------------------- MODULE CacheServer_proofs -------------------------
(***************************************************************************)
(* Proofs about redo-cache-server among any clients: its store is never    *)
(* corrupted by what its threads do, and the threads implement the         *)
(* abstract service.                                                       *)
(***************************************************************************)
EXTENDS CacheServer, TLAPS

(* A thread in the middle of a request has one, and has not answered; the  *)
(* private file it is about to rename has passed the digest check.         *)
ThreadOK(h) ==
    /\ h.pc = "free" => h = Free
    /\ h.pc \in {"recv", "rename", "run"} => h.req \in Request /\ h.code = None
    /\ h.pc = "done" => h.req \in Request /\ h.code \in Codes
    /\ h.pc = "rename" /\ h.req.op = "putB" => h.tmp = h.req.name

TypesOK == /\ file \in [Blob -> Blob \cup {Bad, None}]
           /\ actions \in [Key -> Blob \cup {None}]
           /\ handler \in [Handler -> Thread]
           /\ rotten \subseteq Blob

ServerInv == /\ TypesOK
             /\ \A x \in Handler : ThreadOK(handler[x])
             /\ BlobIntegrity

(* A request is one of the three kinds, and only its kind. *)
LEMMA RequestKinds ==
    ASSUME NEW r \in Request
    PROVE  /\ r.op = "putB" => r \in PutBlob
           /\ r.op = "putA" => r \in PutAction
           /\ r.op = "exec" => r \in PostExec
           /\ r.op \in {"putB", "putA", "exec"}
           /\ r # None
BY ServerAssumption DEF Request, PutBlob, PutAction, PostExec

(* Writing an answer leaves a thread that has answered, or none.           *)
LEMMA AnsweredOK ==
    ASSUME NEW h \in Thread, h.req \in Request, NEW code \in Codes
    PROVE  Answered(h, code) \in Thread /\ ThreadOK(Answered(h, code))
BY DEF Answered, Thread, ThreadOK, Free

(* The server starts in the invariant. *)
LEMMA InitInv == ServerInit => ServerInv
BY DEF ServerInit, ServerInv, TypesOK, ThreadOK, BlobIntegrity, Thread, Free

(* One thread changes, into a good one. *)
LEMMA OneThread ==
    ASSUME ServerInv, NEW x \in Handler, NEW h \in Thread, ThreadOK(h),
           handler' = [handler EXCEPT ![x] = h]
    PROVE  handler' \in [Handler -> Thread] /\ \A y \in Handler : ThreadOK(handler'[y])
BY DEF ServerInv, TypesOK

(* One thread in the middle of a request answers it. *)
LEMMA AnswerThread ==
    ASSUME ServerInv, NEW x \in Handler, handler[x].pc \in {"recv", "rename", "run"},
           NEW code \in Codes, Answer(x, code)
    PROVE  handler' \in [Handler -> Thread] /\ \A y \in Handler : ThreadOK(handler'[y])
<1>1. handler[x] \in Thread /\ handler[x].req \in Request
  BY DEF ServerInv, TypesOK, ThreadOK
<1>2. handler' = [handler EXCEPT ![x] = Answered(handler[x], code)]
  BY DEF Answer, ServerInv, TypesOK
<1> QED BY <1>1, <1>2, AnsweredOK, OneThread

(* The store and the mappings are left alone. *)
LEMMA SameFiles ==
    ASSUME ServerInv, UNCHANGED <<file, actions, rotten>>,
           handler' \in [Handler -> Thread], \A y \in Handler : ThreadOK(handler'[y])
    PROVE  ServerInv'
BY DEF ServerInv, TypesOK, BlobIntegrity

(* Every step of the server keeps the invariant. *)
LEMMA NextInv == ServerInv /\ [ServerNext]_serverVars => ServerInv'
<1> SUFFICES ASSUME ServerInv, [ServerNext]_serverVars PROVE ServerInv'
  OBVIOUS
<1>t. \A x \in Handler : handler[x] \in Thread /\ ThreadOK(handler[x])
  BY DEF ServerInv, TypesOK
<1>1. ASSUME NEW x \in Handler, NEW r \in Request, Connect(x, r) PROVE ServerInv'
  <2> DEFINE h == [Free EXCEPT !.pc = "recv", !.req = r, !.live = TRUE]
  <2>1. h \in Thread /\ ThreadOK(h)
    BY RequestKinds DEF Free, Thread, ThreadOK
  <2> QED BY <1>1, <2>1, OneThread, SameFiles DEF Connect
<1>2. ASSUME NEW x \in Handler, Refuse(x) PROVE ServerInv'
  <2>1. PICK code \in {"403", "404"} : Answer(x, code)
    BY <1>2 DEF Refuse
  <2> QED BY <1>2, <2>1, AnswerThread, SameFiles DEF Refuse, Codes
<1>3. ASSUME NEW x \in Handler, ReceiveBlob(x) PROVE ServerInv'
  <2>1. handler[x].pc = "recv" /\ handler[x].req \in Request /\ handler[x].req.op = "putB"
    BY <1>3, <1>t DEF ReceiveBlob, Serving, ThreadOK
  <2>2. UNCHANGED <<file, actions, rotten>>
    BY <1>3 DEF ReceiveBlob, Serving
  <2>3. PICK got \in {handler[x].req.body, Bad} :
          \/ Answer(x, "400") \/ Answer(x, "200")
          \/ got = handler[x].req.name
             /\ handler' = [handler EXCEPT ![x].pc = "rename", ![x].tmp = got]
    BY <1>3 DEF ReceiveBlob
  <2>4. CASE Answer(x, "400") \/ Answer(x, "200")
    BY <2>1, <2>2, <2>4, AnswerThread, SameFiles DEF Codes
  <2>5. CASE got = handler[x].req.name
             /\ handler' = [handler EXCEPT ![x].pc = "rename", ![x].tmp = got]
    <3> DEFINE h == [[handler[x] EXCEPT !.pc = "rename"] EXCEPT !.tmp = got]
    <3>1. got \in Blob
      BY <2>1, <2>5, RequestKinds DEF PutBlob
    <3>2. h \in Thread /\ ThreadOK(h)
      BY <2>1, <2>5, <3>1, <1>t DEF Thread, ThreadOK
    <3>3. handler' = [handler EXCEPT ![x] = h]
      BY <2>5, <1>t DEF Thread, ServerInv, TypesOK
    <3> QED BY <2>2, <3>2, <3>3, OneThread, SameFiles
  <2> QED BY <2>3, <2>4, <2>5
<1>4. ASSUME NEW x \in Handler, RenameBlob(x) PROVE ServerInv'
  <2>1. /\ handler[x].pc = "rename" /\ handler[x].req \in Request /\ handler[x].req.op = "putB"
        /\ handler[x].tmp = handler[x].req.name
    BY <1>4, <1>t DEF RenameBlob, Serving, ThreadOK
  <2>2. handler[x].req.name \in Blob
    BY <2>1, RequestKinds DEF PutBlob
  <2>3. handler' \in [Handler -> Thread] /\ \A y \in Handler : ThreadOK(handler'[y])
    BY <1>4, <2>1, AnswerThread DEF RenameBlob, Codes
  <2>4. /\ file' = [file EXCEPT ![handler[x].req.name] = handler[x].req.name]
        /\ UNCHANGED <<actions, rotten>>
    BY <1>4, <2>1 DEF RenameBlob, Serving
  <2> QED BY <2>2, <2>3, <2>4 DEF ServerInv, TypesOK, BlobIntegrity
<1>5. ASSUME NEW x \in Handler, CheckAction(x) PROVE ServerInv'
  <2>1. handler[x].pc = "recv" /\ handler[x].req \in Request /\ handler[x].req.op = "putA"
    BY <1>5, <1>t DEF CheckAction, Serving, ThreadOK
  <2>2. UNCHANGED <<file, actions, rotten>>
    BY <1>5 DEF CheckAction, Serving
  <2>3. CASE Compare(x)
    BY <2>1, <2>2, <2>3, AnswerThread, SameFiles DEF Compare, Codes
  <2>4. CASE Goto(x, "rename")
    <3> DEFINE h == [handler[x] EXCEPT !.pc = "rename"]
    <3>1. h \in Thread /\ ThreadOK(h)
      BY <2>1, <1>t DEF Thread, ThreadOK
    <3>2. handler' = [handler EXCEPT ![x] = h]
      BY <2>4, <1>t DEF Goto, Thread, ServerInv, TypesOK
    <3> QED BY <2>2, <3>1, <3>2, OneThread, SameFiles
  <2> QED BY <1>5, <2>3, <2>4 DEF CheckAction
<1>6. ASSUME NEW x \in Handler, RenameAction(x) PROVE ServerInv'
  <2>1. handler[x].pc = "rename" /\ handler[x].req \in Request /\ handler[x].req.op = "putA"
    BY <1>6, <1>t DEF RenameAction, Serving, ThreadOK
  <2>2. handler[x].req.key \in Key /\ handler[x].req.man \in Blob
    BY <2>1, RequestKinds DEF PutAction
  <2>3. handler' \in [Handler -> Thread] /\ \A y \in Handler : ThreadOK(handler'[y])
    BY <1>6, <2>1, AnswerThread DEF RenameAction, Codes
  <2> QED BY <1>6, <2>2, <2>3 DEF RenameAction, Serving, ServerInv, TypesOK, BlobIntegrity
<1>7. ASSUME NEW x \in Handler, RenameFails(x) PROVE ServerInv'
  <2>1. handler[x].pc = "rename" /\ UNCHANGED <<file, actions, rotten>>
    BY <1>7 DEF RenameFails, Serving
  <2>2. \E code \in Codes : Answer(x, code)
    BY <1>7 DEF RenameFails, Compare, Codes
  <2> QED BY <2>1, <2>2, AnswerThread, SameFiles
<1>8. ASSUME NEW x \in Handler, Materialize(x) PROVE ServerInv'
  <2>1. handler[x].pc = "recv" /\ handler[x].req \in Request /\ handler[x].req.op = "exec"
    BY <1>8, <1>t DEF Materialize, Serving, ThreadOK
  <2>2. UNCHANGED <<file, actions, rotten>>
    BY <1>8 DEF Materialize, Serving
  <2>3. CASE Answer(x, "400")
    BY <2>1, <2>2, <2>3, AnswerThread, SameFiles DEF Codes
  <2>4. CASE Goto(x, "run")
    <3> DEFINE h == [handler[x] EXCEPT !.pc = "run"]
    <3>1. h \in Thread /\ ThreadOK(h)
      BY <2>1, <1>t DEF Thread, ThreadOK
    <3>2. handler' = [handler EXCEPT ![x] = h]
      BY <2>4, <1>t DEF Goto, Thread, ServerInv, TypesOK
    <3> QED BY <2>2, <3>1, <3>2, OneThread, SameFiles
  <2> QED BY <1>8, <2>3, <2>4 DEF Materialize
<1>16. ASSUME NEW x \in Handler, CopyFails(x) PROVE ServerInv'
  <2>1. handler[x].pc = "recv" /\ handler[x].req \in Request /\ handler[x].req.op = "exec"
    BY <1>16, <1>t DEF CopyFails, Serving, ThreadOK
  <2>2. UNCHANGED <<file, actions, rotten>>
    BY <1>16 DEF CopyFails, Serving
  <2> DEFINE h == [[handler[x] EXCEPT !.pc = "run"] EXCEPT !.tmp = Bad]
  <2>3. h \in Thread /\ ThreadOK(h)
    BY <2>1, <1>t DEF Thread, ThreadOK
  <2>4. handler' = [handler EXCEPT ![x] = h]
    BY <1>16, <1>t DEF CopyFails, Thread, ServerInv, TypesOK
  <2> QED BY <2>2, <2>3, <2>4, OneThread, SameFiles
<1>9. ASSUME NEW x \in Handler, NEW new \in SUBSET Blob, NEW res \in Result, Execute(x, new, res)
      PROVE  ServerInv'
  <2> DEFINE g == [handler[x] EXCEPT !.res = res]
  <2>1. g \in Thread /\ g.req \in Request
    BY <1>9, <1>t DEF Execute, Serving, Thread, ThreadOK
  <2>2. Answered(g, "200") \in Thread /\ ThreadOK(Answered(g, "200"))
    BY <2>1, AnsweredOK DEF Codes
  <2>3. handler' = [handler EXCEPT ![x] = Answered(g, "200")]
    BY <1>9 DEF Execute, ServerInv, TypesOK
  <2>4. handler' \in [Handler -> Thread] /\ \A y \in Handler : ThreadOK(handler'[y])
    BY <2>2, <2>3, OneThread
  <2> QED BY <1>9, <2>4 DEF Execute, Serving, ServerInv, TypesOK, BlobIntegrity
<1>10. ASSUME NEW x \in Handler, Abort(x) PROVE ServerInv'
  BY <1>10, AnswerThread, SameFiles DEF Abort, Codes
<1>11. ASSUME NEW x \in Handler, Collect(x) PROVE ServerInv'
  <2>1. Free \in Thread /\ ThreadOK(Free)
    BY DEF Free, Thread, ThreadOK
  <2> QED BY <1>11, <2>1, OneThread, SameFiles DEF Collect
<1>12. ASSUME NEW x \in Handler, Abandon(x) PROVE ServerInv'
  <2> DEFINE h == IF handler[x].pc = "done" THEN Free ELSE [handler[x] EXCEPT !.live = FALSE]
  <2>1. h \in Thread /\ ThreadOK(h)
    <3>1. CASE handler[x].pc = "done"
      BY <3>1 DEF Free, Thread, ThreadOK
    <3>2. CASE handler[x].pc # "done"
      <4>1. handler[x].pc \in {"recv", "rename", "run"}
        BY <1>12, <3>2, <1>t DEF Abandon, Free, Thread, ThreadOK
      <4> QED BY <3>2, <4>1, <1>t DEF Thread, ThreadOK
    <3> QED BY <3>1, <3>2
  <2>2. handler' = [handler EXCEPT ![x] = h]
    BY <1>12 DEF Abandon, ServerInv, TypesOK
  <2> QED BY <1>12, <2>1, <2>2, OneThread, SameFiles DEF Abandon
<1>13. ASSUME Crash PROVE ServerInv'
  <2>1. ASSUME NEW y \in Handler PROVE handler'[y] \in Thread /\ ThreadOK(handler'[y])
    <3>1. CASE handler[y].pc \in {"free", "done"}
      BY <1>13, <3>1, <1>t DEF Crash
    <3>2. CASE handler[y].pc \notin {"free", "done"}
      <4>1. handler[y].req \in Request /\ handler[y] \in Thread
        BY <3>2, <1>t DEF Thread, ThreadOK
      <4>2. handler'[y] = Answered(handler[y], "err")
        BY <1>13, <3>2 DEF Crash
      <4> QED BY <4>1, <4>2, AnsweredOK DEF Codes
    <3> QED BY <3>1, <3>2
  <2>2. handler' \in [Handler -> Thread]
    BY <1>13, <2>1 DEF Crash
  <2> QED BY <1>13, <2>1, <2>2, SameFiles DEF Crash
<1>14. ASSUME NEW b \in Blob, Rot(b) PROVE ServerInv'
  BY <1>14 DEF Rot, ServerInv, TypesOK, BlobIntegrity
<1>15. CASE UNCHANGED serverVars
  BY <1>15 DEF serverVars, ServerInv, TypesOK, BlobIntegrity
<1> QED BY <1>1, <1>2, <1>3, <1>4, <1>5, <1>6, <1>7, <1>8, <1>9, <1>10, <1>11, <1>12, <1>13,
           <1>14, <1>15, <1>16 DEF ServerNext, HandlerStep

(* The invariant holds of the server among any clients. *)
THEOREM ServerCorrect == ServerSpec => []ServerInv
BY InitInv, NextInv, PTL DEF ServerSpec

(* Whatever bodies are cut off, connections abandoned, threads killed or   *)
(* blobs sent twice at once, and for any number of threads and crashes,    *)
(* the file under a digest holds the content of that digest until the disk *)
(* corrupts it (handle_put_blob, store_blob_bytes_known).                  *)
THEOREM StoreIntact == ServerSpec => []BlobIntegrity
<1>1. ServerInv => BlobIntegrity
  BY DEF ServerInv
<1> QED BY <1>1, ServerCorrect, PTL

-----------------------------------------------------------------------------
(* The refinement: a thread answers at the moment its request takes effect. *)
Asking(x) == /\ handler[x].pc \in {"recv", "rename", "run"}
             /\ handler[x].req \in Request /\ handler[x].code = None

(* Writing an answer is telling it, to the client or to nobody.             *)
LEMMA AnswerTells ==
    ASSUME ServerInv, NEW x \in Handler, Asking(x), NEW code \in Codes,
           handler' \in [Handler -> Thread],
           \A y \in Handler \ {x} : handler'[y].req = handler[y].req /\ handler'[y].code = handler[y].code,
           \/ handler'[x].req = handler[x].req /\ handler'[x].code = code
           \/ handler'[x] = Free
    PROVE  Service!Tell(x, code)
<1>1. CASE handler'[x].req = handler[x].req /\ handler'[x].code = code
  <2>1. [y \in Handler |-> handler'[y].code]
          = [[y \in Handler |-> handler[y].code] EXCEPT ![x] = code]
    BY <1>1
  <2>2. [y \in Handler |-> handler'[y].req] = [y \in Handler |-> handler[y].req]
    BY <1>1
  <2> QED BY <2>1, <2>2 DEF Service!Tell
<1>2. CASE handler'[x] = Free
  <2>0. handler'[x].req = None /\ handler'[x].code = None
    BY <1>2 DEF Free
  <2>1. [y \in Handler |-> handler'[y].req]
          = [[y \in Handler |-> handler[y].req] EXCEPT ![x] = None]
    BY <2>0
  <2>2. [y \in Handler |-> handler'[y].code] = [y \in Handler |-> handler[y].code]
    BY <2>0 DEF Asking
  <2> QED BY <2>1, <2>2 DEF Service!Tell
<1> QED BY <1>1, <1>2

(* The answer that Answer writes. *)
LEMMA Telling ==
    ASSUME ServerInv, NEW x \in Handler, Asking(x), NEW code \in Codes, Answer(x, code)
    PROVE  Service!Tell(x, code)
<1>1. handler \in [Handler -> Thread] /\ handler[x] \in Thread
  BY DEF ServerInv, TypesOK
<1>2. handler' = [handler EXCEPT ![x] = Answered(handler[x], code)]
  BY <1>1 DEF Answer
<1>3. handler' \in [Handler -> Thread]
  BY AnswerThread DEF Asking
<1>4. \/ Answered(handler[x], code).req = handler[x].req /\ Answered(handler[x], code).code = code
      \/ Answered(handler[x], code) = Free
  BY <1>1 DEF Answered, Thread
<1> QED BY <1>1, <1>2, <1>3, <1>4, AnswerTells

(* A step that changes nothing the service shows. *)
LEMMA Silent ==
    ASSUME ServerInv,
           {b \in Blob : file'[b] # None} = {b \in Blob : file[b] # None}, UNCHANGED actions,
           \A y \in Handler : handler'[y].req = handler[y].req /\ handler'[y].code = handler[y].code
    PROVE  UNCHANGED Service!vars
BY DEF Service!vars

(* Every step of the server is one step of the service, or none. *)
LEMMA ServiceStep == ServerInv /\ [ServerNext]_serverVars => [Service!Next]_(Service!vars)
<1> SUFFICES ASSUME ServerInv, [ServerNext]_serverVars PROVE [Service!Next]_(Service!vars)
  OBVIOUS
<1>t. handler \in [Handler -> Thread]
      /\ \A x \in Handler : handler[x] \in Thread /\ ThreadOK(handler[x])
  BY DEF ServerInv, TypesOK
<1>a. \A x \in Handler : handler[x].pc \in {"recv", "rename", "run"} => Asking(x)
  BY <1>t DEF ThreadOK, Asking
<1>n. ASSUME NEW x \in Handler, Asking(x), UNCHANGED <<file, actions>>,
             \E code \in {"400", "403", "404", "err"} : Answer(x, code)
      PROVE  Service!Next
  <2>1. PICK code \in {"400", "403", "404", "err"} : Answer(x, code)
    BY <1>n
  <2>2. Service!Tell(x, code)
    BY <1>n, <2>1, Telling DEF Codes
  <2>3. Service!Apply(x)
    BY <1>n, <2>2, RequestKinds DEF Service!Apply, Asking
  <2> QED BY <2>3 DEF Service!Next
<1>1. ASSUME NEW x \in Handler, NEW r \in Request, Connect(x, r) PROVE Service!Next
  <2> DEFINE h == [Free EXCEPT !.pc = "recv", !.req = r, !.live = TRUE]
  <2>1. h.req = r /\ h.code = None /\ handler[x].req = None /\ handler[x].code = None
    BY <1>1 DEF Connect, Free
  <2>2. handler' = [handler EXCEPT ![x] = h]
    BY <1>1 DEF Connect
  <2> HIDE DEF h
  <2>3. [y \in Handler |-> handler'[y].req] = [[y \in Handler |-> handler[y].req] EXCEPT ![x] = r]
    BY <1>t, <2>1, <2>2
  <2>4. [y \in Handler |-> handler'[y].code] = [y \in Handler |-> handler[y].code]
    BY <1>t, <2>1, <2>2
  <2>5. Service!Open(x)
    BY <1>1, <2>1, <2>3, <2>4 DEF Service!Open, Connect
  <2> QED BY <2>5 DEF Service!Next
<1>2. ASSUME NEW x \in Handler, Refuse(x) PROVE Service!Next
  BY <1>2, <1>a, <1>n DEF Refuse
<1>3. ASSUME NEW x \in Handler, ReceiveBlob(x) PROVE [Service!Next]_(Service!vars)
  <2>1. Asking(x) /\ handler[x].req.op = "putB" /\ UNCHANGED <<file, actions>>
    BY <1>3, <1>a DEF ReceiveBlob, Serving
  <2>2. PICK got :
          \/ Answer(x, "400")
          \/ file[handler[x].req.name] # None /\ Answer(x, "200")
          \/ handler' = [handler EXCEPT ![x].pc = "rename", ![x].tmp = got]
    BY <1>3 DEF ReceiveBlob
  <2>3. CASE Answer(x, "400")
    BY <2>1, <2>3, <1>n
  <2>4. CASE file[handler[x].req.name] # None /\ Answer(x, "200")
    <3>1. Service!Tell(x, "200")
      BY <2>1, <2>4, Telling DEF Codes
    <3>2. handler[x].req \in PutBlob
      BY <2>1, RequestKinds DEF Asking
    <3>3. handler[x].req.name \in Blob
      BY <3>2 DEF PutBlob
    <3>4. {b \in Blob : file'[b] # None} = {b \in Blob : file[b] # None} \cup {handler[x].req.name}
      BY <2>1, <2>4, <3>3
    <3>5. Service!Apply(x)
      BY <2>1, <3>1, <3>4, RequestKinds DEF Service!Apply, Asking
    <3> QED BY <3>5 DEF Service!Next
  <2>5. CASE handler' = [handler EXCEPT ![x].pc = "rename", ![x].tmp = got]
    <3>1. \A y \in Handler : handler'[y].req = handler[y].req /\ handler'[y].code = handler[y].code
      BY <2>5, <1>t DEF Thread
    <3> QED BY <2>1, <3>1, Silent
  <2> QED BY <2>2, <2>3, <2>4, <2>5
<1>4. ASSUME NEW x \in Handler, RenameBlob(x) PROVE Service!Next
  <2>1. Asking(x) /\ handler[x].req.op = "putB" /\ UNCHANGED actions
        /\ handler[x].pc = "rename" /\ handler[x].tmp = handler[x].req.name
    BY <1>4, <1>a, <1>t DEF RenameBlob, Serving, ThreadOK
  <2>2. handler[x].req \in PutBlob
    BY <2>1, RequestKinds DEF Asking
  <2>3. handler[x].req.name \in Blob /\ handler[x].req.name # None
    BY <2>2, ServerAssumption DEF PutBlob
  <2>4. file' = [file EXCEPT ![handler[x].req.name] = handler[x].req.name]
    BY <1>4, <2>1 DEF RenameBlob
  <2>5. {b \in Blob : file'[b] # None} = {b \in Blob : file[b] # None} \cup {handler[x].req.name}
    BY <2>3, <2>4 DEF ServerInv, TypesOK
  <2>6. Service!Tell(x, "200")
    BY <1>4, <2>1, Telling DEF RenameBlob, Codes
  <2>7. Service!Apply(x)
    BY <2>1, <2>5, <2>6, RequestKinds DEF Service!Apply, Asking
  <2> QED BY <2>7 DEF Service!Next
<1>c. ASSUME NEW x \in Handler, Asking(x), handler[x].req.op = "putA", UNCHANGED <<file, actions>>,
             actions[handler[x].req.key] # None, Compare(x)
      PROVE  Service!Next
  <2>1. handler[x].req \in PutAction
    BY <1>c, RequestKinds DEF Asking
  <2>2. handler[x].req.key \in Key
    BY <2>1 DEF PutAction
  <2>3. CASE actions[handler[x].req.key] = handler[x].req.man
    <3>1. Service!Tell(x, "200")
      BY <1>c, <2>3, Telling DEF Compare, Codes
    <3>2. actions' = [actions EXCEPT ![handler[x].req.key] = handler[x].req.man]
      BY <1>c, <2>2, <2>3 DEF ServerInv, TypesOK
    <3>3. Service!Apply(x)
      BY <1>c, <3>1, <3>2, RequestKinds DEF Service!Apply, Asking
    <3> QED BY <3>3 DEF Service!Next
  <2>4. CASE actions[handler[x].req.key] # handler[x].req.man
    <3>1. Service!Tell(x, "409")
      BY <1>c, <2>4, Telling DEF Compare, Codes
    <3>2. Service!Apply(x)
      BY <1>c, <2>4, <3>1, RequestKinds DEF Service!Apply, Asking
    <3> QED BY <3>2 DEF Service!Next
  <2> QED BY <2>3, <2>4
<1>g. ASSUME NEW x \in Handler, NEW pc, Goto(x, pc), UNCHANGED <<file, actions>>
      PROVE  UNCHANGED Service!vars
  <2>1. \A y \in Handler : handler'[y].req = handler[y].req /\ handler'[y].code = handler[y].code
    BY <1>g, <1>t DEF Goto, Thread
  <2> QED BY <1>g, <2>1, Silent
<1>5. ASSUME NEW x \in Handler, CheckAction(x) PROVE [Service!Next]_(Service!vars)
  BY <1>5, <1>a, <1>c, <1>g DEF CheckAction, Serving
<1>6. ASSUME NEW x \in Handler, RenameAction(x) PROVE Service!Next
  <2>1. Asking(x) /\ handler[x].req.op = "putA" /\ UNCHANGED file
        /\ actions' = [actions EXCEPT ![handler[x].req.key] = handler[x].req.man]
    BY <1>6, <1>a DEF RenameAction, Serving
  <2>2. Service!Tell(x, "200")
    BY <1>6, <2>1, Telling DEF RenameAction, Codes
  <2>3. Service!Apply(x)
    BY <2>1, <2>2, RequestKinds DEF Service!Apply, Asking
  <2> QED BY <2>3 DEF Service!Next
<1>7. ASSUME NEW x \in Handler, RenameFails(x) PROVE Service!Next
  <2>1. Asking(x) /\ UNCHANGED <<file, actions>>
    BY <1>7, <1>a DEF RenameFails, Serving
  <2>2. CASE handler[x].req.op = "putB" /\ file[handler[x].req.name] # None /\ Answer(x, "200")
    <3>1. Service!Tell(x, "200")
      BY <2>1, <2>2, Telling DEF Codes
    <3>2. handler[x].req \in PutBlob
      BY <2>1, <2>2, RequestKinds DEF Asking
    <3>3. handler[x].req.name \in Blob
      BY <3>2 DEF PutBlob
    <3>4. {b \in Blob : file'[b] # None} = {b \in Blob : file[b] # None} \cup {handler[x].req.name}
      BY <2>1, <2>2, <3>3
    <3>5. Service!Apply(x)
      BY <2>1, <2>2, <3>1, <3>4, RequestKinds DEF Service!Apply, Asking
    <3> QED BY <3>5 DEF Service!Next
  <2> QED BY <1>7, <2>1, <2>2, <1>c DEF RenameFails, Serving
<1>8. ASSUME NEW x \in Handler, Materialize(x) PROVE [Service!Next]_(Service!vars)
  BY <1>8, <1>a, <1>n, <1>g DEF Materialize, Serving
<1>16. ASSUME NEW x \in Handler, CopyFails(x) PROVE UNCHANGED Service!vars
  <2>1. \A y \in Handler : handler'[y].req = handler[y].req /\ handler'[y].code = handler[y].code
    BY <1>16, <1>t DEF CopyFails, Thread
  <2> QED BY <1>16, <2>1, Silent DEF CopyFails
<1>9. ASSUME NEW x \in Handler, NEW new \in SUBSET Blob, NEW res \in Result, Execute(x, new, res)
      PROVE  Service!Next
  <2> DEFINE g == [handler[x] EXCEPT !.res = res]
  <2>1. Asking(x) /\ handler[x].req.op = "exec" /\ UNCHANGED actions
    BY <1>9, <1>a DEF Execute, Serving
  <2>2. g \in Thread /\ g.req = handler[x].req
    BY <1>t DEF Thread
  <2>3. handler' = [handler EXCEPT ![x] = Answered(g, "200")]
    BY <1>9, <1>t DEF Execute
  <2>4. /\ Answered(g, "200") \in Thread
        /\ \/ Answered(g, "200").req = handler[x].req /\ Answered(g, "200").code = "200"
           \/ Answered(g, "200") = Free
    <3>1. Answered(g, "200") \in Thread
      BY <2>1, <2>2, AnsweredOK DEF Asking, Codes
    <3> HIDE DEF g
    <3> QED BY <2>2, <3>1 DEF Answered, Thread
  <2> HIDE DEF g
  <2>5. /\ handler' \in [Handler -> Thread]
        /\ \A y \in Handler \ {x} : handler'[y] = handler[y]
        /\ handler'[x] = Answered(g, "200")
    BY <1>t, <2>3, <2>4
  <2>6. Service!Tell(x, "200")
    BY <2>1, <2>4, <2>5, AnswerTells DEF Codes
  <2>7. /\ {b \in Blob : file[b] # None} \subseteq {b \in Blob : file'[b] # None}
        /\ {b \in Blob : file'[b] # None} \subseteq Blob
    BY <1>9, ServerAssumption DEF Execute
  <2>8. Service!Apply(x)
    BY <2>1, <2>6, <2>7, RequestKinds DEF Service!Apply, Asking
  <2> QED BY <2>8 DEF Service!Next
<1>10. ASSUME NEW x \in Handler, Abort(x) PROVE Service!Next
  BY <1>10, <1>a, <1>n DEF Abort
<1>f. ASSUME NEW x \in Handler, UNCHANGED <<file, actions>>, handler' = [handler EXCEPT ![x] = Free]
      PROVE  Service!Next
  <2>1. Free.req = None /\ Free.code = None
    BY DEF Free
  <2>2. [y \in Handler |-> handler'[y].req]
          = [y \in Handler |-> IF y \in {x} THEN None ELSE [z \in Handler |-> handler[z].req][y]]
    BY <1>f, <1>t, <2>1
  <2>3. [y \in Handler |-> handler'[y].code]
          = [y \in Handler |-> IF y \in {x} THEN None
                               ELSE IF y \in {} THEN "err" ELSE [z \in Handler |-> handler[z].code][y]]
    BY <1>f, <1>t, <2>1
  <2>4. Service!Drop({x}, {})
    BY <1>f, <2>2, <2>3 DEF Service!Drop
  <2> QED BY <2>4 DEF Service!Next
<1>11. ASSUME NEW x \in Handler, Collect(x) PROVE Service!Next
  BY <1>11, <1>f DEF Collect
<1>12. ASSUME NEW x \in Handler, Abandon(x) PROVE [Service!Next]_(Service!vars)
  <2>1. CASE handler[x].pc = "done"
    BY <1>12, <2>1, <1>t, <1>f DEF Abandon
  <2>2. CASE handler[x].pc # "done"
    <3>1. handler' = [handler EXCEPT ![x] = [handler[x] EXCEPT !.live = FALSE]]
      BY <1>12, <2>2, <1>t DEF Abandon
    <3>2. \A y \in Handler : handler'[y].req = handler[y].req /\ handler'[y].code = handler[y].code
      BY <3>1, <1>t DEF Thread
    <3> QED BY <1>12, <3>2, Silent DEF Abandon
  <2> QED BY <2>1, <2>2
<1>13. ASSUME Crash PROVE Service!Next
  <2>a. PICK gone \in SUBSET Handler :
          gone = {x \in Handler : handler[x].pc \notin {"free", "done"} /\ ~handler[x].live}
    OBVIOUS
  <2>b. PICK lost \in SUBSET Handler :
          lost = {x \in Handler : handler[x].pc \notin {"free", "done"} /\ handler[x].live}
    OBVIOUS
  <2>1. ASSUME NEW y \in Handler
        PROVE  /\ handler'[y].req = IF y \in gone THEN None ELSE handler[y].req
               /\ handler'[y].code = IF y \in gone THEN None
                                     ELSE IF y \in lost THEN "err" ELSE handler[y].code
    <3>1. handler'[y] = IF handler[y].pc \in {"free", "done"} THEN handler[y]
                        ELSE Answered(handler[y], "err")
      BY <1>13 DEF Crash
    <3>2. handler[y] \in Thread /\ handler[y].live \in BOOLEAN
      BY <1>t DEF Thread
    <3>3. CASE handler[y].pc \in {"free", "done"}
      BY <3>1, <3>3, <2>a, <2>b
    <3>4. CASE y \in gone
      BY <3>1, <3>4, <2>a DEF Answered, Free
    <3>5. CASE y \in lost
      BY <3>1, <3>2, <3>5, <2>a, <2>b DEF Answered, Thread
    <3> QED BY <3>2, <3>3, <3>4, <3>5, <2>a, <2>b
  <2>2. [y \in Handler |-> handler'[y].req]
          = [y \in Handler |-> IF y \in gone THEN None ELSE [z \in Handler |-> handler[z].req][y]]
    BY <2>1
  <2>3. [y \in Handler |-> handler'[y].code]
          = [y \in Handler |-> IF y \in gone THEN None
                               ELSE IF y \in lost THEN "err" ELSE [z \in Handler |-> handler[z].code][y]]
    BY <2>1
  <2>4. Service!Drop(gone, lost)
    BY <1>13, <2>2, <2>3 DEF Service!Drop, Crash
  <2> QED BY <2>4 DEF Service!Next
<1>14. ASSUME NEW b \in Blob, Rot(b) PROVE UNCHANGED Service!vars
  <2>1. \A c \in Blob : file'[c] # None <=> file[c] # None
    BY <1>14, ServerAssumption DEF Rot, ServerInv, TypesOK
  <2> QED BY <1>14, <2>1, Silent DEF Rot
<1>15. CASE UNCHANGED serverVars
  BY <1>15, Silent DEF serverVars
<1> QED BY <1>1, <1>2, <1>3, <1>4, <1>5, <1>6, <1>7, <1>8, <1>9, <1>10, <1>11, <1>12, <1>13,
           <1>14, <1>15, <1>16 DEF ServerNext, HandlerStep

(* For any number of threads, requests and crashes, the unlocked threads   *)
(* over one directory implement the service whose requests take effect at  *)
(* one moment, with true answers (handle_put_blob, handle_put_action,      *)
(* handle_post_exec).                                                      *)
THEOREM ServiceRefinement == ServerSpec => ImplementsService
<1>1. ServerInit => Service!Init
  <2> SUFFICES ASSUME ServerInit PROVE Service!Init
    OBVIOUS
  <2>1. {b \in Blob : file[b] # None} = {}
    BY DEF ServerInit
  <2>2. /\ [x \in Handler |-> handler[x].req] = [x \in Handler |-> None]
        /\ [x \in Handler |-> handler[x].code] = [x \in Handler |-> None]
    BY DEF ServerInit, Free
  <2> QED BY <2>1, <2>2 DEF Service!Init, ServerInit
<1> QED BY <1>1, ServiceStep, ServerCorrect, PTL DEF ServerSpec, ImplementsService, Service!Spec
=============================================================================
