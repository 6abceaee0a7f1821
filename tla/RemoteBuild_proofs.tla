------------------------ MODULE RemoteBuild_proofs ------------------------
(***************************************************************************)
(* Proofs about workspaces that build through the action cache, the remote *)
(* cache and remote execution, for any number of workspaces, sources,      *)
(* connections, builds, edits, crashes and corrupted blobs.                *)
(***************************************************************************)
EXTENDS RemoteBuild, CacheServer_proofs, WellFoundedInduction

(* No write fails unnoticed. *)
Lossless == setup.lossy = {}

(* A mapping may be used for its key.  Nothing is ever mapped under the    *)
(* key without dependencies, because a run that succeeds has one.          *)
MapOK(k, m) == \E o \in Output : m = Man(o) /\ (Lossless => o[1] = k[2])
Mappings == \A k \in Key : actions[k] # None => MapOK(k, actions[k])

(* What the threads were asked, and what the successful runs answered: a   *)
(* script that succeeds on the server was given the source.                *)
RequestOK(r) == r.op = "putA" => MapOK(r.key, r.man)
ResultOK(r, s) == s.exit = "ok" =>
                    /\ \/ s.man = None
                       \/ \E o \in Output : s.man = Man(o) /\ (Lossless => In(o[1]) \in r.inputs)
                    /\ Lossless => s.deps # None
Asked(h) == h.req # None =>
              /\ RequestOK(h.req)
              /\ h.req.op = "exec" /\ Lossless => h.tmp # Bad
              /\ h.req.op = "exec" /\ h.code = "200" => h.res \in Result /\ ResultOK(h.req, h.res)
Threads == \A x \in Handler : Asked(handler[x])

(* A workspace that waits has a connection of its own, on which it has     *)
(* sent its request.                                                       *)
Requesting == {"upload", "post", "pushO", "pushM", "pushA"}
Connected(c) ==
    cl[c].conn # 0 =>
      /\ cl[c].pc \in Requesting
      /\ handler[cl[c].conn].live
      /\ cl[c].pc = "post" => /\ handler[cl[c].conn].req.op = "exec"
                              /\ handler[cl[c].conn].req.inputs = Inputs(c)
Connections == /\ \A c \in Client : Connected(c)
               /\ \A c, d \in Client : c # d /\ cl[c].conn # 0 => cl[c].conn # cl[d].conn

(* The local cache has under the present stamp an output of the source,    *)
(* and nothing under the stamps to come.                                   *)
LocalOK(c) == \A k \in LocalKeys : local[c][k] # None =>
                 /\ k =< stamp[c]
                 /\ Lossless => k # 0 /\ (k = stamp[c] => local[c][k][1] = src[c])

(* An output of the source, and one found under the target's present key. *)
Made(c, o)  == Lossless => o[1] = src[c]
Right(c, o) == Lossless => deps[c] /\ o[1] = src[c]

(* How far the build of workspace c has got, and what it has in hands. *)
Fetching == {"upload", "post", "getDeps", "getTrace", "getM2", "getO2"}
Progress(c, r) ==
    /\ r.pc = "getM" => \E o \in Output : r.want = Man(o) /\ Right(c, o)
    /\ r.pc \in {"getO", "pushO", "pushM", "pushA"} =>
         \E o \in Output : r.want = Out(o) /\ Right(c, o)
    /\ r.pc = "upload" => r.want \in {DoFile, In(src[c])}
    /\ r.pc \in {"getDeps", "getTrace"} =>
         /\ r.want = None \/ \E o \in Output : r.want = Man(o) /\ Made(c, o)
         /\ Lossless => r.out0
    /\ r.pc = "getM2" => \E o \in Output : r.want = Man(o) /\ Made(c, o)
    /\ r.pc = "getO2" => \E o \in Output : r.want = Out(o) /\ Made(c, o)
    /\ r.pc \in {"getM2", "getO2"} /\ Lossless => r.flag /\ r.out0
    /\ r.pc = "finish" => /\ r.tmp \in Output /\ Made(c, r.tmp)
                          /\ Lossless => r.db \/ (r.flag /\ r.out0)
    /\ r.pc \in Fetching => c \in setup.remote

(* What the last build of workspace c reported. *)
Reported(c) == /\ status[c] = "ok" /\ Lossless => deps[c] /\ out[c][1] = src[c]
               /\ status[c] = "failed" => c \in setup.remote

Workspaces == \A c \in Client : Progress(c, cl[c]) /\ LocalOK(c) /\ Reported(c)

BuildInv == TypeOK /\ ServerInv /\ Mappings /\ Threads /\ Connections /\ Workspaces
-----------------------------------------------------------------------------
(* The lowest of some numbers is one of them. *)
LEMMA MinIn ==
    ASSUME NEW S, S \subseteq Nat, S # {}
    PROVE  Min(S) \in S
<1> DEFINE R == OpToRel(<, Nat)
<1>1. \A a, b \in Nat : a < b => <<a, b>> \in R
  BY DEF OpToRel
<1>r. IsWellFoundedOn(R, Nat)
  BY NatLessThanWellFounded
<1> HIDE DEF R
<1>2. PICK a \in S : \A b \in S : ~(<<b, a>> \in R)
  BY <1>r, WFMin
<1>3. ASSUME NEW b \in S PROVE a =< b
  <2>1. a \in Nat /\ b \in Nat
    OBVIOUS
  <2>2. ~(b < a)
    BY <1>1, <1>2, <2>1, Zenon
  <2> QED BY <2>1, <2>2
<1> QED BY <1>2, <1>3 DEF Min

(* The blobs, keys and results are of the server's types. *)
LEMMA Kinds ==
    /\ \A i \in Input : In(i) \in Blob
    /\ \A o \in Output : Out(o) \in Blob /\ Man(o) \in Blob /\ Out(o).of = o /\ Man(o).of = o
    /\ DepsSrc \in Blob /\ Trace \in Blob /\ DoFile \in Blob
    /\ Key = Keys
    /\ None \notin Blob /\ None \notin Output
BY BuildAssumption, ServerAssumption DEF Blobs, In, Out, Man, DepsSrc, Trace, DoFile

(* What a thread may become while it works: nothing, if nobody waits for   *)
(* it; otherwise one with the same request, which it does not answer with  *)
(* a result.                                                               *)
Follows(h, g) == \/ g = h
                 \/ g = Free /\ ~h.live
                 \/ /\ g.req = h.req /\ g.live = h.live /\ g.res = h.res
                    /\ h.req.op = "exec" => g.tmp = h.tmp /\ (g.code = h.code \/ g.code # "200")

LEMMA FollowsAsked ==
    ASSUME NEW h, NEW g, Asked(h), Follows(h, g)
    PROVE  Asked(g)
BY DEF Asked, Follows, Free

LEMMA AnswerFollows ==
    ASSUME NEW h \in Thread, NEW code, h.req.op = "exec" => code # "200"
    PROVE  Follows(h, Answered(h, code))
BY DEF Follows, Answered, Thread

(* A step of the threads of the server, but for the end of a script. *)
LEMMA HandlerFollows ==
    ASSUME ServerInv, NEW x \in Handler, HandlerStep(x)
    PROVE  \A y \in Handler : Follows(handler[y], handler'[y])
<1> SUFFICES Follows(handler[x], handler'[x]) /\ \A y \in Handler \ {x} : handler'[y] = handler[y]
  BY DEF Follows
<1>t. handler \in [Handler -> Thread] /\ handler[x] \in Thread
  BY DEF ServerInv, TypesOK
<1>a. ASSUME NEW code, Answer(x, code), handler[x].req.op = "exec" => code # "200"
      PROVE  Follows(handler[x], handler'[x]) /\ \A y \in Handler \ {x} : handler'[y] = handler[y]
  <2>1. handler'[x] = Answered(handler[x], code)
    BY <1>a, <1>t DEF Answer
  <2> QED BY <1>a, <1>t, <2>1, AnswerFollows DEF Answer
<1>g. ASSUME NEW pc, Goto(x, pc)
      PROVE  Follows(handler[x], handler'[x]) /\ \A y \in Handler \ {x} : handler'[y] = handler[y]
  BY <1>g, <1>t DEF Goto, Follows, Thread
<1>1. CASE Refuse(x)
  <2>1. Answer(x, "403") \/ Answer(x, "404")
    BY <1>1 DEF Refuse
  <2> QED BY <2>1, <1>a
<1>2. CASE ReceiveBlob(x)
  <2>1. handler[x].req.op = "putB"
    BY <1>2 DEF ReceiveBlob, Serving
  <2>2. \/ Answer(x, "400") \/ Answer(x, "200")
        \/ \E got : handler' = [handler EXCEPT ![x].pc = "rename", ![x].tmp = got]
    BY <1>2 DEF ReceiveBlob
  <2>3. CASE \E got : handler' = [handler EXCEPT ![x].pc = "rename", ![x].tmp = got]
    BY <2>3, <1>t DEF Follows, Thread
  <2> QED BY <2>1, <2>2, <2>3, <1>a
<1>3. CASE RenameBlob(x)
  BY <1>3, <1>a DEF RenameBlob, Serving
<1>4. CASE CheckAction(x)
  <2>1. handler[x].req.op = "putA" /\ (Goto(x, "rename") \/ Compare(x))
    BY <1>4 DEF CheckAction, Serving
  <2>2. CASE Compare(x)
    BY <2>1, <2>2, <1>a DEF Compare
  <2> QED BY <2>1, <2>2, <1>g
<1>5. CASE RenameAction(x)
  BY <1>5, <1>a DEF RenameAction, Serving
<1>6. CASE RenameFails(x)
  <2>1. handler[x].req.op \in {"putB", "putA"} /\ (Answer(x, "200") \/ Compare(x))
    BY <1>6 DEF RenameFails, Serving
  <2>2. CASE Compare(x)
    BY <2>1, <2>2, <1>a DEF Compare
  <2> QED BY <2>1, <2>2, <1>a
<1>7. CASE Materialize(x)
  BY <1>7, <1>a, <1>g DEF Materialize
<1>8. CASE Abort(x)
  BY <1>8, <1>a DEF Abort
<1> QED BY <1>1, <1>2, <1>3, <1>4, <1>5, <1>6, <1>7, <1>8 DEF HandlerStep

LEMMA CrashFollows ==
    ASSUME ServerInv, Crash
    PROVE  \A y \in Handler : Follows(handler[y], handler'[y])
<1> SUFFICES ASSUME NEW y \in Handler PROVE Follows(handler[y], handler'[y])
  OBVIOUS
<1>1. handler[y] \in Thread
  BY DEF ServerInv, TypesOK
<1>2. handler'[y] = handler[y] \/ handler'[y] = Answered(handler[y], "err")
  BY DEF Crash
<1> QED BY <1>1, <1>2, AnswerFollows DEF Follows

(* The mappings of the server change by the requests of its threads. *)
LEMMA HandlerMaps ==
    ASSUME ServerInv, Mappings, Threads, NEW x \in Handler, HandlerStep(x), setup' = setup
    PROVE  Mappings'
<1>1. CASE RenameAction(x)
  <2>1. handler[x].req.op = "putA" /\ handler[x].req \in Request /\ handler[x].req # None
    BY <1>1, RequestKinds DEF RenameAction, Serving, ServerInv, ThreadOK
  <2>2. MapOK(handler[x].req.key, handler[x].req.man)
    BY <2>1 DEF Threads, Asked, RequestOK
  <2>3. actions' = [actions EXCEPT ![handler[x].req.key] = handler[x].req.man]
    BY <1>1 DEF RenameAction
  <2> QED BY <2>2, <2>3 DEF Mappings, MapOK, Lossless, ServerInv, TypesOK
<1>2. CASE UNCHANGED actions
  BY <1>2 DEF Mappings, MapOK, Lossless
<1> QED BY <1>1, <1>2 DEF HandlerStep, Refuse, ReceiveBlob, RenameBlob, CheckAction, RenameFails,
                          Materialize, Abort

-----------------------------------------------------------------------------
(* What the steps of one workspace have in common. *)
ClientRec == [pc : PCs, want : Blob \cup {None}, tmp : Output \cup {None},
              out0 : BOOLEAN, flag : BOOLEAN, db : BOOLEAN,
              conn : Handler \cup {0}, builds : Nat]

WorkspaceTypes == /\ src \in [Client -> Input] /\ deps \in [Client -> BOOLEAN]
                  /\ stamp \in [Client -> 1..edits + 1]
                  /\ out \in [Client -> Output \cup {None}]
                  /\ status \in [Client -> {"none", "ok", "failed"}]
                  /\ local \in [Client -> [LocalKeys -> Output \cup {None}]]
                  /\ edits \in 0..setup.edits /\ setup \in Setups

LEMMA TypeParts == TypeOK <=> ServerTypeOK /\ cl \in [Client -> ClientRec] /\ WorkspaceTypes
BY DEF TypeOK, WorkspaceTypes, ClientRec

(* Workspace c becomes r, and only its own files change. *)
Moves(c, r) == /\ Step(c, r)
               /\ setup' = setup
               /\ \A d \in Client \ {c} : /\ src'[d] = src[d] /\ stamp'[d] = stamp[d] /\ deps'[d] = deps[d] /\ out'[d] = out[d]
                                          /\ status'[d] = status[d] /\ local'[d] = local[d]

LEMMA MovesWorkspaces ==
    ASSUME BuildInv, NEW c \in Client, NEW r \in ClientRec, Moves(c, r), WorkspaceTypes',
           Progress(c, r)', LocalOK(c)', Reported(c)'
    PROVE  cl' \in [Client -> ClientRec] /\ Workspaces'
<1>1. cl \in [Client -> ClientRec] /\ Workspaces
  BY TypeParts DEF BuildInv
<1>2. cl' = [cl EXCEPT ![c] = r]
  BY DEF Moves, Step
<1>3. cl' \in [Client -> ClientRec] /\ cl'[c] = r /\ \A d \in Client \ {c} : cl'[d] = cl[d]
  BY <1>1, <1>2
<1>4. ASSUME NEW d \in Client PROVE Progress(d, cl[d])' /\ LocalOK(d)' /\ Reported(d)'
  <2>1. CASE d = c
    <3>1. Progress(d, cl[d])'
      BY <2>1, <1>3 DEF Progress, Right, Made, Lossless
    <3> QED BY <2>1, <3>1
  <2>2. CASE d # c
    <3>1. /\ cl'[d] = cl[d] /\ src'[d] = src[d] /\ stamp'[d] = stamp[d] /\ deps'[d] = deps[d] /\ out'[d] = out[d]
          /\ status'[d] = status[d] /\ local'[d] = local[d] /\ setup' = setup
      BY <2>2, <1>3 DEF Moves
    <3>2. Progress(d, cl[d]) /\ LocalOK(d) /\ Reported(d)
      BY <1>1 DEF Workspaces
    <3>3. Progress(d, cl[d])'
      BY <3>1, <3>2 DEF Progress, Right, Made, Lossless
    <3>4. LocalOK(d)'
      BY <3>1, <3>2 DEF LocalOK, LocalKeys, Lossless
    <3>5. Reported(d)'
      BY <3>1, <3>2 DEF Reported, Lossless
    <3> QED BY <3>3, <3>4, <3>5
  <2> QED BY <2>1, <2>2
<1> QED BY <1>3, <1>4 DEF Workspaces


(* The workspace leaves the server alone, or leaves its connection. *)
Released(c) == \/ UNCHANGED serverVars
               \/ Waiting(c) /\ (Collect(cl[c].conn) \/ Abandon(cl[c].conn))

LEMMA AnswerReleases == \A c : Answered200(c) \/ Unanswered(c) => Released(c)
BY DEF Answered200, Unanswered, NoConnection, Refused, Timeout, Released

LEMMA ReleasedServer ==
    ASSUME BuildInv, NEW c \in Client, Released(c), setup' = setup
    PROVE  /\ [ServerNext]_serverVars
           /\ ServerInv' /\ ServerTypeOK' /\ Threads' /\ Mappings'
           /\ \A y \in Handler : cl[c].conn # y => handler'[y] = handler[y]
<1>1. cl[c].conn \in Handler \cup {0} /\ handler \in [Handler -> Thread] /\ ServerInv
  BY TypeParts DEF BuildInv, ClientRec, ServerTypeOK
<1>2. CASE UNCHANGED serverVars
  <2>1. ServerInv'
    BY <1>1, <1>2, NextInv
  <2> QED BY <1>2, <2>1, TypeParts DEF BuildInv, ServerTypeOK, serverVars, Threads, Asked, RequestOK, ResultOK,
             MapOK, Lossless, Mappings
<1>3. CASE Waiting(c) /\ (Collect(cl[c].conn) \/ Abandon(cl[c].conn))
  <2>1. cl[c].conn \in Handler
    BY <1>1, <1>3 DEF Waiting
  <2>2. ServerNext
    BY <2>1, <1>3 DEF ServerNext
  <2>3. ServerInv'
    BY <1>1, <2>2, NextInv
  <2>4. UNCHANGED <<file, actions, options, rotten, crashes>>
    BY <1>3 DEF Collect, Abandon
  <2>5. ServerTypeOK'
    BY <2>3, <2>4, TypeParts DEF BuildInv, ServerTypeOK, ServerInv, TypesOK
  <2>6. /\ \/ handler'[cl[c].conn] = Free
           \/ handler'[cl[c].conn] = [handler[cl[c].conn] EXCEPT !.live = FALSE]
        /\ \A y \in Handler : cl[c].conn # y => handler'[y] = handler[y]
    BY <1>1, <1>3, <2>1 DEF Collect, Abandon
  <2>7. \A y \in Handler : \/ handler'[y] = Free
                           \/ /\ handler'[y].req = handler[y].req /\ handler'[y].code = handler[y].code
                              /\ handler'[y].res = handler[y].res /\ handler'[y].tmp = handler[y].tmp
    BY <1>1, <2>6 DEF Thread
  <2>8. Threads'
    BY <2>7 DEF BuildInv, Threads, Asked, RequestOK, ResultOK, MapOK, Lossless, Free
  <2>9. Mappings'
    BY <2>4 DEF BuildInv, Mappings, MapOK, Lossless
  <2> QED BY <2>2, <2>3, <2>5, <2>6, <2>8, <2>9
<1> QED BY <1>2, <1>3 DEF Released

LEMMA Move ==
    ASSUME BuildInv, NEW c \in Client, NEW r \in ClientRec, Moves(c, r), WorkspaceTypes',
           Progress(c, r)', LocalOK(c)', Reported(c)', Released(c), r.conn = 0
    PROVE  BuildInv' /\ [ServerNext]_serverVars
<1>1. cl \in [Client -> ClientRec] /\ Connections
  BY TypeParts DEF BuildInv
<1>2. cl' = [cl EXCEPT ![c] = r] /\ setup' = setup
  BY DEF Moves, Step
<1>3. /\ [ServerNext]_serverVars
      /\ ServerInv' /\ ServerTypeOK' /\ Threads' /\ Mappings'
      /\ \A y \in Handler : cl[c].conn # y => handler'[y] = handler[y]
  BY <1>2, ReleasedServer
<1>4. cl' \in [Client -> ClientRec] /\ Workspaces'
  BY MovesWorkspaces
<1>5. TypeOK'
  BY <1>3, <1>4 DEF TypeOK, WorkspaceTypes, ClientRec
<1>6. \A d \in Client : cl'[d].conn # 0 =>
        /\ d # c /\ cl'[d] = cl[d] /\ cl[d].conn \in Handler /\ handler'[cl[d].conn] = handler[cl[d].conn]
        /\ deps'[d] = deps[d] /\ src'[d] = src[d]
  <2> SUFFICES ASSUME NEW d \in Client, cl'[d].conn # 0
               PROVE  /\ d # c /\ cl'[d] = cl[d] /\ cl[d].conn \in Handler
                      /\ handler'[cl[d].conn] = handler[cl[d].conn]
                      /\ deps'[d] = deps[d] /\ src'[d] = src[d]
    OBVIOUS
  <2>1. d # c /\ cl'[d] = cl[d]
    BY <1>1, <1>2
  <2>2. cl[d].conn \in Handler /\ cl[d].conn # cl[c].conn
    BY <1>1, <2>1 DEF Connections, ClientRec
  <2> QED BY <2>1, <2>2, <1>3 DEF Moves
<1>7. Connections'
  <2>1. ASSUME NEW d \in Client, cl'[d].conn # 0 PROVE Connected(d)'
    <3>1. /\ cl'[d] = cl[d] /\ handler'[cl[d].conn] = handler[cl[d].conn]
          /\ deps'[d] = deps[d] /\ src'[d] = src[d]
      BY <1>6, <2>1
    <3>2. Connected(d) /\ handler'[cl'[d].conn] = handler[cl[d].conn]
      BY <1>1, <3>1 DEF Connections
    <3> QED BY <3>1, <3>2 DEF Connected, Inputs
  <2>2. \A d, e \in Client : d # e /\ cl'[d].conn # 0 => cl'[d].conn # cl'[e].conn
    BY <1>1, <1>6 DEF Connections
  <2>3. \A d \in Client : Connected(d)'
    BY <2>1 DEF Connected
  <2> QED BY <2>2, <2>3 DEF Connections
<1> QED BY <1>3, <1>4, <1>5, <1>7 DEF BuildInv

(* A request is sent on a connection nobody uses. *)
LEMMA SendRequest ==
    ASSUME BuildInv, NEW c \in Client, NEW q \in Request, RequestOK(q), Send(c, q),
           cl[c].pc \in Requesting,
           cl[c].pc = "post" => q.op = "exec" /\ q.inputs = Inputs(c)
    PROVE  BuildInv' /\ [ServerNext]_serverVars
<1>1. cl \in [Client -> ClientRec] /\ Connections /\ handler \in [Handler -> Thread] /\ ServerInv
  BY TypeParts DEF BuildInv, ServerTypeOK
<1>2. PICK x \in Handler : /\ x = Min(Slots) /\ handler[x] = Free /\ x # 0
  <2>1. Slots \subseteq Handler /\ Slots # {} /\ Handler \subseteq Nat /\ 0 \notin Handler
    BY BuildAssumption DEF Send, Slots
  <2>2. Min(Slots) \in Slots
    BY <2>1, MinIn
  <2> QED BY <2>1, <2>2 DEF Slots
<1>3. /\ Connect(x, q) /\ cl' = [cl EXCEPT ![c] = [cl[c] EXCEPT !.conn = x]]
      /\ UNCHANGED <<src, stamp, deps, out, status, local, edits, setup>>
  BY <1>2 DEF Send, Step, State
<1>4. ServerNext
  BY <1>3 DEF ServerNext
<1>5. ServerInv'
  BY <1>1, <1>4, NextInv
<1>6. UNCHANGED <<file, actions, options, rotten, crashes>>
  BY <1>3 DEF Connect
<1>7. ServerTypeOK'
  BY <1>5, <1>6, TypeParts DEF BuildInv, ServerTypeOK, ServerInv, TypesOK
<1>8. /\ handler'[x].req = q /\ handler'[x].code = None /\ handler'[x].live /\ handler'[x].tmp = None
      /\ \A y \in Handler \ {x} : handler'[y] = handler[y]
  BY <1>1, <1>3 DEF Connect, Free
<1>9. Threads'
  BY <1>3, <1>8, ServerAssumption DEF BuildInv, Threads, Asked, RequestOK, ResultOK, MapOK, Lossless, Codes
<1>10. Mappings'
  BY <1>3, <1>6 DEF BuildInv, Mappings, MapOK, Lossless
<1>11. [cl[c] EXCEPT !.conn = x] \in ClientRec /\ cl' \in [Client -> ClientRec]
  BY <1>1, <1>3 DEF ClientRec
<1>12. TypeOK'
  BY <1>3, <1>7, <1>11 DEF BuildInv, TypeOK, ClientRec, LocalKeys
<1>13. /\ \A d \in Client \ {c} : cl'[d] = cl[d]
       /\ cl'[c].conn = x /\ cl'[c].pc = cl[c].pc
  BY <1>1, <1>3 DEF ClientRec
<1>14. ASSUME NEW d \in Client PROVE cl[d].conn # x
  <2>1. ~handler[x].live
    BY <1>2 DEF Free
  <2>2. Connected(d)
    BY <1>1 DEF Connections
  <2> QED BY <1>2, <2>1, <2>2 DEF Connected
<1>15. Connections'
  <2>1. ASSUME NEW d \in Client PROVE Connected(d)'
    <3>1. CASE d = c
      BY <3>1, <1>3, <1>8, <1>13 DEF Connected, Inputs
    <3>2. CASE d # c
      <4>1. cl[d].conn \in Handler \cup {0}
        BY <1>1 DEF ClientRec
      <4>2. /\ cl'[d] = cl[d] /\ deps'[d] = deps[d] /\ src'[d] = src[d]
            /\ cl[d].conn # 0 => handler'[cl'[d].conn] = handler[cl[d].conn]
        BY <3>2, <4>1, <1>3, <1>8, <1>13, <1>14
      <4> QED BY <4>2, <1>1 DEF Connections, Connected, Inputs
    <3> QED BY <3>1, <3>2
  <2>2. \A d, e \in Client : d # e /\ cl'[d].conn # 0 => cl'[d].conn # cl'[e].conn
    BY <1>1, <1>13, <1>14 DEF Connections
  <2> QED BY <2>1, <2>2 DEF Connections
<1>16. Workspaces'
  <2>1. \A d \in Client : /\ cl'[d].pc = cl[d].pc /\ cl'[d].want = cl[d].want /\ cl'[d].tmp = cl[d].tmp
                          /\ cl'[d].out0 = cl[d].out0 /\ cl'[d].flag = cl[d].flag /\ cl'[d].db = cl[d].db
    BY <1>1, <1>3 DEF ClientRec
  <2> QED BY <2>1, <1>3 DEF BuildInv, Workspaces, Progress, LocalOK, LocalKeys, Reported, Right, Made, Lossless
<1> QED BY <1>4, <1>5, <1>9, <1>10, <1>12, <1>15, <1>16 DEF BuildInv


-----------------------------------------------------------------------------
(* The kinds of step a build takes. *)
LEMMA ClientFacts ==
    ASSUME BuildInv, NEW c \in Client
    PROVE  /\ cl[c] \in ClientRec /\ WorkspaceTypes /\ src[c] \in Input /\ deps[c] \in BOOLEAN
           /\ Progress(c, cl[c]) /\ LocalOK(c) /\ Reported(c)
           /\ cl[c].pc \notin Requesting => cl[c].conn = 0
           /\ KeyOf(c) \in Keys /\ (deps[c] <=> KeyOf(c)[2] \in Input) /\ (deps[c] => KeyOf(c)[2] = src[c])
           /\ LocalKeyOf(c) \in LocalKeys /\ LocalKeyOf(c) = (IF deps[c] THEN stamp[c] ELSE 0)
           /\ stamp[c] \in LocalKeys /\ 0 \in LocalKeys /\ stamp[c] # 0
<1>1. cl[c] \in ClientRec /\ WorkspaceTypes /\ src[c] \in Input /\ deps[c] \in BOOLEAN
  BY TypeParts DEF BuildInv, WorkspaceTypes
<1>2. Progress(c, cl[c]) /\ LocalOK(c) /\ Reported(c) /\ (cl[c].pc \notin Requesting => cl[c].conn = 0)
  BY DEF BuildInv, Workspaces, Connections, Connected
<1>3. KeyOf(c) \in Keys /\ (deps[c] <=> KeyOf(c)[2] \in Input) /\ (deps[c] => KeyOf(c)[2] = src[c])
  <2> DEFINE r == c \in setup.remote
  <2>1. r \in BOOLEAN
    OBVIOUS
  <2>2. PICK k \in Input \cup {Unkeyed} : k = IF deps[c] THEN src[c] ELSE Unkeyed
    BY <1>1
  <2>3. KeyOf(c) = <<r, k>>
    BY <2>2 DEF KeyOf, KeyFor
  <2> HIDE DEF r
  <2> QED BY <1>1, <2>1, <2>2, <2>3, BuildAssumption DEF Keys
<1>4. stamp[c] \in LocalKeys /\ 0 \in LocalKeys /\ stamp[c] # 0
  <2>1. setup.edits \in Nat /\ edits \in 0..setup.edits /\ stamp[c] \in 1..edits + 1
    BY <1>1, BuildAssumption DEF WorkspaceTypes
  <2> QED BY <2>1 DEF LocalKeys
<1> QED BY <1>1, <1>2, <1>3, <1>4 DEF LocalKeyOf, LocalKeyFor

(* Only the build's own record changes. *)
LEMMA RecordOnly ==
    ASSUME BuildInv, NEW c \in Client, NEW r \in ClientRec, Step(c, r), UNCHANGED State,
           Progress(c, r), Released(c), r.conn = 0
    PROVE  BuildInv' /\ [ServerNext]_serverVars
<1>1. UNCHANGED <<src, stamp, deps, out, status, local, edits, setup>>
  BY DEF State
<1>2. Moves(c, r)
  BY <1>1 DEF Moves
<1>3. WorkspaceTypes' /\ LocalOK(c)' /\ Reported(c)'
  BY <1>1, ClientFacts DEF WorkspaceTypes, LocalOK, LocalKeys, Reported, Lossless
<1>4. Progress(c, r)'
  BY <1>1 DEF Progress, Right, Made, Lossless
<1> QED BY <1>2, <1>3, <1>4, Move

(* The build goes on to a place where nothing is asked of its record. *)
LEMMA GoOn ==
    ASSUME BuildInv, NEW c \in Client, NEW pc \in {"start", "getA", "script"}, Go(c, pc),
           UNCHANGED State, UNCHANGED serverVars, cl[c].conn = 0
    PROVE  BuildInv' /\ [ServerNext]_serverVars
<1> DEFINE r == [cl[c] EXCEPT !.pc = pc]
<1>1. r \in ClientRec /\ r.pc = pc /\ r.conn = 0
  BY ClientFacts DEF ClientRec, PCs
<1>2. Step(c, r)
  BY DEF Go
<1> HIDE DEF r
<1>3. Progress(c, r)
  BY <1>1 DEF Progress, Fetching
<1> QED BY <1>1, <1>2, <1>3, RecordOnly DEF Released

LEMMA HangupStep ==
    ASSUME BuildInv, NEW c \in Client, NEW pc \in {"post", "script"}, Hangup(c, pc), Released(c),
           pc = "post" => c \in setup.remote
    PROVE  BuildInv' /\ [ServerNext]_serverVars
<1> DEFINE r == [cl[c] EXCEPT !.pc = pc, !.conn = 0]
<1>1. r \in ClientRec /\ r.pc = pc /\ r.conn = 0
  BY ClientFacts DEF ClientRec, PCs
<1>2. Step(c, r) /\ UNCHANGED State
  BY DEF Hangup
<1> HIDE DEF r
<1>3. Progress(c, r)
  BY <1>1 DEF Progress, Fetching
<1> QED BY <1>1, <1>2, <1>3, RecordOnly

(* The build ends. *)
LEMMA Ending ==
    ASSUME BuildInv, NEW c \in Client, End(c), setup' = setup,
           \A d \in Client \ {c} : /\ src'[d] = src[d] /\ stamp'[d] = stamp[d] /\ deps'[d] = deps[d] /\ out'[d] = out[d]
                                   /\ status'[d] = status[d] /\ local'[d] = local[d],
           WorkspaceTypes', LocalOK(c)', Reported(c)', Released(c)
    PROVE  BuildInv' /\ [ServerNext]_serverVars
<1>1. PICK r \in ClientRec : r = [Idle EXCEPT !.builds = cl[c].builds] /\ r.pc = "idle" /\ r.conn = 0
  <2> DEFINE r == [Idle EXCEPT !.builds = cl[c].builds]
  <2>1. r \in ClientRec /\ r.pc = "idle" /\ r.conn = 0
    BY ClientFacts DEF ClientRec, PCs, Idle
  <2> HIDE DEF r
  <2>2. r = [Idle EXCEPT !.builds = cl[c].builds]
    BY DEF r
  <2> QED BY <2>1, <2>2
<1>2. Moves(c, r)
  BY <1>1 DEF End, Moves
<1>3. Progress(c, r)'
  BY <1>1 DEF Progress, Fetching
<1> QED BY <1>1, <1>2, <1>3, Move

LEMMA Failing ==
    ASSUME BuildInv, NEW c \in Client, Fail(c), Released(c), c \in setup.remote
    PROVE  BuildInv' /\ [ServerNext]_serverVars
<1>1. /\ status' = [status EXCEPT ![c] = "failed"] /\ deps' = [deps EXCEPT ![c] = cl[c].db]
      /\ Step(c, [Idle EXCEPT !.builds = cl[c].builds, !.flag = cl[c].flag,
                              !.out0 = cl[c].out0 /\ ~At(c, "getDeps")])
      /\ UNCHANGED <<src, stamp, out, local, edits, setup>>
  BY DEF Fail
<1>2. cl[c] \in ClientRec /\ WorkspaceTypes /\ LocalOK(c)
  BY ClientFacts
<1>3. cl[c].db \in BOOLEAN
  BY <1>2 DEF ClientRec
<1>4. WorkspaceTypes'
  BY <1>1, <1>2, <1>3 DEF WorkspaceTypes, LocalKeys
<1>5. LocalOK(c)'
  BY <1>1, <1>2 DEF LocalOK, LocalKeys, Lossless
<1>6. Reported(c)'
  BY <1>1, <1>2 DEF Reported, WorkspaceTypes
<1>7. \A d \in Client \ {c} : deps'[d] = deps[d] /\ status'[d] = status[d]
  BY <1>1, <1>2 DEF WorkspaceTypes
<1>8. \A d \in Client \ {c} : /\ src'[d] = src[d] /\ stamp'[d] = stamp[d] /\ deps'[d] = deps[d] /\ out'[d] = out[d]
                              /\ status'[d] = status[d] /\ local'[d] = local[d]
  BY <1>1, <1>7, Zenon
<1> DEFINE left == cl[c].out0 /\ ~At(c, "getDeps")
<1> DEFINE s == [Idle EXCEPT !.builds = cl[c].builds, !.flag = cl[c].flag, !.out0 = left]
<1>9. left \in BOOLEAN
  OBVIOUS
<1>10. Step(c, s)
  BY <1>1
<1> HIDE DEF left
<1>11. s \in ClientRec /\ s.pc = "idle" /\ s.conn = 0
  BY <1>2, <1>9 DEF ClientRec, PCs, Idle
<1> HIDE DEF s
<1>12. PICK r \in ClientRec : r = s /\ r.pc = "idle" /\ r.conn = 0
  BY <1>11
<1>13. Moves(c, r)
  BY <1>1, <1>8, <1>10, <1>12 DEF Moves
<1>14. Progress(c, r)'
  BY <1>12 DEF Progress, Fetching
<1> QED BY <1>4, <1>5, <1>6, <1>12, <1>13, <1>14, Move

(* The local cache gets an entry of the present key. *)
LEMMA LocalEntry ==
    ASSUME BuildInv, NEW c \in Client, NEW k \in {0, stamp[c]}, NEW o \in Output \cup {None},
           local' = [local EXCEPT ![c][k] = o], UNCHANGED <<src, stamp, setup>>,
           o # None => (Lossless => k # 0 /\ o[1] = src[c])
    PROVE  /\ local' \in [Client -> [LocalKeys -> Output \cup {None}]]
           /\ LocalOK(c)'
           /\ \A d \in Client \ {c} : local'[d] = local[d]
<1>1. /\ local \in [Client -> [LocalKeys -> Output \cup {None}]] /\ LocalOK(c)
      /\ k \in LocalKeys /\ stamp[c] \in Nat
  <2>1. stamp[c] \in 1..edits + 1 /\ edits \in 0..setup.edits /\ setup.edits \in Nat
    BY ClientFacts, BuildAssumption DEF WorkspaceTypes
  <2> QED BY <2>1, ClientFacts DEF WorkspaceTypes
<1>0. LocalKeys' = LocalKeys
  BY DEF LocalKeys
<1>2. local'[c] = [local[c] EXCEPT ![k] = o]
  BY <1>1
<1>3. local[c] \in [LocalKeys -> Output \cup {None}]
  BY <1>1
<1>4. local'[c] \in [LocalKeys -> Output \cup {None}]
  BY <1>2, <1>3
<1>5. local' \in [Client -> [LocalKeys -> Output \cup {None}]] /\ \A d \in Client \ {c} : local'[d] = local[d]
  BY <1>1, <1>4
<1>6. LocalOK(c)'
  <2>1. ASSUME NEW j \in LocalKeys, local'[c][j] # None
        PROVE  /\ j =< stamp[c]
               /\ Lossless => j # 0 /\ (j = stamp[c] => local'[c][j][1] = src[c])
    <3>1. CASE j = k
      <4>1. local'[c][j] = o /\ j =< stamp[c]
        BY <1>1, <1>2, <1>3, <3>1
      <4> QED BY <2>1, <3>1, <4>1
    <3>2. CASE j # k
      BY <1>1, <1>2, <1>3, <2>1, <3>2 DEF LocalOK
    <3> QED BY <3>1, <3>2
  <2> QED BY <1>0, <2>1 DEF LocalOK, LocalKeys, Lossless
<1> QED BY <1>0, <1>5, <1>6

LEMMA Storing ==
    ASSUME BuildInv, NEW c \in Client, NEW o \in Output, Right(c, o), Store(c, o), UNCHANGED <<src, stamp, setup>>
    PROVE  /\ local' \in [Client -> [LocalKeys -> Output \cup {None}]]
           /\ LocalOK(c)'
           /\ \A d \in Client \ {c} : local'[d] = local[d]
<1>1. local \in [Client -> [LocalKeys -> Output \cup {None}]] /\ LocalOK(c) /\ LocalKeyOf(c) \in LocalKeys
  BY ClientFacts DEF WorkspaceTypes
<1>k. LocalKeyOf(c) \in {0, stamp[c]} /\ (Lossless => LocalKeyOf(c) = stamp[c] /\ stamp[c] # 0)
  BY ClientFacts DEF Right
<1>2. CASE UNCHANGED local
  BY <1>1, <1>2 DEF LocalOK, LocalKeys, Lossless
<1>3. CASE local' = [local EXCEPT ![c][LocalKeyOf(c)] = IF @ = None THEN o ELSE @]
  <2>1. PICK k \in {0, stamp[c]} : k = LocalKeyOf(c)
    BY <1>k
  <2>2. PICK e \in Output \cup {None} : e = IF local[c][k] = None THEN o ELSE local[c][k]
    BY <1>1, <2>1
  <2>3. local' = [local EXCEPT ![c][k] = e]
    BY <1>1, <1>3, <2>1, <2>2
  <2>4. Lossless => k # 0 /\ e[1] = src[c]
    BY <1>1, <1>k, <2>1, <2>2 DEF Right, LocalOK
  <2> QED BY <2>3, <2>4, LocalEntry
<1> QED BY <1>2, <1>3 DEF Store

(* An output found in a cache is put in place. *)
LEMMA Installing ==
    ASSUME BuildInv, NEW c \in Client, NEW o \in Output, Right(c, o), Installed(c, o),
           local' \in [Client -> [LocalKeys -> Output \cup {None}]], LocalOK(c)',
           \A d \in Client \ {c} : local'[d] = local[d], UNCHANGED serverVars
    PROVE  BuildInv' /\ [ServerNext]_serverVars
<1>1. /\ out' = [out EXCEPT ![c] = o] /\ status' = [status EXCEPT ![c] = "ok"]
      /\ End(c) /\ UNCHANGED <<src, stamp, deps, edits, setup>>
  BY DEF Installed
<1>2. WorkspaceTypes
  BY ClientFacts
<1>3. WorkspaceTypes'
  BY <1>1, <1>2 DEF WorkspaceTypes, LocalKeys
<1>4. Reported(c)'
  BY <1>1, <1>2 DEF Reported, WorkspaceTypes, Right, Made, Lossless
<1>5. \A d \in Client \ {c} : /\ src'[d] = src[d] /\ stamp'[d] = stamp[d] /\ deps'[d] = deps[d] /\ out'[d] = out[d]
                              /\ status'[d] = status[d] /\ local'[d] = local[d]
  BY <1>1, <1>2 DEF WorkspaceTypes
<1> QED BY <1>1, <1>3, <1>4, <1>5, Ending DEF Released

-----------------------------------------------------------------------------
(* Every action of a workspace keeps the invariant and is a step of a      *)
(* client of the server: the caches.                                       *)
LEMMA StartStep ==
    ASSUME BuildInv, NEW c \in Client, Start(c)
    PROVE  BuildInv' /\ [ServerNext]_serverVars
<1> DEFINE s == [Idle EXCEPT !.pc = "local", !.builds = cl[c].builds + 1]
<1>n. cl[c].builds \in Nat
  BY ClientFacts DEF ClientRec
<1>1. s \in ClientRec /\ s.pc = "local" /\ s.conn = 0
  <2>1. cl[c].builds + 1 \in Nat
    BY <1>n
  <2> QED BY <2>1 DEF ClientRec, PCs, Idle
<1>2. /\ Step(c, s) /\ status' = [status EXCEPT ![c] = "none"]
      /\ UNCHANGED serverVars /\ UNCHANGED <<src, stamp, deps, out, local, edits, setup>>
  BY DEF Start, Kept
<1> HIDE DEF s
<1>3. PICK r \in ClientRec : r = s
  BY <1>1
<1>4. Progress(c, r)'
  BY <1>1, <1>3 DEF Progress, Fetching
<1>5. WorkspaceTypes /\ LocalOK(c)
  BY ClientFacts
<1>6. WorkspaceTypes'
  BY <1>2, <1>5 DEF WorkspaceTypes, LocalKeys
<1>7. LocalOK(c)' /\ Reported(c)'
  BY <1>2, <1>5 DEF LocalOK, LocalKeys, Reported, Lossless, WorkspaceTypes
<1>8. Moves(c, r)
  <2>1. \A d \in Client \ {c} : status'[d] = status[d]
    BY <1>2, <1>5 DEF WorkspaceTypes
  <2> QED BY <1>2, <1>3, <2>1, Zenon DEF Moves
<1> QED BY <1>1, <1>2, <1>3, <1>4, <1>6, <1>7, <1>8, Move DEF Released

LEMMA LookupStep ==
    ASSUME BuildInv, NEW c \in Client, LookupLocal(c)
    PROVE  BuildInv' /\ [ServerNext]_serverVars
<1> DEFINE hit == local[c][LocalKeyOf(c)]
<1>1. cl[c].pc = "local" /\ cl[c].conn = 0 /\ UNCHANGED serverVars
  BY ClientFacts DEF LookupLocal, At, Requesting
<1>t. /\ local \in [Client -> [LocalKeys -> Output \cup {None}]] /\ LocalOK(c) /\ LocalKeyOf(c) \in LocalKeys
      /\ WorkspaceTypes /\ Reported(c) /\ cl[c] \in ClientRec /\ LocalKeyOf(c) \in {0, stamp[c]}
  BY ClientFacts DEF WorkspaceTypes
<1>2. CASE hit # None /\ Installed(c, hit) /\ UNCHANGED local
  <2>1. hit \in Output
    BY <1>2, <1>t
  <2>2. Right(c, hit)
    BY <1>2, <1>t, ClientFacts DEF LocalOK, Right
  <2>3. UNCHANGED <<src, stamp, setup>>
    BY <1>2 DEF Installed
  <2>4. LocalOK(c)'
    BY <1>2, <1>t, <2>3 DEF LocalOK, LocalKeys, Lossless
  <2> HIDE DEF hit
  <2> QED BY <1>1, <1>2, <1>t, <2>1, <2>2, <2>4, Installing
<1>3. CASE Go(c, "start") /\ UNCHANGED State
  BY <1>1, <1>3, GoOn
<1>4. CASE /\ Go(c, "getA")
           /\ local' = [local EXCEPT ![c][LocalKeyOf(c)] = None]
           /\ UNCHANGED <<src, stamp, deps, out, status, edits, setup>>
  <2> DEFINE s == [cl[c] EXCEPT !.pc = "getA"]
  <2>1. s \in ClientRec /\ s.pc = "getA" /\ s.conn = 0 /\ Step(c, s)
    BY <1>1, <1>4, <1>t DEF ClientRec, PCs, Go
  <2> HIDE DEF s
  <2>2. PICK r \in ClientRec : r = s
    BY <2>1
  <2>3. Progress(c, r)'
    BY <2>1, <2>2 DEF Progress, Fetching
  <2>4. /\ local' \in [Client -> [LocalKeys -> Output \cup {None}]] /\ LocalOK(c)'
        /\ \A d \in Client \ {c} : local'[d] = local[d]
    BY <1>4, <1>t, LocalEntry
  <2>5. WorkspaceTypes' /\ Reported(c)'
    BY <1>4, <1>t, <2>4 DEF WorkspaceTypes, LocalKeys, Reported, Lossless
  <2>6. Moves(c, r)
    BY <1>4, <2>1, <2>2, <2>4 DEF Moves
  <2> QED BY <1>1, <2>1, <2>2, <2>3, <2>4, <2>5, <2>6, Move DEF Released
<1> QED BY <1>2, <1>3, <1>4 DEF LookupLocal

LEMMA GetActionStep ==
    ASSUME BuildInv, NEW c \in Client, GetAction(c)
    PROVE  BuildInv' /\ [ServerNext]_serverVars
<1>1. cl[c].pc = "getA" /\ cl[c].conn = 0 /\ UNCHANGED serverVars /\ UNCHANGED State /\ cl[c] \in ClientRec
  BY ClientFacts DEF GetAction, At, Kept, Requesting, State, serverVars
<1>2. CASE Go(c, "start")
  BY <1>1, <1>2, GoOn
<1>3. CASE /\ Mapped(KeyOf(c)) # None
           /\ Step(c, [cl[c] EXCEPT !.pc = "getM", !.want = Mapped(KeyOf(c))])
  <2>1. KeyOf(c) \in Key /\ Key = Keys
    BY ClientFacts, Kinds
  <2>2. PICK o \in Output : actions[KeyOf(c)] = Man(o) /\ (Lossless => o[1] = KeyOf(c)[2])
    BY <1>3, <2>1 DEF Mapped, BuildInv, Mappings, MapOK
  <2>3. Right(c, o) /\ Man(o) \in Blob
    BY <2>2, ClientFacts, Kinds DEF Right, Output
  <2> DEFINE r == [cl[c] EXCEPT !.pc = "getM", !.want = Man(o)]
  <2>4. r \in ClientRec /\ r.pc = "getM" /\ r.want = Man(o) /\ r.conn = 0
    BY <1>1, <2>3 DEF ClientRec, PCs
  <2>5. Step(c, r)
    BY <1>3, <2>2 DEF Mapped
  <2> HIDE DEF r
  <2>6. Progress(c, r)
    BY <2>3, <2>4 DEF Progress, Fetching
  <2> QED BY <1>1, <2>4, <2>5, <2>6, RecordOnly DEF Released
<1> QED BY <1>2, <1>3 DEF GetAction

LEMMA GetManifestStep ==
    ASSUME BuildInv, NEW c \in Client, GetManifest(c)
    PROVE  BuildInv' /\ [ServerNext]_serverVars
<1>1. cl[c].pc = "getM" /\ cl[c].conn = 0 /\ UNCHANGED serverVars /\ UNCHANGED State /\ cl[c] \in ClientRec
  BY ClientFacts DEF GetManifest, At, Kept, Requesting, State, serverVars
<1>2. CASE Go(c, "start")
  BY <1>1, <1>2, GoOn
<1>3. CASE Step(c, [cl[c] EXCEPT !.pc = "getO", !.want = Out(cl[c].want.of)])
  <2>1. PICK o \in Output : cl[c].want = Man(o) /\ Right(c, o)
    BY <1>1, ClientFacts DEF Progress
  <2>2. Out(o) \in Blob /\ cl[c].want.of = o
    BY <2>1, Kinds
  <2> DEFINE r == [cl[c] EXCEPT !.pc = "getO", !.want = Out(o)]
  <2>4. r \in ClientRec /\ r.pc = "getO" /\ r.want = Out(o) /\ r.conn = 0
    BY <1>1, <2>2 DEF ClientRec, PCs
  <2>5. Step(c, r)
    BY <1>3, <2>2
  <2> HIDE DEF r
  <2>6. Progress(c, r)
    BY <2>1, <2>4 DEF Progress, Fetching
  <2> QED BY <1>1, <2>4, <2>5, <2>6, RecordOnly DEF Released
<1> QED BY <1>2, <1>3 DEF GetManifest

LEMMA GetOutputStep ==
    ASSUME BuildInv, NEW c \in Client, GetOutput(c)
    PROVE  BuildInv' /\ [ServerNext]_serverVars
<1>1. cl[c].pc = "getO" /\ cl[c].conn = 0 /\ UNCHANGED serverVars
  BY ClientFacts DEF GetOutput, At, Requesting
<1>2. CASE Go(c, "start") /\ UNCHANGED State
  BY <1>1, <1>2, GoOn
<1>3. CASE Installed(c, cl[c].want.of) /\ Store(c, cl[c].want.of)
  <2>1. PICK o \in Output : cl[c].want = Out(o) /\ Right(c, o)
    BY <1>1, ClientFacts DEF Progress
  <2>2. Installed(c, o) /\ Store(c, o)
    BY <1>3, <2>1, Kinds
  <2>3. UNCHANGED <<src, stamp, setup>>
    BY <2>2 DEF Installed
  <2>4. /\ local' \in [Client -> [LocalKeys -> Output \cup {None}]] /\ LocalOK(c)'
        /\ \A d \in Client \ {c} : local'[d] = local[d]
    BY <2>1, <2>2, <2>3, Storing
  <2> QED BY <1>1, <2>1, <2>2, <2>4, Installing
<1> QED BY <1>2, <1>3 DEF GetOutput

-----------------------------------------------------------------------------
(* ... the job, here or on the server ... *)
LEMMA StartJobStep ==
    ASSUME BuildInv, NEW c \in Client, StartJob(c)
    PROVE  BuildInv' /\ [ServerNext]_serverVars
<1>1. cl[c].pc = "start" /\ cl[c].conn = 0 /\ UNCHANGED serverVars /\ UNCHANGED State /\ cl[c] \in ClientRec
  BY ClientFacts DEF StartJob, At, Kept, Requesting, State, serverVars
<1>2. CASE Go(c, "script")
  BY <1>1, <1>2, GoOn
<1>3. CASE c \in setup.remote /\ Step(c, [cl[c] EXCEPT !.pc = "upload", !.want = DoFile])
  <2> DEFINE r == [cl[c] EXCEPT !.pc = "upload", !.want = DoFile]
  <2>1. r \in ClientRec /\ r.pc = "upload" /\ r.want = DoFile /\ r.conn = 0 /\ Step(c, r)
    BY <1>1, <1>3, Kinds DEF ClientRec, PCs
  <2> HIDE DEF r
  <2>2. Progress(c, r)
    BY <1>3, <2>1 DEF Progress, Fetching
  <2> QED BY <1>1, <2>1, <2>2, RecordOnly DEF Released
<1> QED BY <1>2, <1>3 DEF StartJob

LEMMA UploadStep ==
    ASSUME BuildInv, NEW c \in Client, Upload(c)
    PROVE  BuildInv' /\ [ServerNext]_serverVars
<1>1. /\ cl[c].pc = "upload" /\ c \in setup.remote /\ cl[c] \in ClientRec
      /\ In(src[c]) \in Blob /\ cl[c].want \in Blob
  BY ClientFacts, Kinds DEF Upload, At, Progress, Fetching
<1> DEFINE q == [op |-> "putB", name |-> cl[c].want, body |-> cl[c].want]
<1>2. CASE Send(c, q)
  <2>1. q \in Request /\ q.op = "putB"
    BY <1>1 DEF Request, PutBlob
  <2> HIDE DEF q
  <2>2. RequestOK(q)
    BY <2>1 DEF RequestOK
  <2> QED BY <1>1, <1>2, <2>1, <2>2, SendRequest DEF Requesting
<1>3. CASE Answered200(c) /\ Hangup(c, "post")
  BY <1>1, <1>3, AnswerReleases, HangupStep
<1>4. CASE Unanswered(c) /\ Fail(c)
  BY <1>1, <1>4, AnswerReleases, Failing
<1>5. CASE /\ Answered200(c) /\ UNCHANGED State
           /\ Step(c, [cl[c] EXCEPT !.want = In(src[c]), !.conn = 0])
  <2> DEFINE r == [cl[c] EXCEPT !.want = In(src[c]), !.conn = 0]
  <2>1. r \in ClientRec /\ r.pc = "upload" /\ r.want = In(src[c]) /\ r.conn = 0 /\ Step(c, r)
    BY <1>1, <1>5 DEF ClientRec
  <2> HIDE DEF r
  <2>2. Progress(c, r)
    BY <1>1, <2>1 DEF Progress, Fetching
  <2> QED BY <1>5, <2>1, <2>2, AnswerReleases, RecordOnly
<1> QED BY <1>2, <1>3, <1>4, <1>5 DEF Upload

(* The answer to a run says what the run was given. *)
LEMMA ResultOfSource ==
    ASSUME BuildInv, NEW c \in Client, cl[c].pc = "post", Answered200(c)
    PROVE  /\ handler[cl[c].conn].res \in Result
           /\ handler[cl[c].conn].res.exit = "ok" =>
                /\ \/ handler[cl[c].conn].res.man = None
                   \/ \E o \in Output : handler[cl[c].conn].res.man = Man(o) /\ Made(c, o)
                /\ Lossless => handler[cl[c].conn].res.deps # None
<1>1. PICK x \in Handler : x = cl[c].conn
  BY ClientFacts DEF Answered200, Waiting, ClientRec
<1>2. handler[x].code = "200" /\ handler[x].pc = "done" /\ ThreadOK(handler[x])
  BY <1>1 DEF Answered200, Collect, BuildInv, ServerInv
<1>3. handler[x].req # None
  BY <1>2, RequestKinds DEF ThreadOK
<1>4. Connected(c) /\ cl[c].conn # 0
  BY DEF Answered200, Waiting, BuildInv, Connections
<1>5. handler[x].req.op = "exec" /\ handler[x].req.inputs = Inputs(c)
  BY <1>1, <1>4 DEF Connected
<1>6. handler[x].res \in Result /\ ResultOK(handler[x].req, handler[x].res)
  BY <1>2, <1>3, <1>5 DEF BuildInv, Threads, Asked
<1>7. ASSUME NEW i, In(i) \in Inputs(c) PROVE i = src[c]
  <2>1. In(i).kind = "in" /\ DoFile.kind = "do"
    BY DEF In, DoFile
  <2>2. In(i) = In(src[c])
    BY <1>7, <2>1 DEF Inputs
  <2>3. In(i).of[1] = In(src[c]).of[1]
    BY <2>2
  <2> QED BY <2>3 DEF In
<1> QED BY <1>1, <1>5, <1>6, <1>7 DEF ResultOK, Made

LEMMA PostStep ==
    ASSUME BuildInv, NEW c \in Client, Post(c)
    PROVE  BuildInv' /\ [ServerNext]_serverVars
<1>1. cl[c].pc = "post" /\ c \in setup.remote /\ src[c] \in Input /\ cl[c] \in ClientRec
  BY ClientFacts DEF Post, At, Progress, Fetching
<1> DEFINE q == [op |-> "exec", inputs |-> Inputs(c)]
<1> DEFINE res == handler[cl[c].conn].res
<1>2. CASE Send(c, q)
  <2>1. /\ q \in Request /\ q.op = "exec" /\ q.inputs = Inputs(c)
    BY <1>1, Kinds DEF Request, PostExec, Inputs
  <2> HIDE DEF q
  <2>2. RequestOK(q)
    BY <2>1 DEF RequestOK
  <2> QED BY <1>1, <1>2, <2>1, <2>2, SendRequest DEF Requesting
<1>3. CASE /\ Answered200(c) /\ res.exit = "ok" /\ UNCHANGED State
           /\ Step(c, [cl[c] EXCEPT !.pc = "getDeps", !.conn = 0, !.out0 = (res.deps # None),
                                    !.want = res.man])
  <2>1. res \in Result
    BY <1>1, <1>3, ResultOfSource
  <2>2. /\ res.man = None \/ \E o \in Output : res.man = Man(o) /\ Made(c, o)
        /\ Lossless => res.deps # None
    BY <1>1, <1>3, ResultOfSource
  <2>3. res.man \in Blob \cup {None}
    BY <2>2, Kinds
  <2> DEFINE out0 == res.deps # None
  <2>4. out0 \in BOOLEAN
    OBVIOUS
  <2> DEFINE r == [cl[c] EXCEPT !.pc = "getDeps", !.conn = 0, !.out0 = out0, !.want = res.man]
  <2>5. Step(c, r)
    BY <1>3
  <2>6. /\ r \in ClientRec /\ r.pc = "getDeps" /\ r.conn = 0 /\ r.want = res.man /\ (r.out0 <=> out0)
    <3> HIDE DEF out0, res
    <3> QED BY <1>1, <2>3, <2>4 DEF ClientRec, PCs
  <2> HIDE DEF r, res
  <2>7. Progress(c, r)
    BY <1>1, <2>2, <2>6 DEF Progress, Fetching
  <2> QED BY <1>3, <2>5, <2>6, <2>7, AnswerReleases, RecordOnly
<1>4. CASE Answered200(c) /\ Hangup(c, "script")
  BY <1>1, <1>4, AnswerReleases, HangupStep
<1>5. CASE Unanswered(c) /\ Hangup(c, "script")
  BY <1>1, <1>5, AnswerReleases, HangupStep
<1> QED BY <1>2, <1>3, <1>4, <1>5 DEF Post

LEMMA GetDepsStep ==
    ASSUME BuildInv, NEW c \in Client, GetDeps(c)
    PROVE  BuildInv' /\ [ServerNext]_serverVars
<1>1. /\ cl[c].pc = "getDeps" /\ cl[c].conn = 0 /\ UNCHANGED serverVars
      /\ c \in setup.remote /\ cl[c] \in ClientRec /\ Progress(c, cl[c])
  BY ClientFacts DEF GetDeps, At, Requesting, Progress, Fetching
<1>2. CASE Fail(c)
  BY <1>1, <1>2, Failing DEF Released
<1>3. CASE Go(c, "getTrace") /\ UNCHANGED State
  <2> DEFINE r == [cl[c] EXCEPT !.pc = "getTrace"]
  <2>1. /\ r \in ClientRec /\ r.pc = "getTrace" /\ r.conn = 0 /\ r.want = cl[c].want
        /\ r.out0 = cl[c].out0 /\ Step(c, r)
    BY <1>1, <1>3 DEF ClientRec, PCs, Go
  <2> HIDE DEF r
  <2>2. Progress(c, r)
    BY <1>1, <2>1 DEF Progress, Fetching
  <2> QED BY <1>1, <1>3, <2>1, <2>2, RecordOnly DEF Released
<1> QED BY <1>2, <1>3 DEF GetDeps

LEMMA GetTraceStep ==
    ASSUME BuildInv, NEW c \in Client, GetTrace(c)
    PROVE  BuildInv' /\ [ServerNext]_serverVars
<1>1. /\ cl[c].pc = "getTrace" /\ cl[c].conn = 0 /\ UNCHANGED serverVars
      /\ c \in setup.remote /\ cl[c] \in ClientRec /\ Progress(c, cl[c])
  BY ClientFacts DEF GetTrace, At, Requesting, Progress, Fetching
<1>2. CASE Go(c, "script") /\ UNCHANGED State
  BY <1>1, <1>2, GoOn
<1>3. CASE Fail(c)
  BY <1>1, <1>3, Failing DEF Released
<1>4. ASSUME cl[c].want # None, UNCHANGED State,
             NEW f \in {TRUE} \cup {FALSE : x \in setup.lossy \cap {"flag"}},
             Step(c, [cl[c] EXCEPT !.pc = "getM2", !.flag = f])
      PROVE  BuildInv' /\ [ServerNext]_serverVars
  <2>1. f \in BOOLEAN /\ (Lossless => f)
    BY <1>4 DEF Lossless
  <2> DEFINE r == [cl[c] EXCEPT !.pc = "getM2", !.flag = f]
  <2>2. /\ r \in ClientRec /\ r.pc = "getM2" /\ r.conn = 0 /\ r.want = cl[c].want
        /\ r.out0 = cl[c].out0 /\ r.flag = f /\ Step(c, r)
    BY <1>1, <1>4, <2>1 DEF ClientRec, PCs
  <2> HIDE DEF r
  <2>3. Progress(c, r)
    BY <1>1, <1>4, <2>1, <2>2 DEF Progress, Fetching
  <2> QED BY <1>1, <1>4, <2>2, <2>3, RecordOnly DEF Released
<1> QED BY <1>2, <1>3, <1>4 DEF GetTrace

LEMMA FetchManifestStep ==
    ASSUME BuildInv, NEW c \in Client, FetchManifest(c)
    PROVE  BuildInv' /\ [ServerNext]_serverVars
<1>1. /\ cl[c].pc = "getM2" /\ cl[c].conn = 0 /\ UNCHANGED serverVars
      /\ c \in setup.remote /\ cl[c] \in ClientRec /\ Progress(c, cl[c])
  BY ClientFacts DEF FetchManifest, At, Requesting, Progress, Fetching
<1>2. CASE Fail(c)
  BY <1>1, <1>2, Failing DEF Released
<1>3. CASE /\ Step(c, [cl[c] EXCEPT !.pc = "getO2", !.want = Out(cl[c].want.of)])
           /\ UNCHANGED State
  <2>1. PICK o \in Output : cl[c].want = Man(o) /\ Made(c, o)
    BY <1>1 DEF Progress
  <2>2. Out(o) \in Blob /\ cl[c].want.of = o
    BY <2>1, Kinds
  <2> DEFINE r == [cl[c] EXCEPT !.pc = "getO2", !.want = Out(o)]
  <2>3. /\ r \in ClientRec /\ r.pc = "getO2" /\ r.conn = 0 /\ r.want = Out(o)
        /\ r.out0 = cl[c].out0 /\ r.flag = cl[c].flag
    BY <1>1, <2>2 DEF ClientRec, PCs
  <2>4. Step(c, r)
    BY <1>3, <2>2
  <2> HIDE DEF r
  <2>5. Progress(c, r)
    BY <1>1, <2>1, <2>3 DEF Progress, Fetching
  <2> QED BY <1>1, <1>3, <2>3, <2>4, <2>5, RecordOnly DEF Released
<1> QED BY <1>2, <1>3 DEF FetchManifest

LEMMA FetchOutputStep ==
    ASSUME BuildInv, NEW c \in Client, FetchOutput(c)
    PROVE  BuildInv' /\ [ServerNext]_serverVars
<1>1. /\ cl[c].pc = "getO2" /\ cl[c].conn = 0 /\ UNCHANGED serverVars
      /\ c \in setup.remote /\ cl[c] \in ClientRec /\ Progress(c, cl[c])
  BY ClientFacts DEF FetchOutput, At, Requesting, Progress, Fetching
<1>2. CASE Fail(c)
  BY <1>1, <1>2, Failing DEF Released
<1>3. CASE /\ Step(c, [cl[c] EXCEPT !.pc = "finish", !.tmp = cl[c].want.of])
           /\ UNCHANGED State
  <2>1. PICK o \in Output : cl[c].want = Out(o) /\ Made(c, o)
    BY <1>1 DEF Progress
  <2>2. cl[c].want.of = o
    BY <2>1, Kinds
  <2> DEFINE r == [cl[c] EXCEPT !.pc = "finish", !.tmp = o]
  <2>3. /\ r \in ClientRec /\ r.pc = "finish" /\ r.conn = 0 /\ r.tmp = o
        /\ r.out0 = cl[c].out0 /\ r.flag = cl[c].flag
    BY <1>1 DEF ClientRec, PCs
  <2>4. Step(c, r)
    BY <1>3, <2>2
  <2> HIDE DEF r
  <2>5. Progress(c, r)
    BY <1>1, <2>1, <2>3 DEF Progress, Fetching
  <2> QED BY <1>1, <1>3, <2>3, <2>4, <2>5, RecordOnly DEF Released
<1> QED BY <1>2, <1>3 DEF FetchOutput

LEMMA ScriptStep ==
    ASSUME BuildInv, NEW c \in Client, Script(c)
    PROVE  BuildInv' /\ [ServerNext]_serverVars
<1>1. /\ cl[c].pc = "script" /\ cl[c].conn = 0 /\ UNCHANGED serverVars /\ UNCHANGED State
      /\ cl[c] \in ClientRec /\ src[c] \in Input /\ setup \in Setups
  BY ClientFacts DEF Script, At, Kept, Requesting, State, serverVars, WorkspaceTypes
<1>2. PICK t \in setup.tags[c] :
         Step(c, [cl[c] EXCEPT !.pc = "finish", !.tmp = <<src[c], t>>, !.db = TRUE])
  BY DEF Script
<1>3. <<src[c], t>> \in Output /\ <<src[c], t>>[1] = src[c]
  BY <1>1, <1>2, BuildAssumption DEF Output
<1> DEFINE r == [cl[c] EXCEPT !.pc = "finish", !.tmp = <<src[c], t>>, !.db = TRUE]
<1>4. r \in ClientRec /\ r.pc = "finish" /\ r.conn = 0 /\ r.tmp = <<src[c], t>> /\ r.db = TRUE
  BY <1>1, <1>3 DEF ClientRec, PCs
<1>5. Step(c, r)
  BY <1>2
<1> HIDE DEF r
<1>6. Progress(c, r)
  BY <1>3, <1>4 DEF Progress, Fetching, Made
<1> QED BY <1>1, <1>4, <1>5, <1>6, RecordOnly DEF Released


(* ... its callback, the push and the user. *)
LEMMA FinishStep ==
    ASSUME BuildInv, NEW c \in Client, Finish(c)
    PROVE  BuildInv' /\ [ServerNext]_serverVars
<1>1. /\ cl[c].pc = "finish" /\ cl[c].conn = 0 /\ UNCHANGED serverVars /\ UNCHANGED <<src, stamp, edits, setup>>
      /\ cl[c] \in ClientRec /\ src[c] \in Input /\ WorkspaceTypes /\ Progress(c, cl[c]) /\ LocalOK(c)
  BY ClientFacts DEF Finish, At, Requesting
<1>2. cl[c].db \in BOOLEAN /\ cl[c].flag \in BOOLEAN /\ cl[c].out0 \in BOOLEAN /\ cl[c].builds \in Nat
  BY <1>1 DEF ClientRec
<1>3. PICK now \in BOOLEAN : now = (cl[c].db \/ (cl[c].flag /\ cl[c].out0))
  BY <1>2
<1>4. cl[c].tmp \in Output /\ (Lossless => now /\ cl[c].tmp[1] = src[c])
  BY <1>1, <1>3 DEF Progress, Made
<1>5. PICK key \in {0, stamp[c]} : /\ key = LocalKeyFor(now, stamp[c]) /\ key \in LocalKeys
                                   /\ now => key = stamp[c] /\ key # 0
  BY ClientFacts DEF LocalKeyFor
<1>6. PICK entry \in Output : /\ entry = IF local[c][key] = None THEN cl[c].tmp ELSE local[c][key]
                              /\ Lossless => entry[1] = src[c]
  <2>1. local[c][key] \in Output \cup {None}
    BY <1>1, <1>5 DEF WorkspaceTypes
  <2>2. local[c][key] # None /\ Lossless => local[c][key][1] = src[c]
    BY <1>1, <1>4, <1>5 DEF LocalOK
  <2> QED BY <1>4, <1>5, <2>1, <2>2
<1>7. /\ out' = [out EXCEPT ![c] = cl[c].tmp]
      /\ status' = [status EXCEPT ![c] = "ok"]
      /\ deps' = [deps EXCEPT ![c] = now]
      /\ \/ /\ local' = [local EXCEPT ![c][key] = entry]
            /\ IF c \in setup.pushing
                 THEN Step(c, [Idle EXCEPT !.pc = "pushO", !.want = Out(entry), !.builds = cl[c].builds])
                 ELSE End(c)
         \/ UNCHANGED local /\ End(c)
  BY <1>3, <1>5, <1>6 DEF Finish
<1>8. /\ local' \in [Client -> [LocalKeys -> Output \cup {None}]] /\ LocalOK(c)'
      /\ \A d \in Client \ {c} : local'[d] = local[d]
  <2>1. CASE local' = [local EXCEPT ![c][key] = entry]
    BY <1>1, <1>4, <1>5, <1>6, <2>1, LocalEntry
  <2>2. CASE UNCHANGED local
    BY <1>1, <2>2 DEF WorkspaceTypes, LocalOK, LocalKeys, Lossless
  <2> QED BY <1>7, <2>1, <2>2
<1>9. WorkspaceTypes'
  BY <1>1, <1>4, <1>7, <1>8 DEF WorkspaceTypes, LocalKeys
<1>10. deps'[c] = now /\ out'[c] = cl[c].tmp /\ status'[c] = "ok"
  BY <1>1, <1>7 DEF WorkspaceTypes
<1>11. Reported(c)'
  BY <1>1, <1>4, <1>10 DEF Reported, Lossless
<1>12. \A d \in Client \ {c} : deps'[d] = deps[d] /\ status'[d] = status[d] /\ out'[d] = out[d]
  BY <1>1, <1>7 DEF WorkspaceTypes
<1>13. \A d \in Client \ {c} : /\ src'[d] = src[d] /\ stamp'[d] = stamp[d] /\ deps'[d] = deps[d] /\ out'[d] = out[d]
                               /\ status'[d] = status[d] /\ local'[d] = local[d]
  BY <1>1, <1>8, <1>12, Zenon
<1>14. CASE End(c)
  BY <1>1, <1>8, <1>9, <1>11, <1>13, <1>14, Ending DEF Released
<1>15. CASE Step(c, [Idle EXCEPT !.pc = "pushO", !.want = Out(entry), !.builds = cl[c].builds])
  <2> DEFINE s == [Idle EXCEPT !.pc = "pushO", !.want = Out(entry), !.builds = cl[c].builds]
  <2>1. s \in ClientRec /\ s.pc = "pushO" /\ s.conn = 0 /\ s.want = Out(entry)
    BY <1>2, <1>6, Kinds DEF ClientRec, PCs, Idle
  <2>2. Step(c, s)
    BY <1>15
  <2> HIDE DEF s
  <2>3. PICK r \in ClientRec : r = s
    BY <2>1
  <2>4. Right(c, entry)'
    BY <1>1, <1>4, <1>5, <1>6, <1>10 DEF Right, Made, Lossless
  <2>5. r.pc = "pushO" /\ r.want = Out(entry)
    BY <2>1, <2>3
  <2>6. Progress(c, r)'
    BY <2>4, <2>5 DEF Progress, Fetching, Out
  <2>7. Moves(c, r)
    BY <1>1, <1>13, <2>2, <2>3 DEF Moves
  <2> QED BY <1>1, <1>8, <1>9, <1>11, <2>1, <2>3, <2>6, <2>7, Move DEF Released
<1> QED BY <1>7, <1>14, <1>15

LEMMA PushStep ==
    ASSUME BuildInv, NEW c \in Client, Push(c)
    PROVE  BuildInv' /\ [ServerNext]_serverVars
<1>1. /\ cl[c].pc \in {"pushO", "pushM", "pushA"} /\ cl[c] \in ClientRec
      /\ WorkspaceTypes /\ LocalOK(c) /\ Reported(c)
  BY ClientFacts DEF Push
<1>2. PICK o \in Output : cl[c].want = Out(o) /\ Right(c, o)
  BY <1>1, ClientFacts DEF Progress
<1>3. cl[c].want.of = o /\ Out(o) \in Blob /\ Man(o) \in Blob /\ KeyOf(c) \in Key
  BY <1>2, Kinds, ClientFacts
<1>4. CASE Send(c, PushRequest(c))
  <2> DEFINE q == PushRequest(c)
  <2>1. q \in Request /\ RequestOK(q)
    <3>1. CASE cl[c].pc = "pushO"
      <4>1. q = [op |-> "putB", name |-> Out(o), body |-> Out(o)]
        BY <1>2, <3>1 DEF PushRequest, At
      <4> QED BY <4>1, <1>3 DEF Request, PutBlob, RequestOK
    <3>2. CASE cl[c].pc = "pushM"
      <4>1. q = [op |-> "putB", name |-> Man(o), body |-> Man(o)]
        BY <1>3, <3>2 DEF PushRequest, At
      <4> QED BY <4>1, <1>3 DEF Request, PutBlob, RequestOK
    <3>3. CASE cl[c].pc = "pushA"
      <4>1. q = [op |-> "putA", key |-> KeyOf(c), man |-> Man(o)]
        BY <1>3, <3>3 DEF PushRequest, At
      <4>2. MapOK(KeyOf(c), Man(o))
        BY <1>2, ClientFacts DEF MapOK, Right
      <4> HIDE DEF q
      <4>3. q \in Request /\ q.op = "putA" /\ q.key = KeyOf(c) /\ q.man = Man(o)
        BY <4>1, <1>3 DEF Request, PutAction
      <4> QED BY <4>2, <4>3 DEF RequestOK
    <3> QED BY <1>1, <3>1, <3>2, <3>3
  <2> HIDE DEF q
  <2>2. Send(c, q)
    BY <1>4 DEF q
  <2> QED BY <1>1, <2>1, <2>2, SendRequest DEF Requesting
<1>5. ASSUME Answered200(c) \/ Unanswered(c), NEW pc \in {"pushM", "pushA"}, Hangup(c, pc)
      PROVE  BuildInv' /\ [ServerNext]_serverVars
  <2> DEFINE r == [cl[c] EXCEPT !.pc = pc, !.conn = 0]
  <2>1. r \in ClientRec /\ r.pc = pc /\ r.conn = 0 /\ r.want = cl[c].want
    BY <1>1 DEF ClientRec, PCs
  <2>2. Step(c, r) /\ UNCHANGED State
    BY <1>5 DEF Hangup
  <2> HIDE DEF r
  <2>3. Progress(c, r)
    BY <1>2, <1>5, <2>1 DEF Progress, Fetching
  <2> QED BY <1>5, <2>1, <2>2, <2>3, AnswerReleases, RecordOnly
<1>6. CASE (Answered200(c) \/ Unanswered(c)) /\ End(c) /\ UNCHANGED State
  <2>1. UNCHANGED <<src, stamp, deps, out, status, local, edits, setup>>
    BY <1>6 DEF State
  <2>2. WorkspaceTypes' /\ LocalOK(c)' /\ Reported(c)'
    BY <1>1, <2>1 DEF WorkspaceTypes, LocalOK, LocalKeys, Reported, Lossless
  <2> QED BY <1>6, <2>1, <2>2, AnswerReleases, Ending
<1>7. \/ Send(c, PushRequest(c))
      \/ /\ Answered200(c) \/ Unanswered(c)
         /\ Hangup(c, "pushM") \/ Hangup(c, "pushA") \/ (End(c) /\ UNCHANGED State)
  BY DEF Push
<1> QED BY <1>4, <1>5, <1>6, <1>7

LEMMA EditStep ==
    ASSUME BuildInv, NEW c \in Client, Edit(c)
    PROVE  BuildInv' /\ [ServerNext]_serverVars
<1>1. /\ cl[c].pc = "idle" /\ cl[c].conn = 0 /\ edits < setup.edits
      /\ edits' = edits + 1 /\ status' = [status EXCEPT ![c] = "none"]
      /\ UNCHANGED serverVars /\ UNCHANGED <<cl, deps, out, local, setup>>
  BY ClientFacts DEF Edit, At, Requesting, Kept
<1>2. PICK i \in Input : src' = [src EXCEPT ![c] = i]
  BY DEF Edit
<1>3. PICK r \in ClientRec : r = cl[c] /\ WorkspaceTypes /\ LocalOK(c) /\ cl \in [Client -> ClientRec]
  BY ClientFacts, TypeParts DEF BuildInv
<1>4. edits' \in 0..setup'.edits
  <2>1. setup \in Setups /\ edits \in 0..setup.edits
    BY <1>3 DEF WorkspaceTypes
  <2>2. setup.edits \in Nat
    BY <2>1, BuildAssumption
  <2> QED BY <1>1, <2>1, <2>2
<1>s. /\ stamp' = [stamp EXCEPT ![c] = stamp[c] + 1] /\ stamp'[c] = stamp[c] + 1
      /\ stamp \in [Client -> 1..edits + 1] /\ stamp[c] \in Nat /\ edits \in Nat
      /\ stamp' \in [Client -> 1..edits' + 1]
  <2>1. edits \in Nat /\ stamp \in [Client -> 1..edits + 1] /\ stamp' = [stamp EXCEPT ![c] = stamp[c] + 1]
    BY <1>3, BuildAssumption DEF WorkspaceTypes, Edit
  <2>2. \A d \in Client : stamp[d] \in 1..edits + 1
    BY <2>1
  <2>3. stamp[c] + 1 \in 1..edits' + 1 /\ \A d \in Client : stamp[d] \in 1..edits' + 1
    BY <1>1, <2>1, <2>2
  <2> QED BY <2>1, <2>2, <2>3
<1>5. WorkspaceTypes'
  BY <1>1, <1>2, <1>3, <1>4, <1>s DEF WorkspaceTypes, LocalKeys
<1>6. LocalOK(c)' /\ Reported(c)'
  <2>1. Reported(c)'
    BY <1>1, <1>3 DEF Reported, Lossless, WorkspaceTypes
  <2>2. LocalKeys' = LocalKeys /\ LocalKeys \subseteq Nat
    <3>1. setup.edits \in Nat /\ setup' = setup
      BY <1>1, <1>3, BuildAssumption DEF WorkspaceTypes
    <3> QED BY <3>1 DEF LocalKeys
  <2>3. ASSUME NEW k \in LocalKeys, local[c][k] # None
        PROVE  k =< stamp[c] + 1 /\ k # stamp[c] + 1 /\ (Lossless => k # 0)
    <3>1. k =< stamp[c] /\ (Lossless => k # 0) /\ k \in Nat
      BY <1>3, <2>2, <2>3 DEF LocalOK
    <3> QED BY <3>1, <1>s
  <2>4. LocalOK(c)'
    BY <1>1, <1>s, <2>2, <2>3 DEF LocalOK, Lossless
  <2> QED BY <2>1, <2>4
<1>7. \A d \in Client \ {c} : src'[d] = src[d] /\ status'[d] = status[d] /\ stamp'[d] = stamp[d]
  BY <1>1, <1>2, <1>3, <1>s DEF WorkspaceTypes
<1>8. cl' = [cl EXCEPT ![c] = r]
  BY <1>1, <1>3
<1>9. Moves(c, r)
  BY <1>1, <1>7, <1>8, Zenon DEF Moves, Step
<1>10. r.pc = "idle" /\ r.conn = 0
  BY <1>1, <1>3
<1>11. Progress(c, r)'
  BY <1>10 DEF Progress, Fetching
<1> QED BY <1>1, <1>3, <1>5, <1>6, <1>9, <1>10, <1>11, Move DEF Released

-----------------------------------------------------------------------------
(* Every step of the server leaves the workspaces what they know. *)
LEMMA ServerKeeps ==
    ASSUME BuildInv, ServerNext, UNCHANGED buildVars, options' = options, crashes' \in 0..MaxCrashes,
           Threads', Mappings',
           \A y \in Handler : handler[y].live => handler'[y].live /\ handler'[y].req = handler[y].req
    PROVE  BuildInv'
<1>1. UNCHANGED <<cl, src, stamp, deps, out, status, local, edits, setup>>
  BY DEF buildVars
<1>2. ServerInv'
  BY NextInv DEF BuildInv
<1>3. ServerTypeOK'
  BY <1>2 DEF BuildInv, TypeOK, ServerTypeOK, ServerInv, TypesOK
<1>4. TypeOK'
  BY <1>1, <1>3 DEF BuildInv, TypeOK, LocalKeys
<1>5. Workspaces'
  BY <1>1 DEF BuildInv, Workspaces, Progress, LocalOK, LocalKeys, Reported, Right, Made, Lossless
<1>6. Connections'
  <2>1. ASSUME NEW c \in Client PROVE Connected(c)'
    <3>1. cl[c].conn \in Handler \cup {0} /\ Connected(c)
      BY ClientFacts DEF ClientRec, BuildInv, Connections
    <3> QED BY <1>1, <3>1 DEF Connected, Inputs
  <2> QED BY <1>1, <2>1 DEF BuildInv, Connections
<1> QED BY <1>2, <1>4, <1>5, <1>6 DEF BuildInv

LEMMA FollowsKeeps ==
    ASSUME BuildInv, \A y \in Handler : Follows(handler[y], handler'[y]), setup' = setup
    PROVE  /\ Threads'
           /\ \A y \in Handler : handler[y].live => handler'[y].live /\ handler'[y].req = handler[y].req
<1>1. \A y \in Handler : handler[y].live => handler'[y].live /\ handler'[y].req = handler[y].req
  BY DEF Follows
<1>2. ASSUME NEW y \in Handler PROVE Asked(handler[y])'
  <2>1. PICK g : g = handler'[y] /\ Asked(handler[y]) /\ Follows(handler[y], g)
    BY DEF BuildInv, Threads
  <2>2. Asked(g)
    BY <2>1, FollowsAsked
  <2> QED BY <2>1, <2>2 DEF Asked, RequestOK, ResultOK, MapOK, Lossless
<1> QED BY <1>1, <1>2 DEF Threads

(* A script ends on the server. *)
LEMMA ExecuteStep ==
    ASSUME BuildInv, NEW x \in Handler, NEW new \in SUBSET Blob, NEW res \in Result,
           Execute(x, new, res), ResultOK(handler[x].req, res), UNCHANGED buildVars
    PROVE  BuildInv' /\ ServerNext
<1>1. ServerNext
  BY DEF ServerNext
<1>2. handler \in [Handler -> Thread] /\ handler[x] \in Thread /\ setup' = setup /\ crashes \in 0..MaxCrashes
  BY DEF BuildInv, TypeOK, ServerTypeOK, buildVars
<1>3. UNCHANGED <<actions, options, crashes>>
  BY DEF Execute, Serving
<1>4. /\ \/ handler'[x] = Free /\ ~handler[x].live
         \/ /\ handler'[x].req = handler[x].req /\ handler'[x].live = handler[x].live
            /\ handler'[x].res = res /\ handler'[x].tmp = handler[x].tmp
      /\ \A y \in Handler \ {x} : handler'[y] = handler[y]
  <2> DEFINE h == [handler[x] EXCEPT !.res = res]
  <2>1. h \in Thread /\ h.req = handler[x].req /\ h.live = handler[x].live /\ h.res = res
        /\ h.tmp = handler[x].tmp
    BY <1>2 DEF Thread
  <2>2. handler' = [handler EXCEPT ![x] = Answered(h, "200")]
    BY <1>2 DEF Execute
  <2> HIDE DEF h
  <2>3. \/ Answered(h, "200") = Free /\ ~h.live
        \/ /\ Answered(h, "200").req = h.req /\ Answered(h, "200").live = h.live
           /\ Answered(h, "200").res = h.res /\ Answered(h, "200").tmp = h.tmp
    BY <2>1 DEF Answered, Thread
  <2> QED BY <1>2, <2>1, <2>2, <2>3
<1>5. Threads'
  <2>1. ASSUME NEW y \in Handler PROVE Asked(handler[y])'
    <3>0. Asked(handler[y])
      BY DEF BuildInv, Threads
    <3>1. CASE y # x
      BY <1>2, <1>4, <3>0, <3>1 DEF Asked, RequestOK, ResultOK, MapOK, Lossless
    <3>2. CASE y = x
      BY <1>2, <1>4, <3>0, <3>2 DEF Asked, RequestOK, ResultOK, MapOK, Lossless, Free
    <3> QED BY <3>1, <3>2
  <2> QED BY <2>1 DEF Threads
<1>6. Mappings'
  BY <1>2, <1>3 DEF BuildInv, Mappings, MapOK, Lossless
<1>7. \A y \in Handler : handler[y].live => handler'[y].live /\ handler'[y].req = handler[y].req
  BY <1>4
<1> QED BY <1>1, <1>2, <1>3, <1>5, <1>6, <1>7, ServerKeeps

LEMMA RunStep ==
    ASSUME BuildInv, NEW x \in Handler, RunRemotely(x), UNCHANGED buildVars
    PROVE  BuildInv' /\ ServerNext
<1> DEFINE cut  == handler[x].tmp = Bad
           read == {i \in Input : cut \/ In(i) \in handler[x].req.inputs}
<1>1. handler[x].req.op = "exec" /\ handler[x].req # None /\ setup \in Setups
  <2>1. Serving(x, "exec", "run")
    BY DEF RunRemotely, Execute
  <2> QED BY <2>1, RequestKinds DEF Serving, BuildInv, ServerInv, ThreadOK, TypeOK
<1>2. DepsSrc \in Blob /\ Trace \in Blob /\ None \notin Blob /\ (Lossless => ~cut)
  BY <1>1, Kinds DEF BuildInv, Threads, Asked
<1>3. CASE Execute(x, {Trace}, [exit |-> "failed", man |-> None, deps |-> None])
  <2> DEFINE res == [exit |-> "failed", man |-> None, deps |-> None]
  <2>1. res \in Result /\ ResultOK(handler[x].req, res)
    BY BuildAssumption DEF Results, ResultOK
  <2> HIDE DEF res
  <2> QED BY <1>2, <1>3, <2>1, ExecuteStep DEF res
<1>4. ASSUME NEW i \in read, NEW t \in setup.remoteTags
      PROVE  /\ <<i, t>> \in Output /\ <<i, t>>[1] = i
             /\ Lossless => In(i) \in handler[x].req.inputs
             /\ Out(<<i, t>>) \in Blob /\ Man(<<i, t>>) \in Blob
  <2>1. t \in Tag /\ i \in Input
    BY <1>1, BuildAssumption
  <2>2. <<i, t>> \in Output /\ <<i, t>>[1] = i
    BY <2>1 DEF Output
  <2> QED BY <1>2, <2>2, Kinds
<1>5. ASSUME NEW i \in read, NEW t \in setup.remoteTags,
             NEW new \in SUBSET Blob, NEW man \in {Man(<<i, t>>), None},
             NEW deps1 \in {DepsSrc, None}, Lossless => deps1 # None,
             Execute(x, new, [exit |-> "ok", man |-> man, deps |-> deps1])
      PROVE  BuildInv' /\ ServerNext
  <2> DEFINE res == [exit |-> "ok", man |-> man, deps |-> deps1]
  <2> HIDE DEF read
  <2>1. res \in Result
    BY <1>4, <1>5, BuildAssumption DEF Results
  <2>2. ResultOK(handler[x].req, res)
    <3>1. PICK o \in Output : o = <<i, t>> /\ (Lossless => In(o[1]) \in handler[x].req.inputs)
      BY <1>4
    <3>2. man = None \/ man = Man(o)
      BY <1>5, <3>1
    <3>3. res.man = man /\ res.deps = deps1
      OBVIOUS
    <3> HIDE DEF res
    <3> QED BY <1>5, <3>1, <3>2, <3>3 DEF ResultOK
  <2>3. Execute(x, new, res)
    BY <1>5
  <2> HIDE DEF res
  <2> QED BY <2>1, <2>2, <2>3, ExecuteStep
<1>6. DepsSrc # None /\ (("deps" \in setup.lossy \/ cut) => ~Lossless)
  BY <1>2 DEF Lossless
<1>7. ASSUME NEW i \in read, NEW t \in setup.remoteTags,
             \/ Execute(x, {Out(<<i, t>>), Man(<<i, t>>), DepsSrc, Trace},
                           [exit |-> "ok", man |-> Man(<<i, t>>), deps |-> DepsSrc])
             \/ Execute(x, {Out(<<i, t>>), DepsSrc, Trace},
                           [exit |-> "ok", man |-> None, deps |-> DepsSrc])
             \/ /\ "deps" \in setup.lossy \/ cut
                /\ Execute(x, {Out(<<i, t>>), Man(<<i, t>>), Trace},
                              [exit |-> "ok", man |-> Man(<<i, t>>), deps |-> None])
      PROVE  BuildInv' /\ ServerNext
  <2> HIDE DEF read, cut
  <2>1. /\ {Out(<<i, t>>), Man(<<i, t>>), DepsSrc, Trace} \in SUBSET Blob
        /\ {Out(<<i, t>>), DepsSrc, Trace} \in SUBSET Blob
        /\ {Out(<<i, t>>), Man(<<i, t>>), Trace} \in SUBSET Blob
    BY <1>2, <1>4, <1>7
  <2> QED BY <2>1, <1>5, <1>6, <1>7
<1> QED BY <1>3, <1>7 DEF RunRemotely

(* ... or starts on inputs that were not copied whole. *)
LEMMA CopyFailsStep ==
    ASSUME BuildInv, NEW x \in Handler, CopyFails(x), "copy" \in setup.lossy, UNCHANGED buildVars
    PROVE  BuildInv' /\ ServerNext
<1>1. ServerNext
  BY DEF ServerNext
<1>2. handler \in [Handler -> Thread] /\ setup' = setup /\ crashes \in 0..MaxCrashes /\ ~Lossless
  BY DEF BuildInv, TypeOK, ServerTypeOK, buildVars, Lossless
<1>3. UNCHANGED <<actions, options, crashes>>
  BY DEF CopyFails, Serving
<1>4. \A y \in Handler : /\ handler'[y].req = handler[y].req /\ handler'[y].live = handler[y].live
                         /\ handler'[y].code = handler[y].code /\ handler'[y].res = handler[y].res
  BY <1>2 DEF CopyFails, Thread
<1>5. Threads'
  BY <1>2, <1>4 DEF BuildInv, Threads, Asked, RequestOK, ResultOK, MapOK, Lossless
<1>6. Mappings'
  BY <1>2, <1>3 DEF BuildInv, Mappings, MapOK, Lossless
<1> QED BY <1>1, <1>2, <1>3, <1>4, <1>5, <1>6, ServerKeeps

LEMMA ServerStepKeeps ==
    ASSUME BuildInv, ServerStep, UNCHANGED buildVars
    PROVE  BuildInv' /\ [ServerNext]_serverVars
<1>1. setup' = setup /\ crashes \in 0..MaxCrashes /\ ServerInv /\ Mappings /\ Threads /\ MaxCrashes \in Nat
  BY ServerAssumption DEF buildVars, BuildInv, TypeOK, ServerTypeOK
<1>2. ASSUME NEW x \in Handler, HandlerStep(x) PROVE BuildInv' /\ ServerNext
  <2>1. UNCHANGED <<options, crashes>>
    BY <1>2 DEF HandlerStep, Refuse, ReceiveBlob, RenameBlob, CheckAction, RenameAction, RenameFails,
                Materialize, Abort, Serving
  <2>2. ServerNext
    BY <1>2 DEF ServerNext
  <2>3. Mappings'
    BY <1>1, <1>2, HandlerMaps
  <2>4. \A y \in Handler : Follows(handler[y], handler'[y])
    BY <1>1, <1>2, HandlerFollows
  <2>5. /\ Threads'
        /\ \A y \in Handler : handler[y].live => handler'[y].live /\ handler'[y].req = handler[y].req
    BY <1>1, <2>4, FollowsKeeps
  <2> QED BY <1>1, <2>1, <2>2, <2>3, <2>5, ServerKeeps
<1>3. CASE Crash
  <2>1. options' = options /\ actions' = actions /\ crashes' = crashes + 1 /\ crashes < MaxCrashes
    BY <1>3 DEF Crash
  <2>2. crashes' \in 0..MaxCrashes
    BY <1>1, <2>1
  <2>3. ServerNext
    BY <1>3 DEF ServerNext
  <2>4. Mappings'
    BY <1>1, <2>1 DEF Mappings, MapOK, Lossless
  <2>5. \A y \in Handler : Follows(handler[y], handler'[y])
    BY <1>1, <1>3, CrashFollows
  <2>6. /\ Threads'
        /\ \A y \in Handler : handler[y].live => handler'[y].live /\ handler'[y].req = handler[y].req
    BY <1>1, <2>5, FollowsKeeps
  <2> QED BY <2>1, <2>2, <2>3, <2>4, <2>6, ServerKeeps
<1>4. ASSUME NEW b \in Blob, Rot(b) PROVE BuildInv' /\ ServerNext
  <2>1. UNCHANGED <<actions, handler, options, crashes>>
    BY <1>4 DEF Rot
  <2>2. ServerNext
    BY <1>4 DEF ServerNext
  <2>3. Mappings'
    BY <1>1, <2>1 DEF Mappings, MapOK, Lossless
  <2>4. Threads'
    BY <1>1, <2>1 DEF Threads, Asked, RequestOK, ResultOK, MapOK, Lossless
  <2> QED BY <1>1, <2>1, <2>2, <2>3, <2>4, ServerKeeps
<1> QED BY <1>2, <1>3, <1>4, RunStep, CopyFailsStep DEF ServerStep

(* The invariant is inductive, and every step of the system is a step that *)
(* the server is proved to stand.                                          *)
LEMMA BuildStep ==
    BuildInv /\ [Next]_vars => BuildInv' /\ [ServerNext]_serverVars
<1> SUFFICES ASSUME BuildInv, [Next]_vars PROVE BuildInv' /\ [ServerNext]_serverVars
  OBVIOUS
<1>1. ASSUME NEW c \in Client, ClientStep(c) PROVE BuildInv' /\ [ServerNext]_serverVars
  BY <1>1, LookupStep, GetActionStep, GetManifestStep, GetOutputStep, StartJobStep, UploadStep, PostStep,
     GetDepsStep, GetTraceStep, FetchManifestStep, FetchOutputStep, ScriptStep, FinishStep, PushStep
  DEF ClientStep
<1>2. CASE UNCHANGED vars
  <2>1. UNCHANGED serverVars /\ UNCHANGED buildVars
    BY <1>2 DEF vars
  <2>2. UNCHANGED <<file, actions, handler, options, rotten, crashes>>
    BY <2>1 DEF serverVars
  <2>3. UNCHANGED <<cl, src, stamp, deps, out, status, local, edits, setup>>
    BY <2>1 DEF buildVars
  <2>4. ServerInv'
    BY <2>1, NextInv DEF BuildInv
  <2>5. TypeOK'
    BY <2>2, <2>3 DEF BuildInv, TypeOK, ServerTypeOK, LocalKeys
  <2>6. Mappings' /\ Threads' /\ Connections'
    BY <2>2, <2>3 DEF BuildInv, Mappings, Threads, Asked, RequestOK, ResultOK, MapOK, Lossless, Connections,
                      Connected, Inputs
  <2>7. Workspaces'
    BY <2>3 DEF BuildInv, Workspaces, Progress, LocalOK, LocalKeys, Reported, Right, Made, Lossless
  <2> QED BY <2>1, <2>4, <2>5, <2>6, <2>7 DEF BuildInv
<1> QED BY <1>1, <1>2, StartStep, EditStep, ServerStepKeeps DEF Next

LEMMA BuildInit == Init => BuildInv /\ ServerInit
<1> SUFFICES ASSUME Init PROVE BuildInv /\ ServerInit
  OBVIOUS
<1>1. ServerInit /\ ServerInv
  BY InitInv DEF Init
<1>2. setup \in Setups /\ setup.edits \in Nat
  BY BuildAssumption DEF Init
<1>3. ServerTypeOK
  BY <1>1, ServerAssumption DEF ServerInit, ServerInv, TypesOK, ServerTypeOK
<1>4. Idle \in ClientRec
  BY DEF Idle, ClientRec, PCs
<1>5. TypeOK
  <2>1. WorkspaceTypes /\ cl \in [Client -> ClientRec]
    BY <1>2, <1>4 DEF Init, WorkspaceTypes
  <2> QED BY <1>3, <2>1, TypeParts
<1>6. Mappings /\ Threads
  BY <1>1, BuildAssumption DEF ServerInit, Mappings, Threads, Asked, Free
<1>7. \A c \in Client : cl[c].pc = "idle" /\ cl[c].conn = 0
  BY DEF Init, Idle
<1>8. Connections
  BY <1>7 DEF Connections, Connected
<1>9. Workspaces
  BY <1>7 DEF Init, Workspaces, Progress, LocalOK, LocalKeys, Reported, Fetching
<1> QED BY <1>1, <1>5, <1>6, <1>8, <1>9 DEF BuildInv

(* The inductive invariant of the whole system: what the threads were      *)
(* asked, what every cache holds under which key, how far each build has   *)
(* got and what it has in hands (schedule_build_one, redo_remote_exec.rs,  *)
(* redo_cache_server.rs).                                                  *)
THEOREM BuildCorrect == Spec => []BuildInv
<1>1. BuildInv /\ [Next]_vars => BuildInv'
  BY BuildStep
<1> QED BY <1>1, BuildInit, PTL DEF Spec

(* Every variable keeps its type, in any instance. *)
THEOREM BuildTypes == Spec => []TypeOK
<1>1. BuildInv => TypeOK
  BY DEF BuildInv
<1> QED BY <1>1, BuildCorrect, PTL

(* The server among these workspaces is the server among any clients: the  *)
(* workspaces send it only requests, and its scripts leave only blobs and  *)
(* results, that CacheServer allows.                                       *)
THEOREM ServerInside == Spec => ServerSpec
<1>1. Init => ServerInit
  BY BuildInit
<1>2. BuildInv /\ [Next]_vars => [ServerNext]_serverVars
  BY BuildStep
<1> QED BY <1>1, <1>2, BuildCorrect, PTL DEF Spec, ServerSpec

(* Hence no client can make it corrupt a blob (handle_put_blob).           *)
THEOREM SystemStoreIntact == Spec => []BlobIntegrity
BY ServerInside, StoreIntact, PTL

(* And what the workspaces talk to is the abstract service: requests that  *)
(* take effect at one moment each, and true answers.                       *)
THEOREM SystemUsesService == Spec => ImplementsService
BY ServerInside, ServiceRefinement, PTL

(* A build reported as done left the output of its source, from wherever   *)
(* it came, for any interleaving of any number of workspaces, requests,    *)
(* crashes and corrupted blobs.  Where writes are lost unnoticed it is not *)
(* so: a target whose dependencies were lost is cached under the key of    *)
(* none (schedule_build_one, read_deps_out0), and a run on inputs that     *)
(* were not copied whole reads something else (handle_post_exec).          *)
THEOREM SourceBuilt == Spec => [](setup.lossy = {} => OutputOfSource)
<1>1. BuildInv => (setup.lossy = {} => OutputOfSource)
  BY DEF BuildInv, Workspaces, Reported, Lossless, OutputOfSource
<1> QED BY <1>1, BuildCorrect, PTL

(* ... and has its dependency recorded, so that the next change is seen.   *)
THEOREM DependencyRecorded == Spec => []DepsRecorded
<1>1. BuildInv => DepsRecorded
  BY DEF BuildInv, Workspaces, Reported, Lossless, DepsRecorded
<1> QED BY <1>1, BuildCorrect, PTL

(* No failure of the caches fails a build without remote execution         *)
(* (remote_cache.rs, schedule_build_one).                                  *)
THEOREM FallsBack == Spec => []CacheFallsBack
<1>1. BuildInv => CacheFallsBack
  BY DEF BuildInv, Workspaces, Reported, CacheFallsBack
<1> QED BY <1>1, BuildCorrect, PTL

=============================================================================
