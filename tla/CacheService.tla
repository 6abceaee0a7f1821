---------------------------- MODULE CacheService ----------------------------
(***************************************************************************)
(* What redo-cache-server promises its clients, whatever its threads do:   *)
(* every request takes effect at one moment, at most once, and its answer  *)
(* tells the truth about that moment.  A blob that was stored stays; a     *)
(* mapping is never removed.  A request may have taken effect although its *)
(* client never hears of it.                                               *)
(***************************************************************************)
CONSTANTS Handler, Blob, Key, Request, None

VARIABLES stored,    \* the blobs a GET finds
          mapping,   \* ActionKey -> manifest, or None
          request,   \* request[x]: what connection x asks for, or None
          answer     \* answer[x]: the status code, once the request took effect

vars == <<stored, mapping, request, answer>>

Init == /\ stored = {}
        /\ mapping = [k \in Key |-> None]
        /\ request = [x \in Handler |-> None]
        /\ answer = [x \in Handler |-> None]

(* A connection is opened with a request. *)
Open(x) == /\ request[x] = None
           /\ request'[x] \in Request
           /\ request' = [request EXCEPT ![x] = request'[x]]
           /\ UNCHANGED <<stored, mapping, answer>>

(* Connections end, by their client or with the server process: those in   *)
(* gone nobody waits for, the clients of those in lost get an error,       *)
(* although the request may have taken effect.                             *)
Drop(gone, lost) ==
    /\ request' = [x \in Handler |-> IF x \in gone THEN None ELSE request[x]]
    /\ answer' = [x \in Handler |-> IF x \in gone THEN None
                                    ELSE IF x \in lost THEN "err" ELSE answer[x]]
    /\ UNCHANGED <<stored, mapping>>

(* The answer is given, or nobody waits for it any more. *)
Tell(x, code) == \/ answer' = [answer EXCEPT ![x] = code] /\ UNCHANGED request
                 \/ request' = [request EXCEPT ![x] = None] /\ UNCHANGED answer

(* 200 for a blob: it is there.  200 for a mapping: it is the mapping.     *)
(* 409: another mapping is there.  Any other answer: nothing happened.     *)
Apply(x) ==
    LET r == request[x] IN
    /\ r # None /\ answer[x] = None
    /\ \/ /\ r.op = "putB" /\ Tell(x, "200")
          /\ stored' = stored \cup {r.name} /\ UNCHANGED mapping
       \/ /\ r.op = "putA" /\ Tell(x, "200")
          /\ mapping' = [mapping EXCEPT ![r.key] = r.man] /\ UNCHANGED stored
       \/ /\ r.op = "putA" /\ Tell(x, "409")
          /\ mapping[r.key] \notin {None, r.man} /\ UNCHANGED <<stored, mapping>>
       \/ /\ r.op = "exec" /\ Tell(x, "200")
          /\ stored \subseteq stored' /\ stored' \subseteq Blob /\ UNCHANGED mapping
       \/ /\ \E code \in {"400", "403", "404", "err"} : Tell(x, code)
          /\ UNCHANGED <<stored, mapping>>

Next == \/ \E x \in Handler : Open(x) \/ Apply(x)
        \/ \E gone, lost \in SUBSET Handler : Drop(gone, lost)

Spec == Init /\ [][Next]_vars
=============================================================================
