--------------------------- MODULE MCRemoteBuild ---------------------------
(* Instances of RemoteBuild for TLC. *)
EXTENDS RemoteBuild, TLC

CONSTANTS c1, c2, i1, i2

MCBlob == Blobs
MCKey == Keys
MCResult == Results
MCPerishable == {b \in Blobs : b.kind \in {"out", "man"}}

Both(a, b) == c1 :> a @@ c2 :> b
Writable   == {[readOnly |-> FALSE, exec |-> TRUE]}

(* Two workspaces of one source build, push and pull at the same time. *)
Race == [options |-> Writable, inputs |-> Both({i1}, {i1}), deps |-> Both({TRUE}, {TRUE}),
         tags |-> Both({1}, {2}), remoteTags |-> {}, remote |-> {}, pushing |-> {c1, c2},
         lossy |-> {}, builds |-> Both(1, 1), edits |-> 0, crashes |-> 0, rot |-> 0]

(* One builds and pushes, another with perhaps another source pulls, while *)
(* the server crashes and its disk rots.                                   *)
Pull == [Race EXCEPT !.inputs = Both({i1}, {i1, i2}), !.tags = Both({1}, {1}),
                     !.pushing = {c1}, !.crashes = 1, !.rot = 1]

(* One workspace, built, edited and built again, with every kind of server. *)
Kinds == {[readOnly |-> FALSE, exec |-> TRUE], [readOnly |-> FALSE, exec |-> FALSE],
          [readOnly |-> TRUE, exec |-> TRUE]}
Alone == [Race EXCEPT !.options = Kinds, !.remoteTags = {1}, !.remote = {c2},
                      !.pushing = {c2}, !.builds = Both(0, 2), !.edits = 1]

(* The same workspace once, perhaps for the first time, where the server   *)
(* crashes and its disk rots, where the deps file or the flag gets lost,   *)
(* or where the server's copies of the inputs fail.                        *)
Once   == [Alone EXCEPT !.options = Writable, !.deps = Both({TRUE}, BOOLEAN),
                        !.builds = Both(0, 1), !.edits = 0]
Faulty == [Once EXCEPT !.crashes = 1, !.rot = 1]
Lossy  == [Once EXCEPT !.lossy = {"deps", "flag"}]
Cut    == [Once EXCEPT !.lossy = {"copy"}]

MCSetups   == {Race, Pull, Alone, Faulty, Lossy, Cut}
RaceSetups == {Race}
=============================================================================
