--------------------------- MODULE MCActionCache ---------------------------
(* Instances of ActionCache for TLC. *)
EXTENDS ActionCache

(* Scripts that give something else every time, processes that fail. *)
Local == [sizes |-> {1, 2}, versions |-> {1}, max |-> 2, remote |-> FALSE,
          builds |-> 4, edits |-> 0, faults |-> 2]
(* Outputs from a remote cache, stored after the target is unlocked. *)
Shared == [Local EXCEPT !.sizes = {2}, !.remote = TRUE, !.faults = 0]
(* Sources that change and change back, with and without a limit. *)
Edited == [Local EXCEPT !.sizes = {2}, !.versions = {1, 2}, !.builds = 3, !.edits = 2,
                        !.faults = 0]

MCSetups == {Local, Shared, Edited, [Edited EXCEPT !.max = 0]}
=============================================================================
