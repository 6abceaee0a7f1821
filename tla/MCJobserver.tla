---------------------------- MODULE MCJobserver ----------------------------
(* Instances of Jobserver for TLC. *)
EXTENDS Jobserver, TLC

(* Jobs that have not been forked are interchangeable. *)
JobSymmetry == Permutations(Proc \ {Top})
=============================================================================
