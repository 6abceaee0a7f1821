---------------------------- MODULE MCScheduler ----------------------------
(* Dependency graphs for Scheduler. *)
EXTENDS Scheduler

CONSTANTS a, b, x, y, z

Leaf == [t \in Target |-> <<>>]
NoOob == [t \in Target |-> {}]

(* a and b share y, which needs x. *)
SharedArgs == [Leaf EXCEPT ![a] = <<x, y>>, ![b] = <<z, y>>, ![y] = <<x>>]

(* Roots ask for the same targets in different orders. *)
CrossedArgs == [Leaf EXCEPT ![a] = <<x, y>>, ![b] = <<y, x>>, ![z] = <<x>>]

(* Two roots need x, whose dependency y has a checksum. *)
StampArgs == [Leaf EXCEPT ![a] = <<x>>, ![b] = <<x, y>>, ![x] = <<y>>, ![y] = <<z>>]
StampOob == [NoOob EXCEPT ![x] = {y}]

(* a needs b and b needs a; x needs y and y needs a. *)
CyclicArgs == [Leaf EXCEPT ![a] = <<y, b>>, ![b] = <<x, z, a>>, ![x] = <<y>>, ![y] = <<a>>]

(* a starts x and then needs itself, while b needs x. *)
SelfArgs == [Leaf EXCEPT ![a] = <<x, a>>, ![b] = <<x, y>>]

(* A chain of which every link is also asked for on the command line. *)
ChainArgs == [Leaf EXCEPT ![a] = <<x>>, ![x] = <<y>>, ![y] = <<b>>]

(* b needs a, a needs x; x has a checksum and was edited to need a.  Of no *)
(* run: on LoopGraph NoAncestorWait is violated (builder.rs:1594).         *)
LoopArgs == [Leaf EXCEPT ![b] = <<a>>, ![a] = <<x>>, ![x] = <<a>>]
LoopOob == [NoOob EXCEPT ![a] = {x}]

Graph(roots, args, usesRedo, oob, pooled, flaky, keepGoing, jobs) ==
    [roots |-> roots, args |-> args, usesRedo |-> usesRedo, oobDeps |-> oob,
     pooled |-> pooled, depth |-> 1, flaky |-> flaky, keepGoing |-> keepGoing,
     maxJobs |-> jobs]

MCGraphs == [n \in {"shared", "crossed", "stamp", "cyclic", "self"} |->
    CASE n = "shared"  -> Graph(<<a, b>>, SharedArgs, {b}, NoOob, {x, z}, {x, z}, FALSE, 2)
      [] n = "crossed" -> Graph(<<a, b, z>>, CrossedArgs, {}, NoOob, {x, y}, {}, TRUE, 3)
      [] n = "stamp"   -> Graph(<<a, b>>, StampArgs, {}, StampOob, {x}, {}, FALSE, 2)
      [] n = "cyclic"  -> Graph(<<a>>, CyclicArgs, {y}, NoOob, {}, {}, TRUE, 3)
      [] n = "self"    -> Graph(<<a, b>>, SelfArgs, {}, NoOob, {x, y}, {}, TRUE, 3)]

ChainGraph == [n \in {"chain"} |-> Graph(<<a, b, x, y>>, ChainArgs, {}, NoOob, {}, {}, FALSE, 2)]

LoopGraph == [n \in {"loop"} |-> Graph(<<b>>, LoopArgs, {}, LoopOob, {}, {}, FALSE, 2)]
=============================================================================
