---------------------------- MODULE MCLogFollow ----------------------------
(* Instances of LogFollow for TLC. *)
EXTENDS LogFollow

CONSTANTS a, b, c

(* The log of an undisturbed run of a script. *)
OldLog(script) ==
    FoldLeft(LAMBDA s, i : IF script[i] = {} THEN Append(s, Say(0, i))
                           ELSE s \o [j \in 1..Cardinality(script[i]) |->
                                        Meta("do", SetToSeq(script[i])[j])],
             <<>>, [i \in DOMAIN script |-> i])

(* Two targets at once, which share a dependency. *)
Shared(p) == CASE p = Top -> <<{a, b}>>
               [] p = a   -> <<{c}, {}>>
               [] p = b   -> <<{c}>>
               [] p = c   -> <<{}>>
Pipe   == [mode |-> "pipe", pipe |-> 2, script |-> [p \in {Top, a, b, c} |-> Shared(p)],
           old |-> [p \in {a, b, c} |-> OldLog(Shared(p))], cached |-> {b}, pooled |-> {}]
Cat    == [Pipe EXCEPT !.mode = "cat", !.pooled = {c}]

(* Two targets and a pipe that holds one line. *)
Pair(p) == IF p = Top THEN <<{a, b}>> ELSE <<{}>>
Narrow  == [Pipe EXCEPT !.pipe = 1, !.script = [p \in {Top, a, b, c} |-> Pair(p)]]

(* One target and its dependency. *)
Chain(p) == CASE p = Top -> <<{a}>>
              [] p = a   -> <<{}, {c}, {}>>
              [] p = b   -> <<>>
              [] p = c   -> <<{}, {}>>
Follow == [mode |-> "follow", pipe |-> 2, script |-> [p \in {Top, a, b, c} |-> Chain(p)],
           old |-> [p \in {a, b, c} |-> OldLog(Chain(p))], cached |-> {c}, pooled |-> {c}]

MCSetups == {Pipe, Narrow, Cat, Follow}
=============================================================================
