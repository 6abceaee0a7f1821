---------------------------- MODULE MCBuildState ----------------------------
(* Small source trees for BuildState. *)
EXTENDS BuildState

Ask(fs_) == [op |-> "ifchange", on |-> fs_]
Absence(f) == [op |-> "ifcreate", on |-> <<f>>]
AlwaysOp == [op |-> "always", on |-> <<>>]
StampOp == [op |-> "stamp", on |-> <<>>]
Same(ops) == [v \in Data |-> ops]

Typed(c, t) == [cmd |-> c, args |-> <<t>>]

(* r asks for d, or in its other version for s; d is built by default.do   *)
(* until there is a d.do, which wants no x.                                *)
PlainSource == {"s", "x", "r.do", "d.do", "default.do"}
PlainTarget == {"r", "d"}
PlainOrder == <<"//ALWAYS", "r", "r.do", "d", "d.do", "default.do", "s", "x">>
PlainCands == ("r" :> <<"r.do">>) @@ ("d" :> <<"d.do", "default.do">>)
PlainScript == [f \in {"r.do", "d.do", "default.do"} |->
    CASE f = "r.do" -> [v \in Data |-> IF v = 0 THEN <<Ask(<<"d">>)>> ELSE <<Ask(<<"s">>)>>]
      [] f = "d.do" -> Same(<<Absence("x")>>)
      [] f = "default.do" -> Same(<<Ask(<<"s">>)>>)]
PlainCommands == {Typed("ifchange", "r"), Typed("redo", "d")}
PlainAbsent == {"x", "d.do"}

(* p, which writes nothing, asks for r, r for the checksummed c, c for s,  *)
(* and q always looks at the world but stamps what it sees.                *)
StampSource == {"s", "p.do", "r.do", "c.do", "q.do"}
StampTarget == {"p", "r", "c", "q"}
StampOrder == <<"//ALWAYS", "p", "p.do", "r", "r.do", "c", "c.do", "q", "q.do", "s">>
StampCands == ("p" :> <<"p.do">>) @@ ("r" :> <<"r.do">>) @@ ("c" :> <<"c.do">>) @@ ("q" :> <<"q.do">>)
StampScript == [f \in StampSource \ {"s"} |->
    CASE f = "p.do" -> Same(<<Ask(<<"r">>)>>)
      [] f = "r.do" -> Same(<<Ask(<<"c", "q">>)>>)
      [] f = "c.do" -> Same(<<Ask(<<"s">>), StampOp>>)
      [] f = "q.do" -> Same(<<AlwaysOp, StampOp>>)]
StampCommands == {Typed("ifchange", "p"), Typed("ifchange", "r"), Typed("redo", "c")}
StampFixed == {"p.do", "r.do", "c.do", "q.do"}

(* r asks for d and for the source s; in DeepScript d asks for s. *)
PairSource == {"s", "r.do", "d.do"}
PairTarget == {"r", "d"}
PairOrder == <<"//ALWAYS", "r", "r.do", "d", "d.do", "s">>
PairCands == ("r" :> <<"r.do">>) @@ ("d" :> <<"d.do">>)
PairScript == [f \in {"r.do", "d.do"} |->
    IF f = "r.do" THEN Same(<<Ask(<<"d", "s">>)>>) ELSE Same(<<>>)]
DeepScript == [f \in {"r.do", "d.do"} |->
    IF f = "r.do" THEN Same(<<Ask(<<"d">>)>>) ELSE Same(<<Ask(<<"s">>)>>)]
PairCommands == {Typed("ifchange", "r"), Typed("redo", "d")}
PairFixed == {"r.do", "d.do"}

(* r asks for the checksummed c, c for s. *)
SumSource == {"s", "r.do", "c.do"}
SumTarget == {"r", "c"}
SumOrder == <<"//ALWAYS", "r", "r.do", "c", "c.do", "s">>
SumCands == ("r" :> <<"r.do">>) @@ ("c" :> <<"c.do">>)
SumScript == [f \in {"r.do", "c.do"} |->
    IF f = "r.do" THEN Same(<<Ask(<<"c">>)>>) ELSE Same(<<Ask(<<"s">>), StampOp>>)]
SumCommands == {Typed("ifchange", "r"), Typed("redo", "c")}
SumFixed == {"r.do", "c.do"}

-----------------------------------------------------------------------------
Tree(source, target, order, cands, script, commands) ==
    [source |-> source, target |-> target, order |-> order,
     cands |-> cands @@ [f \in source \cup {Always} |-> <<>>], script |-> script, commands |-> commands,
     phony |-> {}, flaky |-> {}, absent |-> {}, removable |-> {}, fixed |-> {},
     handEdited |-> {}, options |-> {}]

Plain == [Tree(PlainSource, PlainTarget, PlainOrder, PlainCands, PlainScript, PlainCommands)
            EXCEPT !.absent = PlainAbsent, !.removable = {"d.do"}, !.fixed = {"default.do"}]
Stamp_ == [Tree(StampSource, StampTarget, StampOrder, StampCands, StampScript, StampCommands)
            EXCEPT !.fixed = StampFixed, !.phony = {"p"}, !.flaky = {"c"},
                   !.handEdited = {"r"}, !.removable = {"s"}, !.options = {"KeepGoing"}]
Pair(script) == [Tree(PairSource, PairTarget, PairOrder, PairCands, script, PairCommands)
            EXCEPT !.fixed = PairFixed]
Sum == [Tree(SumSource, SumTarget, SumOrder, SumCands, SumScript, SumCommands)
            EXCEPT !.fixed = SumFixed]

(* The first tree edited, crashing and edited during runs; the pair with   *)
(* the action cache on.                                                    *)
PlainTrees == [n \in {"edit", "crash", "live", "cache"} |->
    CASE n = "edit"  -> [Plain EXCEPT !.flaky = {"d"}, !.handEdited = {"r", "d"},
                                      !.removable = {"s", "x", "d.do", "r.do"}]
      [] n = "crash" -> [Plain EXCEPT !.fixed = {"default.do", "x"}, !.options = {"Crashes"}]
      [] n = "live"  -> [Plain EXCEPT !.options = {"EditsInRun"}]
      [] n = "cache" -> [Pair(PairScript) EXCEPT !.removable = {"s"}, !.handEdited = {"d"},
                                                 !.flaky = {"d"}, !.options = {"CacheOn"}]]
StampTrees == "stamp" :> Stamp_

(* What goes wrong.  CrashSumTrees is of no run: with three values in Data *)
(* it violates UpToDate (redo_stamp.rs:64).                                *)
WindowTrees    == "window" :> [Pair(PairScript) EXCEPT !.options = {"Crashes", "LostRecord"}]
CrashSumTrees  == "sum" :> [Sum EXCEPT !.options = {"Crashes"}]
DeepTrees      == "deep" :> [Pair(DeepScript) EXCEPT !.options = {"CacheOn"}]
=============================================================================
