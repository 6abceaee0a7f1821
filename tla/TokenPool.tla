----------------------------- MODULE TokenPool -----------------------------
(***************************************************************************)
(* What the jobserver promises to the builds that share it: a pool of      *)
(* Limit work permits.  A worker takes a free permit, gives its permit     *)
(* back, or hands it to another worker (a parent to the job it forks, a    *)
(* finished job to the parent that reaps it).  No step creates a permit.   *)
(***************************************************************************)
EXTENDS Integers, FiniteSets

CONSTANTS Worker,  \* the processes that may work
          Limit    \* the number of permits (-j)

VARIABLE busy      \* the workers that hold a permit

Init == busy \in { {w} : w \in Worker }

Enter(w) ==
    /\ w \notin busy
    /\ Cardinality(busy) < Limit
    /\ busy' = busy \cup {w}

Leave(w) ==
    /\ w \in busy
    /\ busy' = busy \ {w}

HandOver(v, w) ==
    /\ v \in busy
    /\ w \notin busy
    /\ busy' = (busy \ {v}) \cup {w}

Next ==
    \/ \E w \in Worker : Enter(w) \/ Leave(w)
    \/ \E v, w \in Worker : HandOver(v, w)

Spec == Init /\ [][Next]_busy
=============================================================================
