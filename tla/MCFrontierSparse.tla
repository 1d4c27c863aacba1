-------------------------- MODULE MCFrontierSparse --------------------------
(* A robot with four headings that drives one cell forward or turns by a   *)
(* quarter.  Driving towards x = 0 it may drift by one row, the way a      *)
(* heading that stands for a range of angles does.  The numbers keep the   *)
(* proportions of the code, as in MCPlannerCore.                           *)
EXTENDS FrontierSparse

To(x, y, h, p) == [dx |-> x, dy |-> y, th |-> h, prob |-> p]
Forward(h) ==
    CASE h = 0 -> {To(1, 0, h, 2)}
      [] h = 1 -> {To(0, 1, h, 2)}
      [] h = 2 -> {To(-1, 0, h, 1), To(-1, 1, h, 1)}
      [] h = 3 -> {To(0, -1, h, 2)}
Turn(h, by) == {To(0, 0, (h + by) % NumTheta, 2)}
MCTrans == [h \in Theta |-> <<Forward(h), Turn(h, 1), Turn(h, 3)>>]

MCFree == [c \in Cell |-> TRUE]
MCPen == [c \in Cell |-> 1]
MCFinal == {s \in State : s[1] = <<0, 0>>}

Empty ==
    [val |-> [s \in State |-> IF s \in Final THEN 0 ELSE MaxCost],
     act |-> [s \in State |-> None]]

\* Resweep: an observation made one cell dearer and another cheaper since the
\* field was solved.
Before == [c \in Cell |-> IF c = <<1, 1>> THEN 4 ELSE 1]
After == [c \in Cell |-> IF c = <<1, 0>> THEN 3 ELSE 1]
FromBoth == {Original([Map EXCEPT !.pen = Before], Empty), Empty}

\* Sweeps is large enough: another sweep of the oracle would change nothing.
ASSUME OracleHasSettled ==
    \A f \in Starts :
        LET g == Original(Map, f)
        IN  \A s \in State : UpdateAt(Map, g, s) = g
=============================================================================
