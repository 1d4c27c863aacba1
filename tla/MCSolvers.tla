----------------------------- MODULE MCSolvers -----------------------------
(* A corridor of cells and a robot with three headings: with the first it  *)
(* drives towards larger x, with the second back, drifting into a turn     *)
(* half of the time, with the third it stays.  It can turn either way.     *)
(* The numbers keep the proportions of the code: an action whose outcomes  *)
(* are all unreached wraps around to a cost above ReachThresh.             *)
EXTENDS Solvers

To(x, h, p) == [dx |-> x, dy |-> 0, th |-> h, prob |-> p]
Forward(h) ==
    CASE h = 0 -> {To(1, 0, 2)}
      [] h = 1 -> {To(-1, 1, 1), To(-1, 2, 1)}
      [] h = 2 -> {To(0, 0, 2)}
Turn(h, by) == {To(0, (h + by) % NumTheta, 2)}
MCTrans == [h \in Theta |-> <<Forward(h), Turn(h, 1), Turn(h, 2)>>]

Open == [c \in Cell |-> TRUE]
Walled == [c \in Cell |-> c # <<2, 0>>]
Flat == [c \in Cell |-> 1]
Hilly == [c \in Cell |-> IF c[1] = 1 THEN 4 ELSE 1]
Goal(c) == {s \in State : s[1] = c}
AMap(free, pen, final) == [free |-> free, pen |-> pen, final |-> final]
\* [s \in State |-> Op(s)], evaluated by TLC once instead of at every use.
Table(Op(_)) == FoldSet(LAMBDA s, f : f @@ (s :> Op(s)), <<>>, State)
Empty(m) ==
    [val |-> Table(LAMBDA s : IF s \in m.final THEN 0 ELSE MaxCost),
     act |-> Table(LAMBDA s : None)]

Fresh(m) == [map |-> m, start |-> Empty(m), fresh |-> TRUE]
\* A field solved on m, swept again after its penalties became those of n.
Resweep(m, n) == [map |-> n, start |-> Original(m, Empty(m)), fresh |-> FALSE]

LeftEnd == AMap(Open, Hilly, {<<<<0, 0>>, 0>>})
LeftFlat == AMap(Open, Flat, {<<<<0, 0>>, 0>>})
Middle == AMap(Open, Flat, Goal(<<1, 0>>))
CutOff == AMap(Walled, Flat, Goal(<<0, 0>>))
MCWorlds ==
    {Fresh(LeftEnd), Fresh(Middle), Fresh(CutOff),
     Resweep(LeftEnd, LeftFlat), Resweep(LeftFlat, LeftEnd)}
MCCoarse == <<4, 2>>

\* Sweeps is large enough: another sweep of the oracle would change nothing.
ASSUME OracleHasSettled ==
    \A w \in Worlds :
        LET g == Original(w.map, w.start).val
            h == Sweep(w.map, [val |-> g, act |-> w.start.act]).val
        IN  \A s \in State : g[s] < ReachThresh \/ h[s] < ReachThresh => g[s] = h[s]
=============================================================================
