------------------------------ MODULE MCSchur ------------------------------
(* A map of six by three cells in tiles of two by two, and a robot with    *)
(* two headings: with the first it drives along x, with the second along   *)
(* y, drifting into a turn half of the time.  It can drive back and turn.  *)
EXTENDS Schur

To(x, y, h, p) == [dx |-> x, dy |-> y, th |-> h, prob |-> p]
MCTrans ==
    (0 :> <<{To(1, 0, 0, 2)}, {To(-1, 0, 0, 2)}, {To(0, 0, 1, 2)}>>) @@
    (1 :> <<{To(0, 1, 1, 1), To(0, 1, 0, 1)}, {To(0, -1, 1, 2)}, {To(0, 0, 0, 2)}>>)

\* [s \in State |-> Op(s)], evaluated by TLC once instead of at every use.
Table(Op(_)) == FoldSet(LAMBDA s, f : f @@ (s :> Op(s)), <<>>, State)
Empty(m) ==
    [val |-> Table(LAMBDA s : IF s \in m.final THEN 0 ELSE MaxCost),
     act |-> Table(LAMBDA s : None)]

Wall == [c \in Cell |-> c[1] # 4 \/ c[2] = 1]
Shut == [c \in Cell |-> c[1] # 4]
Flat == [c \in Cell |-> 1]
Hilly == [c \in Cell |-> IF c[1] = 2 /\ c[2] < 2 THEN 3 ELSE 1]
AMap(free, pen) == [free |-> free, pen |-> pen, final |-> {<<<<0, 0>>, 0>>}]
Fresh(m) == [map |-> m, start |-> Empty(m), local |-> FALSE]

\* A door in the wall, steep cells on the way; a wall without a door; a solved
\* field whose costs have changed; a field with costs of the local window.
MCWorlds ==
    {Fresh(AMap(Wall, Hilly)), Fresh(AMap(Shut, Flat)),
     [map |-> AMap(Wall, Hilly), start |-> Original(AMap(Wall, Flat), Empty(AMap(Wall, Flat))),
      local |-> FALSE],
     [map |-> AMap(Wall, Hilly), start |-> Empty(AMap(Wall, Hilly)), local |-> TRUE]}
MCConfigs == <<[thetas |-> 2, spacing |-> 4], [thetas |-> 1, spacing |-> 1]>>
MCQueries ==
    {[kind |-> "solve", from |-> <<0, 0>>, build |-> "cpu"],
     [kind |-> "solve", from |-> <<0, 0>>, build |-> "gpu"],
     [kind |-> "corridor", from |-> <<2, 1>>, build |-> "cpu"]}

\* Sweeps is large enough: another sweep of the oracle would change nothing.
ASSUME OracleHasSettled ==
    \A w \in Worlds :
        LET g == Original(w.map, w.start).val
            h == Sweep(w.map, [val |-> g, act |-> w.start.act]).val
        IN  \A s \in State : g[s] < ReachThresh \/ h[s] < ReachThresh => g[s] = h[s]
=============================================================================
