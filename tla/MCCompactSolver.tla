--------------------------- MODULE MCCompactSolver ---------------------------
(* A map of three by six cells in blocks of two rows, and a robot with two *)
(* headings that drives along x or along y, forward or back, and turns in  *)
(* place.  All but one of its drives may drift, sideways or into a turn.   *)
EXTENDS CompactSolver

To(x, y, h, p) == [dx |-> x, dy |-> y, th |-> h, prob |-> p]
MCTrans ==
    (0 :> <<{To(1, 0, 0, 2), To(1, 0, 1, 2)}, {To(-1, 0, 0, 3), To(-1, -1, 0, 1)},
            {To(0, 0, 1, 4)}>>) @@
    (1 :> <<{To(0, 1, 1, 3), To(-1, 1, 1, 1)}, {To(0, -1, 1, 4)}, {To(0, 0, 0, 4)}>>)

Zero == [c \in Cell |-> 0]
Scan == [c \in Cell |-> IF c = <<1, 2>> THEN 2 ELSE 0]

\* Goals of one cell and of four.
One == [x |-> 1, y |-> 1, t |-> 90, radius |-> 2, margin |-> 90]
Four == [x |-> 2, y |-> 2, t |-> 450, radius |-> 3, margin |-> 90]

World(occ, margin, goal, local, limit) ==
    [occ |-> occ, margin |-> margin, penalty |-> 2, goal |-> goal, local |-> local,
     limit |-> limit]
Wall == {<<0, 3>>, <<1, 3>>}

\* A corner is missing, with time and without; a lane; a wall, with its margin
\* and without.
MCWorlds ==
    {World({<<2, 0>>}, 0, One, Zero, 50), World({<<2, 0>>}, 0, One, Zero, 6),
     World({1, 2} \X (0 .. 5), 0, One, Zero, 50),
     World(Wall, 1, One, Zero, 50), World(Wall, 0, Four, Scan, 50)}
=============================================================================
