------------------------------ MODULE GridMap ------------------------------
(***************************************************************************)
(* From an occupancy grid and a goal to what the costs depend on           *)
(* (vi_lib/src/state.rs, vi_lib/src/value_iterator.rs).  Lengths are in    *)
(* halves of a cell, angles in degrees, the penalty of a step on open      *)
(* ground is 1.                                                            *)
(***************************************************************************)
EXTENDS Original

\* from_occupancy, for the occupied cells occ.  The neighbourhood of a cell is
\* only checked against the ends of the array: at the edge of the map it goes
\* on in the row above or below, as in the program the code was ported from.
Occupied(occ, x, y) ==
    LET pos == y * Width + x
    IN  pos \in 0 .. Width * Height - 1 /\ CellAt(pos) \in occ
Penalty(occ, margin, penalty, c) ==
    IF c \notin occ /\ \E i, j \in -margin .. margin : Occupied(occ, c[1] + i, c[2] + j)
    THEN penalty + 1 ELSE 1
FromOccupancy(occ, margin, penalty) ==
    [free |-> [c \in Cell |-> c \notin occ],
     pen  |-> [c \in Cell |-> Penalty(occ, margin, penalty, c)]]

-----------------------------------------------------------------------------
(* A goal g is a position, a heading, and how far a final state may be off.*)

Square(n) == n * n
Distance2(x, y, g) == Square(x - g.x) + Square(y - g.y)

\* Two opposite corners of the cell are near the goal ...
CornersNear(c, g) ==
    /\ Distance2(2 * c[1], 2 * c[2], g) < Square(g.radius)
    /\ Distance2(2 * c[1] + 2, 2 * c[2] + 2, g) < Square(g.radius)

\* ... and the range of headings lies within the margin, or does a turn away.
Degrees(th) == (th * 360) \div NumTheta
HeadingNear(th, g) ==
    LET t == g.t % 360
        within(u) == u - g.margin <= Degrees(th) /\ Degrees(th + 1) <= u + g.margin
    IN  within(t) \/ within(IF t > 180 THEN t - 360 ELSE t + 360)

\* set_state_values: the final states.
SetStateValues(free, g) ==
    {s \in State : CornersNear(s[1], g) /\ free[s[1]] /\ HeadingNear(s[2], g)}

\* compute_finals: the same, but only in a box around the goal.
GoalBox(g) ==
    {c \in Cell : /\ c[1] \in ((g.x - g.radius) \div 2) - 1 .. ((g.x + g.radius + 1) \div 2) + 1
                  /\ c[2] \in ((g.y - g.radius) \div 2) - 1 .. ((g.y + g.radius + 1) \div 2) + 1}
ComputeFinals(free, g) ==
    {s \in GoalBox(g) \X Theta : /\ g.radius > 0 /\ free[s[1]]
                                 /\ CornersNear(s[1], g) /\ HeadingNear(s[2], g)}
=============================================================================
