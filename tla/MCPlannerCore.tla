--------------------------- MODULE MCPlannerCore ---------------------------
(* A corridor of four cells with the goal at its left end, one heading and *)
(* the actions "left" and "right"; the cell at its right end is occupied   *)
(* on the map until a beam passes through it.  Two robots' worth of        *)
(* detours are possible in it: raising the cost of the goal cell makes     *)
(* turning back look cheaper than it is until the old policies are         *)
(* removed.  Numbers keep the proportions of the code: MaxCost is 3.7      *)
(* words, so an unreached cell looks 46 steps away.                        *)
EXTENDS PlannerCore, TLC

CONSTANTS g1, f1, f2

Left == {[dx |-> -1, dy |-> 0, th |-> 0, prob |-> 1]}
Right == {[dx |-> 1, dy |-> 0, th |-> 0, prob |-> 1]}
MCTrans == [th \in {0} |-> <<Left, Right>>]
At(x) == <<x, 0>>
MCFinal == [g \in {g1} |-> {<<At(0), 0>>}]
Wall == At(Width - 1)
MCMapFree == [c \in Cell |-> c # Wall]
MCMapPen == [c \in Cell |-> 1]

\* A field that is finished up to x = reached: the distance to the goal.  What
\* lies beyond has the value rest, and the wall is never visited.
Corridor(reached, rest, action) ==
    [val |-> [s \in State |-> IF s[1][1] <= reached THEN s[1][1]
                              ELSE IF s[1] = Wall THEN MaxCost ELSE rest],
     act |-> [s \in State |-> CASE s[1][1] = 0 \/ s[1] = Wall -> None
                                [] s[1][1] \in 1 .. reached -> 1
                                [] OTHER                    -> action]]
MCSolved == [g \in {g1} |-> Corridor(Width - 2, MaxCost, None)]

\* Stopped early: a frontier solver has finished only what is near the goal, a
\* sweeping one has also visited what it has not reached.
MCEarly == [g \in {g1} |-> {Corridor(1, MaxCost, None),
                            Corridor(1, (MaxCost + 1) % Word, 1)}]

\* A pass reads and writes its own snapshot only, so it commutes with every
\* other step: a job that has been handed out is finished first.
Busy(pass) == IF pass = None THEN FALSE ELSE pass.todo # {}
PassesFirst ==
    /\ Busy(gpass) => gpass' # gpass
    /\ Busy(lpass) /\ ~Busy(gpass) => lpass' # lpass

Followers == Permutations(Follower)

\* The window of a fresh field, and one that holds the wall and its neighbour.
MCInitWindow == {At(0)}
MCWindows == {MCInitWindow, {At(Width - 2), Wall}}
=============================================================================
