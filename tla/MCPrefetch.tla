----------------------------- MODULE MCPrefetch -----------------------------
(* Three waypoints and one goal off the list, and the list may be replaced *)
(* while the robot drives: by one that turns back, by one that drops a     *)
(* point, by one that shares nothing with it.  The last waypoint of the    *)
(* first list cannot be solved.                                            *)
EXTENDS Prefetch

CONSTANTS a, b, c, u

MCGoal == {a, b, c, u}
MCLists == {<<a, b, c>>, <<b, a>>, <<a, c>>, <<u>>}
MCFailing == {c}
=============================================================================
