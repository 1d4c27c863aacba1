---------------------------- MODULE MCFollowLoop ----------------------------
(* Two goals; requests and servers are chosen in the configurations.       *)
EXTENDS FollowLoop, TLC

CONSTANTS g1, g2, r1, r2, p1

Tours == {<<>>, <<g1>>, <<g1, g2>>}
NoLimit == -1
One == {<<g1>>}
Both == {<<g1>>, <<g2>>}

Requests == Permutations(Request)
=============================================================================
