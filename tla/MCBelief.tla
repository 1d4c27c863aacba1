------------------------------ MODULE MCBelief ------------------------------
(* Instance of Belief for TLC: a corridor with a ghost wall.  The robot    *)
(* starts in front of it, and may be told so before its first scan.        *)
EXTENDS Belief

Rule(v, r) == [viterbi |-> v, recovery |-> r]
Sound == {Rule(FALSE, FALSE), Rule(TRUE, FALSE), Rule(FALSE, TRUE)}
ViterbiRecovery == {Rule(TRUE, TRUE)}
Home == {[x |-> 4, t |-> 0]}
Elsewhere == [x : {1, 7}, t : {0, 1, 2}] \cup Home
Commands == [r \in BOOLEAN |-> IF r THEN 7 ELSE 1]
Scans == [r \in BOOLEAN |-> IF r THEN 9 ELSE 12]
=============================================================================
