--------------------------- MODULE MCCompactField ---------------------------
(* A corridor with the goal at its left end.  The window is the robot's    *)
(* cell, the patch reaches two cells to either side, a tile is two cells   *)
(* long: a robot that walks the corridor leaves its patch and its tile.    *)
EXTENDS CompactField

CONSTANTS g1, f1

Left == {[dx |-> -1, dy |-> 0, th |-> 0, prob |-> 1]}
Right == {[dx |-> 1, dy |-> 0, th |-> 0, prob |-> 1]}
MCTrans == [th \in {0} |-> <<Left, Right>>]
MCMapFree == [c \in Cell |-> TRUE]
MCMapPen == [c \in Cell |-> 1]

Corridor(reached) ==
    [val |-> [s \in State |-> IF s[1][1] <= reached THEN s[1][1] ELSE MaxCost],
     act |-> [s \in State |-> IF s[1][1] \in 1 .. reached THEN 1 ELSE None]]
MCSolved == [g \in {g1} |-> Corridor(Width - 1)]
MCEarly == [g \in {g1} |-> {Corridor(1)}]

\* A job, a claim and the boundary are numbered only to be compared with the
\* number in force, and a new number is larger than all before: what the future
\* depends on is which of them agree.  Under this view MaxSerial is out of
\* reach; the epochs and the revisions bound the disturbances.
Numbered(job) ==
    IF job = None THEN None
    ELSE <<job.cells, job.v, job.epoch, job.id \in {inFlight, localInFlight}>>
Revised(job) ==
    IF job = None THEN None
    ELSE <<job.owner = owner, job.rev, job.brev = boundRev>>
Agreement ==
    <<fieldVars, patchVars, owned, deferred, certified, queue, dirty, inval, owner # 0,
      epoch, localRev, [f \in Follower |-> <<claim[f] # 0, claim[f] = owner>>],
      Numbered(gjob), Numbered(ljob), Revised(ljob)>>

Robots == {<<1, 0>>, <<3, 0>>}
=============================================================================
