----------------------------- MODULE Relaxation -----------------------------
(***************************************************************************)
(* What every solver of vi_lib/src/solvers promises of the field it works  *)
(* on, whatever its schedule: a step moves values only to what a Bellman   *)
(* update of the present values gives, and a solve is reported as          *)
(* converged only when no update of a reachable state would move anything  *)
(* (SolveOutcome::converged: "the fixpoint is reached").                   *)
(***************************************************************************)
EXTENDS Bellman

CONSTANT ReachThresh   \* REACH_THRESH: costs from here on count as not reached

VARIABLES map,         \* free, pen and final of the solve
          val,         \* the costs the solver works on
          result       \* "running", "converged" or "ended"

Moves(s) == map.free[s[1]] /\ s \notin map.final

\* An unreached successor makes an action worthless in the padded models; in
\* the original its cost wraps around.
Unreached(s, a) ==
    \E o \in Trans[s[2]][a] :
        Target(s, o) \notin Cell \/ val[<<Target(s, o), o.th>>] = MaxCost
ClampedCost(s) ==
    Least({MaxCost} \cup
          ({ActionCost(s, a, val, map.free, map.pen) :
              a \in {b \in Action : ~Unreached(s, b)}} \cap Cost))
RawCost(s) == MinActionCost(s, val, map.free, map.pen).cost

Init == val \in [State -> Cost] /\ result = "running"

\* Any set of states is updated at once, one by one or a whole round, and the
\* solve may end with that.
Relax ==
    /\ result = "running" /\ result' \in {"running", "ended"}
    /\ \A s \in State : \/ val'[s] = val[s]
                        \/ Moves(s) /\ val'[s] \in {RawCost(s), ClampedCost(s)}
    /\ UNCHANGED map

Settled == \A s \in State : (Moves(s) /\ RawCost(s) < ReachThresh) => val[s] = RawCost(s)

Converge ==
    /\ result = "running" /\ result' = "converged"
    /\ Settled
    /\ UNCHANGED <<map, val>>

Next == Relax \/ Converge
Spec == Init /\ [][Next]_<<map, val, result>>
=============================================================================
