--------------------------- MODULE SolversProofs ---------------------------
(***************************************************************************)
(* The solvers that keep a frontier implement Relaxation, for every map,   *)
(* transition table, start field and schedule of the observer: no state    *)
(* that an update would move is left out of the rounds, whatever shape the *)
(* frontier is grown in.  The solvers on a padded copy, threads that read  *)
(* unfinished rounds included, report no convergence short of a fixed      *)
(* point.                                                                  *)
(***************************************************************************)
EXTENDS Solvers, BellmanProofs

-----------------------------------------------------------------------------
(* The abstract module has its own copy of the operators of Bellman.       *)

\* Its sums are those of this module.
LEMMA SameSum == ASSUME NEW f PROVE Abstract!SumFunction(f) = SumFunction(f)
  BY Zenon DEF Abstract!SumFunction, SumFunction, Abstract!SumFunctionOnSet, SumFunctionOnSet,
               Abstract!FoldFunctionOnSet, FoldFunctionOnSet, Abstract!MapThenFoldSet, MapThenFoldSet

\* Its costs and its updates are those of this module.
LEMMA SameUpdate ==
    /\ Abstract!State = State /\ Abstract!Cost = Cost
    /\ \A s, v, free, pen :
          Abstract!MinActionCost(s, v, free, pen) = MinActionCost(s, v, free, pen)
<1>1. Abstract!State = State /\ Abstract!Cost = Cost /\ Abstract!Cell = Cell
      /\ Abstract!Action = Action
  BY DEF Abstract!State, State, Abstract!Cell, Cell, Abstract!Theta, Theta, Abstract!Cost, Cost,
         Abstract!Action, Action
<1>2. ASSUME NEW s, NEW a, NEW v, NEW free, NEW pen
      PROVE  Abstract!ActionCost(s, a, v, free, pen) = ActionCost(s, a, v, free, pen)
  BY <1>1, SameSum DEF Abstract!ActionCost, ActionCost, Abstract!Target, Target
<1>3. ASSUME NEW S PROVE Abstract!Least(S) = Least(S)
  BY DEF Abstract!Least, Least
<1>4. ASSUME NEW s, NEW v, NEW free, NEW pen
      PROVE  Abstract!MinActionCost(s, v, free, pen) = MinActionCost(s, v, free, pen)
  BY <1>1, <1>2, <1>3 DEF Abstract!MinActionCost, MinActionCost
<1>. QED
  BY <1>1, <1>4

-----------------------------------------------------------------------------
(* The frontiers: a state that reads a state of F is visited in the round  *)
(* after F moved.                                                          *)

\* frontier2d: cells.
LEMMA Covers2D ==
    ASSUME NEW s \in State, NEW F, NEW t \in Reads(s) \cap State, t \in F
    PROVE  <<0, s>> \in Candidates2D(F)
<1>1. s[1] \in Near(t[1]) /\ t[1] \in CellsOf(F)
  BY ReadsAreNear DEF CellsOf
<1>2. s \in Dilate(CellsOf(F)) \X Theta
  BY <1>1 DEF Dilate, State
<1>. QED
  BY <1>2 DEF Candidates2D, OneTurn

\* frontier3d: cells and headings.
LEMMA Covers3D ==
    ASSUME NEW s \in State, NEW F, NEW t \in Reads(s) \cap State, t \in F
    PROVE  <<s[2], s>> \in Candidates3D(F)
  BY ReadsAreNear DEF Candidates3D, ByHeading

\* Two headings within ThetaReach are a rotation of at most that many layers
\* apart, one way around or the other.
LEMMA Rotation ==
    ASSUME NEW u \in Theta, NEW th \in Theta, Circ(th, u) <= ThetaReach, th # u
    PROVE  \E st \in 1 .. ThetaReach : u = (th - st) % NumTheta \/ u = (th + st) % NumTheta
<1>. DEFINE N == NumTheta
<1>0. N \in Nat /\ N > 0 /\ u \in 0 .. N - 1 /\ th \in 0 .. N - 1
  BY BellmanAssumption DEF Theta
<1>1. ThetaReach \in Nat
  BY TurnIsBounded
<1>2. \A x \in 0 .. N - 1 : x % N = x /\ (x - N) % N = x /\ (x + N) % N = x
  BY <1>0
<1>. HIDE DEF N
<1>. DEFINE m == IF th < u THEN th - u + N ELSE th - u
<1>3. Circ(th, u) = IF m < N - m THEN m ELSE N - m
  BY DEF Circ, N
<1>4. m \in 1 .. N - 1
  BY <1>0
<1>5. CASE m < N - m
  <2>1. m \in 1 .. ThetaReach
    BY <1>0, <1>1, <1>3, <1>4, <1>5
  <2>2. u = (th - m) % N
    <3>1. th - m = u \/ th - m = u - N
      BY <1>0
    <3>. QED
      BY <1>0, <1>2, <3>1
  <2>. QED
    BY <2>1, <2>2 DEF N
<1>6. CASE ~(m < N - m)
  <2>1. N - m \in 1 .. ThetaReach
    BY <1>0, <1>1, <1>3, <1>4, <1>6
  <2>2. u = (th + (N - m)) % N
    <3>1. th + (N - m) = u \/ th + (N - m) = u + N
      BY <1>0
    <3>. QED
      BY <1>0, <1>2, <3>1
  <2>. QED
    BY <2>1, <2>2 DEF N
<1>. QED
  BY <1>5, <1>6

\* frontier_stack: one layer per heading.
LEMMA CoversStack ==
    ASSUME NEW s \in State, NEW F, NEW t \in Reads(s) \cap State, t \in F
    PROVE  <<s[2], s>> \in CandidatesStack(F)
<1>. DEFINE dilated == [th \in Theta |-> Dilate(CellsOf({u \in F : u[2] = th}))]
            layer(th) == dilated[th] \cup
                UNION {dilated[(th - st) % NumTheta] \cup dilated[(th + st) % NumTheta] :
                          st \in 1 .. ThetaReach}
<1>1. s[1] \in Near(t[1]) /\ Circ(s[2], t[2]) <= ThetaReach /\ s[2] \in Theta /\ t[2] \in Theta
  BY ReadsAreNear DEF State
<1>2. s[1] \in dilated[t[2]]
  BY <1>1 DEF Dilate, CellsOf
<1>. HIDE DEF dilated
<1>3. s[1] \in layer(s[2])
  <2>1. CASE s[2] = t[2]
    BY <1>2, <2>1
  <2>2. CASE s[2] # t[2]
    <3>1. PICK st \in 1 .. ThetaReach :
             t[2] = (s[2] - st) % NumTheta \/ t[2] = (s[2] + st) % NumTheta
      BY <1>1, <2>2, Rotation
    <3>2. s[1] \in dilated[(s[2] - st) % NumTheta] \cup dilated[(s[2] + st) % NumTheta]
      BY <1>2, <3>1
    <3>. QED
      BY <3>2
  <2>. QED
    BY <2>1, <2>2
<1>4. s \in {r \in State : r[1] \in layer(r[2])}
  BY <1>3
<1>. QED
  BY <1>4 DEF CandidatesStack, ByHeading, dilated

\* Cells that are at most d apart lie in blocks that are at most d blocks apart,
\* d divided by the size of a block and rounded up.
LEMMA BlocksAreNear ==
    ASSUME NEW size \in Nat \ {0}, NEW d \in Nat, NEW x \in Nat, NEW y \in Nat,
           x - y \in -d .. d
    PROVE  (x \div size) - (y \div size) \in -CeilDiv(d, size) .. CeilDiv(d, size)
<1>. DEFINE r == CeilDiv(d, size)
<1>0. size \in Nat /\ size > 0
  OBVIOUS
<1>1. r \in Nat /\ d <= size * r
  BY <1>0 DEF CeilDiv
<1>2. ASSUME NEW u \in Nat
      PROVE  u \div size \in Nat /\ size * (u \div size) <= u /\ u < size * (u \div size) + size
  BY <1>0
<1>. HIDE DEF r
<1>3. ASSUME NEW u \in Nat, NEW v \in Nat, v <= u + d
      PROVE  v \div size <= (u \div size) + r
  <2>. DEFINE p == u \div size  q == v \div size
  <2>1. p \in Nat /\ q \in Nat /\ u < size * p + size /\ size * q <= v
    BY <1>2
  <2>. HIDE DEF p, q
  <2>2. SUFFICES ASSUME p + r + 1 <= q PROVE FALSE
    BY <1>1, <2>1 DEF p, q
  <2>3. size * (p + r + 1) <= size * q
    BY <1>0, <1>1, <2>1, <2>2
  <2>4. size * (p + r + 1) = size * p + size * r + size
    BY <1>0, <1>1, <2>1
  <2>5. size * p \in Nat /\ size * r \in Nat /\ size * q \in Nat
    BY <1>0, <1>1, <2>1
  <2>. QED
    BY <1>0, <1>1, <1>3, <2>1, <2>3, <2>4, <2>5
<1>4. x <= y + d /\ y <= x + d
  OBVIOUS
<1>5. x \div size \in Nat /\ y \div size \in Nat
  BY <1>2
<1>6. x \div size <= (y \div size) + r /\ y \div size <= (x \div size) + r
  BY <1>3, <1>4
<1>7. (x \div size) - (y \div size) \in -r .. r
  BY <1>1, <1>5, <1>6
<1>. QED
  BY <1>7 DEF r

\* block_refine: blocks of any size.
LEMMA CoversBlock ==
    ASSUME NEW s \in State, NEW F, NEW t \in Reads(s) \cap State, t \in F,
           NEW size \in Nat \ {0}, map.free[s[1]]
    PROVE  <<BlockTurn(BlockOf(s[1], size), size, 0), s>> \in CandidatesBlock(F, size)
<1>. DEFINE d == Max({Reach, 1})  b == BlockOf(s[1], size)
<1>1. d \in Nat /\ Reach <= d
  <2>1. {Reach, 1} \subseteq 0 .. Reach + 1
    BY BellmanAssumption
  <2>. QED
    BY <2>1, MaxIsMost, BellmanAssumption
<1>. HIDE DEF d
<1>2. /\ s[1] \in Cell /\ t[1] \in Cell /\ s[1] \in Near(t[1])
  BY ReadsAreNear DEF State
<1>3. /\ s[1][1] \in Nat /\ s[1][2] \in Nat /\ t[1][1] \in Nat /\ t[1][2] \in Nat
      /\ s[1][1] - t[1][1] \in -d .. d /\ s[1][2] - t[1][2] \in -d .. d
  BY <1>1, <1>2, BellmanAssumption DEF Cell, Near
<1>4. /\ b[1] - BlockOf(t[1], size)[1] \in -CeilDiv(d, size) .. CeilDiv(d, size)
      /\ b[2] - BlockOf(t[1], size)[2] \in -CeilDiv(d, size) .. CeilDiv(d, size)
  BY <1>1, <1>3, BlocksAreNear DEF BlockOf
<1>5. Active(b, F, size)
  BY <1>2, <1>4 DEF Active, d
<1>6. 0 \in 0 .. LocalSweeps - 1
  BY SolversAssumption
<1>. QED
  BY <1>5, <1>6 DEF CandidatesBlock

-----------------------------------------------------------------------------
(* The inductive invariant.                                                *)

\* The solvers that go in rounds with a frontier, and those that implement
\* Relaxation in full with them: prio_ls and the racing threads never report a
\* fixed point.
Frontiers == {"frontier2d", "frontier3d", "stack", "block", "pyramid"}
Implementers == Frontiers \cup {"prio_ls", "multi"}

Typing ==
    /\ alg \in Implementers
    /\ \E w \in Worlds : map = w.map
    /\ phase \in {"round", "eval", "done"}
    /\ outcome = "running" <=> phase # "done"
    /\ alg # "multi" => val \in [State -> Cost]
    /\ alg \in Frontiers =>
          /\ level \in Levels
          /\ visits \subseteq Nat \X State /\ front \subseteq State /\ moved \subseteq State

Consistent(s) == val[s] = MinActionCost(s, val, map.free, map.pen).cost

\* The states whose readers are to be visited in the next round, and those that
\* are to be visited in this one.
Pending == IF phase = "eval" THEN moved ELSE front
Waiting(s) == phase = "eval" /\ \E v \in visits : v[2] = s

\* A state that an update would move reads a state that moved, or waits for its
\* visit; or nothing it reads was ever reached.
Covered ==
    (alg \in Frontiers /\ outcome = "running") =>
        \A s \in State : Moves(s) =>
            \/ Consistent(s)
            \/ Waiting(s)
            \/ Reads(s) \cap Pending # {}
            \/ \A t \in Reads(s) \cap State : val[t] = MaxCost

Inv == Typing /\ Covered

-----------------------------------------------------------------------------
(* The rounds.                                                             *)

\* There is a first visit.
LEMMA EarliestIsIn ==
    ASSUME NEW V, V \subseteq Nat \X State, V # {}
    PROVE  Earliest(V) \in V
<1>. DEFINE T == {v[1] : v \in V}
            U == {v \in V : v[1] = Least(T)}
            K == {IndexOf(v[2]) : v \in U}
<1>1. T \subseteq Nat /\ T # {}
  OBVIOUS
<1>2. Least(T) \in T /\ \A n \in T : Least(T) <= n
  BY <1>1, LeastIsLeast
<1>. HIDE DEF T
<1>3. U # {}
  BY <1>2 DEF T
<1>4. ASSUME NEW v \in V PROVE IndexOf(v[2]) \in Nat
  <2>. DEFINE x == v[2][1][1]  y == v[2][1][2]  th == v[2][2]
  <2>1. x \in Nat /\ y \in Nat /\ th \in Nat
    BY BellmanAssumption DEF State, Cell, Theta
  <2>. HIDE DEF x, y, th
  <2>2. \A i, j \in Nat : i * Width + j \in Nat /\ i * NumTheta + j \in Nat
    BY BellmanAssumption
  <2>. QED
    BY <2>1, <2>2 DEF IndexOf, x, y, th
<1>5. K \subseteq Nat /\ K # {}
  BY <1>3, <1>4
<1>6. Least(K) \in K /\ \A n \in K : Least(K) <= n
  BY <1>5, LeastIsLeast
<1>7. PICK v \in U : Least(K) = IndexOf(v[2])
  BY <1>6
<1>8. ASSUME NEW u \in V
      PROVE  v[1] < u[1] \/ (v[1] = u[1] /\ IndexOf(v[2]) <= IndexOf(u[2]))
  <2>1. v[1] = Least(T) /\ v[1] \in Nat /\ u[1] \in Nat /\ u[1] \in T
    BY <1>7 DEF T
  <2>2. v[1] <= u[1]
    BY <1>2, <2>1
  <2>3. CASE v[1] = u[1]
    <3>1. u \in U
      BY <2>1, <2>3
    <3>. QED
      BY <1>6, <1>7, <2>3, <3>1
  <2>. QED
    BY <2>1, <2>2, <2>3
<1>. QED
  BY <1>7, <1>8 DEF Earliest

\* The blocks of a level are not empty.
LEMMA LevelHasSize ==
    /\ Levels \subseteq Nat /\ LastLevel \in Levels
    /\ \A n \in Levels : SizeOf(n) \in Nat \ {0} /\ n <= LastLevel
<1>1. Len(CoarseSizes) \in Nat /\ DOMAIN CoarseSizes = 1 .. Len(CoarseSizes)
      /\ \A n \in DOMAIN CoarseSizes : CoarseSizes[n] \in Nat
  BY SolversAssumption
<1>. QED
  BY <1>1, SolversAssumption DEF Levels, LastLevel, SizeOf

\* What a round visits: states, and every state that reads one of F.
LEMMA CandidatesCover ==
    ASSUME alg \in Frontiers, level \in Levels, NEW F, F \subseteq State
    PROVE  /\ Candidates(F) \subseteq Nat \X State
           /\ \A s \in State : (Moves(s) /\ Reads(s) \cap F # {}) =>
                 \E v \in Candidates(F) : v[2] = s
<1>. DEFINE size == SizeOf(level)
<1>1. size \in Nat \ {0}
  BY LevelHasSize
<1>. HIDE DEF size
<1>2. Theta \subseteq Nat
  BY BellmanAssumption DEF Theta
<1>3. Candidates(F) = CASE alg = "frontier2d" -> Candidates2D(F)
                        [] alg = "frontier3d" -> Candidates3D(F)
                        [] alg = "stack"      -> CandidatesStack(F)
                        [] OTHER              -> CandidatesBlock(F, size)
  BY DEF Candidates, Frontiers, size
<1>4. Candidates2D(F) \subseteq Nat \X State
  <2>1. Dilate(CellsOf(F)) \subseteq Cell
    BY DEF Dilate, Near
  <2>. QED
    BY <2>1 DEF Candidates2D, OneTurn, State
<1>. DEFINE Listed(S) == ByHeading(S) \subseteq Nat \X State
<1>5. ASSUME NEW S, S \subseteq State PROVE Listed(S)
  <2>1. \A s \in S : s[2] \in Nat /\ s \in State
    BY <1>2, <1>5 DEF State
  <2>. QED
    BY <2>1 DEF ByHeading
<1>. HIDE DEF Listed
<1>6. Candidates3D(F) \subseteq Nat \X State /\ CandidatesStack(F) \subseteq Nat \X State
  <2>. DEFINE near == {s \in State : \E t \in F : s[1] \in Near(t[1])
                                                /\ Circ(s[2], t[2]) <= ThetaReach}
  <2>2. Listed(near)
    BY <1>5
  <2>3. Candidates3D(F) \subseteq Nat \X State
    BY <2>2 DEF Candidates3D, Listed
  <2>. DEFINE dilated == [th \in Theta |-> Dilate(CellsOf({t \in F : t[2] = th}))]
              layer(th) == dilated[th] \cup
                  UNION {dilated[(th - st) % NumTheta] \cup dilated[(th + st) % NumTheta] :
                            st \in 1 .. ThetaReach}
              layers == {s \in State : s[1] \in layer(s[2])}
  <2>4. Listed(layers)
    BY <1>5
  <2>5. CandidatesStack(F) \subseteq Nat \X State
    BY <2>4 DEF CandidatesStack, Listed
  <2>. QED
    BY <2>3, <2>5
<1>7. CandidatesBlock(F, size) \subseteq Nat \X State
  <2>1. ASSUME NEW s \in State, NEW n \in 0 .. LocalSweeps - 1
        PROVE  BlockTurn(BlockOf(s[1], size), size, n) \in Nat
    <3>. DEFINE bx == s[1][1] \div size  by == s[1][2] \div size  w == CeilDiv(Width, size)
    <3>1. s[1][1] \in Nat /\ s[1][2] \in Nat
      BY BellmanAssumption DEF State, Cell
    <3>2. \A i \in Nat : i \div size \in Nat
      BY <1>1
    <3>3. Width + size - 1 \in Nat
      BY <1>1, BellmanAssumption
    <3>4. bx \in Nat /\ by \in Nat /\ w \in Nat
      BY <3>1, <3>2, <3>3 DEF CeilDiv
    <3>5. n \in Nat /\ LocalSweeps \in Nat
      BY SolversAssumption
    <3>6. BlockTurn(BlockOf(s[1], size), size, n) = (by * w + bx) * LocalSweeps + n
      BY DEF BlockTurn, BlockOf
    <3>. HIDE DEF bx, by, w
    <3>7. by * w + bx \in Nat
      BY <3>4
    <3>8. (by * w + bx) * LocalSweeps \in Nat
      BY <3>7, <3>5
    <3>. QED
      BY <3>6, <3>8, <3>5
  <2>. QED
    BY <2>1 DEF CandidatesBlock
<1>8. ASSUME NEW s \in State, Moves(s), Reads(s) \cap F # {}
      PROVE  \E v \in Candidates(F) : v[2] = s
  <2>1. PICK t \in Reads(s) \cap State : t \in F
    BY <1>8
  <2>2. CASE alg = "frontier2d"
    <3>1. <<0, s>> \in Candidates2D(F)
      BY <2>1, Covers2D
    <3>. QED
      BY <1>3, <2>2, <3>1
  <2>3. CASE alg = "frontier3d"
    <3>1. <<s[2], s>> \in Candidates3D(F)
      BY <2>1, Covers3D
    <3>. QED
      BY <1>3, <2>3, <3>1
  <2>4. CASE alg = "stack"
    <3>1. <<s[2], s>> \in CandidatesStack(F)
      BY <2>1, CoversStack
    <3>. QED
      BY <1>3, <2>4, <3>1
  <2>5. CASE alg \in {"block", "pyramid"}
    <3>1. map.free[s[1]]
      BY <1>8 DEF Moves, Evaluated
    <3>2. <<BlockTurn(BlockOf(s[1], size), size, 0), s>> \in CandidatesBlock(F, size)
      BY <1>1, <2>1, <3>1, CoversBlock
    <3>. QED
      BY <1>3, <2>5, <3>2
  <2>. QED
    BY <2>2, <2>3, <2>4, <2>5 DEF Frontiers
<1>9. Candidates(F) \subseteq Nat \X State
  BY <1>3, <1>4, <1>6, <1>7
<1>. QED
  BY <1>8, <1>9

-----------------------------------------------------------------------------
(* The steps.                                                              *)

\* A solve starts with every reached state in the frontier.
LEMMA InvInit == Init /\ alg \in Implementers => Inv
<1>. SUFFICES ASSUME Init, alg \in Implementers PROVE Inv
  OBVIOUS
<1>1. PICK w \in Worlds : world.map = w.map /\ val = w.start.val
  BY DEF Init
<1>2. val \in [State -> Cost]
  BY <1>1, SolversAssumption
<1>3. Least(Levels) \in Levels
  BY LevelHasSize, LeastIsLeast
<1>4. alg \in Frontiers => front = Seed
  BY DEF Init, Frontiers
<1>5. Seed \subseteq State
  BY DEF Seed
<1>6. visits = {} /\ moved = {} /\ level = Least(Levels) /\ phase = "round" /\ outcome = "running"
  BY DEF Init
<1>7. Typing
  BY <1>1, <1>2, <1>3, <1>4, <1>5, <1>6 DEF Typing, map
<1>8. Covered
  <2>. SUFFICES ASSUME alg \in Frontiers, NEW s \in State, Reads(s) \cap Pending = {},
                       NEW t \in Reads(s) \cap State
                PROVE  val[t] = MaxCost
    BY DEF Covered
  <2>1. ~(val[t] < MaxCost)
    BY <1>4, <1>6 DEF Pending, Seed
  <2>. QED
    BY <1>2, <2>1, BellmanAssumption DEF Cost
<1>. QED
  BY <1>7, <1>8 DEF Inv

\* An update in place: what it moves is in moved, and nothing else changes.
LEMMA EvaluateStep ==
    ASSUME Inv, Evaluate, alg \in Frontiers
    PROVE  Inv' /\ \A s \in State : \/ val'[s] = val[s]
                                    \/ Moves(s) /\ val'[s] = MinActionCost(s, val, map.free, map.pen).cost
<1>. DEFINE visit == Earliest(visits)
            s == visit[2]
            b == MinActionCost(s, val, map.free, map.pen)
<1>1. /\ phase = "eval" /\ phase' = "eval" /\ outcome = "running" /\ outcome' = "running"
      /\ alg' = alg /\ world' = world /\ level' = level /\ front' = front
      /\ visits # {} /\ visits' = visits \ {visit}
      /\ val \in [State -> Cost] /\ visits \subseteq Nat \X State
  BY DEF Evaluate, Inv, Typing, Frontiers
<1>2. visit \in visits /\ s \in State
  BY <1>1, EarliestIsIn
<1>3. b.cost \in Cost
  BY MinActionCostType
<1>. HIDE DEF visit
<1>4. /\ val' = IF Moves(s) THEN [val EXCEPT ![s] = b.cost] ELSE val
      /\ moved' = IF val'[s] # val[s] THEN moved \cup {s} ELSE moved
  BY DEF Evaluate, UpdateAt, Moves, visit
<1>. HIDE DEF b
<1>5. /\ val' \in [State -> Cost]
      /\ \A t \in State : t # s => val'[t] = val[t]
      /\ Moves(s) => val'[s] = b.cost
      /\ ~Moves(s) => val'[s] = val[s]
  BY <1>1, <1>2, <1>3, <1>4
<1>6. Typing'
  BY <1>1, <1>2, <1>4, <1>5 DEF Inv, Typing, map, Levels
<1>7. Covered'
  <2>. SUFFICES ASSUME NEW t \in State, Moves(t)', ~Waiting(t)', Reads(t) \cap Pending' = {},
                       \E r \in Reads(t) \cap State : val'[r] # MaxCost
                PROVE  Consistent(t)'
    BY DEF Covered
  <2>1. Moves(t) /\ map' = map /\ Pending' = moved' /\ Pending = moved
    BY <1>1 DEF Moves, map, Pending
  <2>2. \A r \in Reads(t) \cap State : val'[r] = val[r]
    <3>. SUFFICES ASSUME NEW r \in Reads(t) \cap State, val'[r] # val[r] PROVE FALSE
      OBVIOUS
    <3>1. r = s
      BY <1>5
    <3>2. s \in moved'
      BY <1>4, <3>1
    <3>. QED
      BY <2>1, <3>1, <3>2
  <2>3. MinActionCost(t, val', map.free, map.pen) = MinActionCost(t, val, map.free, map.pen)
    BY <2>2, CostsDependOnReads
  <2>4. CASE t = s
    BY <1>5, <2>1, <2>3, <2>4 DEF Consistent, b
  <2>5. CASE t # s
    <3>1. ~Waiting(t)
      <4>. SUFFICES ASSUME NEW v \in visits, v[2] = t PROVE FALSE
        BY DEF Waiting
      <4>1. v \in visits'
        BY <1>1, <2>5
      <4>. QED
        BY <1>1, <4>1 DEF Waiting
    <3>2. Reads(t) \cap Pending = {}
      BY <1>4, <2>1
    <3>3. Consistent(t)
      BY <1>1, <2>1, <2>2, <3>1, <3>2 DEF Inv, Covered
    <3>4. val'[t] = val[t]
      BY <1>5, <2>5
    <3>. QED
      BY <2>1, <2>3, <3>3, <3>4 DEF Consistent
  <2>. QED
    BY <2>4, <2>5
<1>8. ASSUME NEW t \in State
      PROVE  \/ val'[t] = val[t]
             \/ Moves(t) /\ val'[t] = MinActionCost(t, val, map.free, map.pen).cost
  BY <1>5 DEF b
<1>. QED
  BY <1>6, <1>7, <1>8 DEF Inv

\* The ends of rounds and levels: a round begins with every state that reads
\* one that moved, a level with every state that reads one that is reached.
LEMMA RoundStep ==
    ASSUME Inv, StartRound \/ EndRound \/ EndLevel, alg \in Frontiers
    PROVE  Inv' /\ val' = val
<1>0. /\ alg' = alg /\ world' = world /\ map' = map /\ val' = val
      /\ outcome = "running" /\ val \in [State -> Cost] /\ level \in Levels
      /\ visits \subseteq Nat \X State /\ front \subseteq State /\ moved \subseteq State
      /\ (phase # "done" <=> outcome = "running") /\ Levels' = Levels
  BY DEF StartRound, EndRound, EndLevel, Inv, Typing, Frontiers, map, Levels
<1>1. \A s \in State : Consistent(s)' = Consistent(s) /\ Moves(s)' = Moves(s)
  BY <1>0 DEF Consistent, Moves
<1>2. CASE StartRound
  <2>1. /\ phase = "round" /\ phase' = "eval" /\ outcome' = outcome /\ level' = level
        /\ front' = front /\ moved' = {} /\ visits' = Candidates(front)
    BY <1>2 DEF StartRound
  <2>2. /\ visits' \subseteq Nat \X State
        /\ \A s \in State : (Moves(s) /\ Reads(s) \cap front # {}) => \E v \in visits' : v[2] = s
    BY <1>0, <2>1, CandidatesCover
  <2>3. Typing'
    BY <1>0, <2>1, <2>2 DEF Inv, Typing
  <2>4. Covered'
    <3>. SUFFICES ASSUME NEW s \in State, Moves(s)', ~Consistent(s)', ~Waiting(s)'
                  PROVE  \A t \in Reads(s) \cap State : val'[t] = MaxCost
      BY DEF Covered
    <3>1. Reads(s) \cap front = {}
      BY <1>1, <2>1, <2>2 DEF Waiting
    <3>2. ~Waiting(s) /\ Pending = front
      BY <2>1 DEF Waiting, Pending
    <3>. QED
      BY <1>0, <1>1, <3>1, <3>2 DEF Inv, Covered
  <2>. QED
    BY <1>0, <2>3, <2>4 DEF Inv
<1>3. CASE EndRound
  <2>1. /\ phase = "eval" /\ visits = {} /\ front' = moved /\ visits' = visits /\ moved' = moved
        /\ level' = level
        /\ \/ phase' = "round" /\ outcome' = outcome
           \/ phase' = "done" /\ outcome' # "running"
    BY <1>3 DEF EndRound, Progress, Frontiers, Ending
  <2>2. Typing'
    BY <1>0, <2>1 DEF Inv, Typing
  <2>3. Covered'
    <3>. SUFFICES ASSUME outcome' = "running", NEW s \in State, Moves(s)', ~Consistent(s)',
                         Reads(s) \cap Pending' = {}
                  PROVE  \A t \in Reads(s) \cap State : val'[t] = MaxCost
      BY DEF Covered
    <3>1. ~Waiting(s) /\ Pending = moved /\ Pending' = moved
      BY <1>0, <2>1 DEF Waiting, Pending
    <3>. QED
      BY <1>0, <1>1, <3>1 DEF Inv, Covered
  <2>. QED
    BY <1>0, <2>2, <2>3 DEF Inv
<1>4. CASE EndLevel
  <2>1. /\ phase = "round" /\ visits' = visits /\ moved' = moved
        /\ \/ /\ level < LastLevel /\ level' = Least({n \in Levels : n > level})
              /\ front' = Seed /\ phase' = phase /\ outcome' = outcome
           \/ /\ phase' = "done" /\ outcome' # "running" /\ level' = level /\ front' = front
    BY <1>4 DEF EndLevel
  <2>2. CASE outcome' # "running"
    <3>1. phase' = "done" /\ level' = level /\ front' = front
      BY <1>0, <2>1, <2>2
    <3>2. Typing'
      BY <1>0, <2>1, <2>2, <3>1 DEF Inv, Typing
    <3>. QED
      BY <1>0, <2>2, <3>2 DEF Inv, Covered
  <2>3. CASE outcome' = "running"
    <3>1. /\ phase' = phase /\ front' = Seed /\ level < LastLevel
          /\ level' = Least({n \in Levels : n > level})
      BY <2>1, <2>3
    <3>2. Seed \subseteq State
      BY DEF Seed
    <3>3. level' \in Levels
      <4>. DEFINE L == {n \in Levels : n > level}
      <4>1. L \subseteq Nat /\ L # {}
        BY <3>1, LevelHasSize
      <4>2. Least(L) \in L
        BY <4>1, LeastIsLeast
      <4>. QED
        BY <3>1, <4>2
    <3>4. Typing'
      BY <1>0, <2>1, <2>3, <3>1, <3>2, <3>3 DEF Inv, Typing
    <3>5. Covered'
      <4>. SUFFICES ASSUME NEW s \in State, Reads(s) \cap Pending' = {}, NEW t \in Reads(s) \cap State
                    PROVE  val'[t] = MaxCost
        BY DEF Covered
      <4>1. Pending' = Seed
        BY <2>1, <3>1 DEF Pending
      <4>2. ~(val[t] < MaxCost)
        BY <4>1 DEF Seed
      <4>. QED
        BY <1>0, <4>2, BellmanAssumption DEF Cost
    <3>. QED
      BY <1>0, <3>4, <3>5 DEF Inv
  <2>. QED
    BY <2>2, <2>3
<1>. QED
  BY <1>2, <1>3, <1>4

\* The priority queue and the racing threads: a label's predecessor is updated in
\* place; the threads leave the field that Relaxation is shown alone.
LEMMA OtherStep ==
    ASSUME Inv, [Next]_vars, alg \in {"prio_ls", "multi"}
    PROVE  /\ Inv' /\ map' = map /\ alg' = alg
           /\ outcome # "running" => outcome' = outcome /\ Values' = Values
           /\ outcome = "running" => Result' \in {"running", "ended"}
           /\ \A s \in State : \/ Values'[s] = Values[s]
                               \/ Moves(s) /\ Values'[s] = MinActionCost(s, Values, map.free, map.pen).cost
<1>0. Typing /\ alg \notin Frontiers /\ alg \notin InPlace
  BY DEF Inv, Frontiers, InPlace
<1>1. CASE UNCHANGED vars
  BY <1>0, <1>1 DEF vars, roundVars, threadVars, Inv, Typing, Covered, map, Values, Costs, Result
<1>2. CASE alg = "multi" /\ Next
  <2>1. /\ alg' = alg /\ world' = world /\ hot' = hot
        /\ \/ phase' = phase /\ outcome' = outcome
           \/ phase = "round" /\ phase' = "done" /\ outcome' = "exhausted"
    BY <1>0, <1>2
       DEF Next, SerialStep, ThreadStep, Priority, StartRound, Evaluate, EndRound, EndLevel, JacobiRound,
           JacobiEnd, GpuDilate, GpuRound, GpuEnd, Pop, RelaxPredecessor, HeapEmpty, RaceJoin,
           OrderedPass, OrderedBarrier, OrderedEnd, RaceRead, RaceWriteCost, RaceWriteAction,
           OrderedClaim, OrderedLower, OrderedDrain, OrderedRead, OrderedWrite, GpuRead, GpuWrite,
           serialVars
  <2>. QED
    BY <1>0, <1>2, <2>1 DEF Inv, Typing, Covered, map, Values, Result
<1>3. CASE alg = "prio_ls" /\ Next
  <2>1. Pop \/ RelaxPredecessor \/ HeapEmpty
    BY <1>0, <1>3
       DEF Next, SerialStep, ThreadStep, StartRound, Evaluate, EndRound, EndLevel, JacobiRound,
           JacobiEnd, GpuDilate, GpuRound, GpuEnd, RaceJoin,
           OrderedPass, OrderedBarrier, OrderedEnd, RaceRead, RaceWriteCost, RaceWriteAction,
           OrderedClaim, OrderedLower, OrderedDrain, OrderedRead, OrderedWrite, GpuRead, GpuWrite
  <2>2. alg' = alg /\ world' = world /\ Values = val /\ Values' = val' /\ val \in [State -> Cost]
    BY <1>0, <1>3, <2>1 DEF Pop, RelaxPredecessor, HeapEmpty, Values, Costs, Typing
  <2>3. Result' \in {"running", "ended"}
    BY <1>3, <2>2 DEF Result, Exact
  <2>4. CASE Pop \/ HeapEmpty
    <3>1. /\ val' = val /\ phase = "round"
          /\ \/ phase' \in {"round", "eval"} /\ outcome' = outcome
             \/ phase' = "done" /\ outcome' # "running"
      BY <2>4 DEF Pop, HeapEmpty, Ending
    <3>. QED
      BY <1>0, <1>3, <2>2, <2>3, <3>1 DEF Inv, Typing, Covered, map
  <2>5. CASE RelaxPredecessor
    <3>. DEFINE s == Head(work)
                b == MinActionCost(s, val, map.free, map.pen)
    <3>1. /\ phase = "eval" /\ phase' \in {"round", "eval"} /\ outcome' = outcome
          /\ val' = val \/ (Moves(s) /\ val' = [val EXCEPT ![s] = b.cost])
      BY <2>5 DEF RelaxPredecessor, UpdateAt, Moves
    <3>2. b.cost \in Cost
      BY MinActionCostType
    <3>. HIDE DEF s, b
    <3>3. /\ val' \in [State -> Cost]
          /\ \A t \in State : val'[t] = val[t] \/ (t = s /\ Moves(s) /\ val'[t] = b.cost)
      BY <2>2, <3>1, <3>2
    <3>4. Inv'
      BY <1>0, <1>3, <2>2, <3>1, <3>3 DEF Inv, Typing, Covered, map
    <3>5. outcome = "running"
      BY <1>0, <3>1 DEF Typing
    <3>. QED
      BY <2>2, <2>3, <3>3, <3>4, <3>5 DEF b, map
  <2>. QED
    BY <2>1, <2>4, <2>5
<1>. QED
  BY <1>1, <1>2, <1>3

\* A solver that reports convergence has nothing left to move: what reads no
\* state that was ever reached does not look reached.
LEMMA SettledAtTheEnd ==
    ASSUME Inv, EndLevel, alg \in Frontiers, outcome' = "converged", NEW s \in State, Moves(s),
           MinActionCost(s, val, map.free, map.pen).cost < ReachThresh
    PROVE  Consistent(s)
<1>1. phase = "round" /\ front = {} /\ outcome = "running"
  BY DEF EndLevel, Inv, Typing
<1>2. SUFFICES ASSUME \A t \in Reads(s) \cap State : val[t] = MaxCost PROVE FALSE
  BY <1>1 DEF Inv, Covered, Waiting, Pending
<1>3. \A t \in Reads(s) \cap State : val[t] = Blank[t]
  BY <1>2 DEF Blank
<1>4. PICK w \in Worlds : map = w.map
  BY DEF Inv, Typing
<1>5. \A a \in Action : ActionCost(s, a, val, map.free, map.pen) >= ReachThresh
  <2>1. \A a \in Action : ActionCost(s, a, val, map.free, map.pen) =
                           ActionCost(s, a, Blank, map.free, map.pen)
    <3>. DEFINE v == val  blank == Blank  free == map.free  pen == map.pen
    <3>1. \A t \in Reads(s) \cap State : v[t] = blank[t]
      BY <1>3
    <3>. HIDE DEF v, blank, free, pen
    <3>2. \A a \in Action : ActionCost(s, a, v, free, pen) = ActionCost(s, a, blank, free, pen)
      BY <3>1, CostsDependOnReads
    <3>. QED
      BY <3>2 DEF v, blank, free, pen
  <2>. QED
    BY <1>4, <2>1, WrapAssumption
<1>. DEFINE C == {MaxCost} \cup
                 ({r[1] : r \in {<<ActionCost(s, a, val, map.free, map.pen), a>> : a \in Action}}
                    \cap Cost)
<1>6. \A n \in C : n >= ReachThresh
  BY <1>5, SolversAssumption, BellmanAssumption DEF Cost
<1>7. MinActionCost(s, val, map.free, map.pen).cost = Least(C)
  BY DEF MinActionCost
<1>8. C \subseteq Nat /\ C # {}
  BY BellmanAssumption DEF Cost
<1>. HIDE DEF C
<1>9. Least(C) \in Nat /\ Least(C) >= ReachThresh
  BY <1>6, <1>8, LeastIsLeast
<1>10. ReachThresh \in Int
  BY SolversAssumption DEF Cost
<1>. QED
  BY <1>7, <1>9, <1>10

\* Values that are kept or updated from the present field are a step of Relaxation.
LEMMA RelaxIs ==
    ASSUME Result = "running", Result' \in {"running", "ended"}, map' = map,
           \A s \in State : \/ Values'[s] = Values[s]
                            \/ Moves(s) /\ Values'[s] = MinActionCost(s, Values, map.free, map.pen).cost
    PROVE  Abstract!Next
<1>1. \A s \in State : Abstract!Moves(s) = Moves(s)
  BY DEF Abstract!Moves, Moves, Evaluated
<1>2. \A s \in State : Abstract!RawCost(s) = MinActionCost(s, Values, map.free, map.pen).cost
  BY SameUpdate DEF Abstract!RawCost
<1>3. Abstract!Relax
  BY <1>1, <1>2, SameUpdate DEF Abstract!Relax
<1>. QED
  BY <1>3 DEF Abstract!Next

\* Every step of a solver is a step of Relaxation, or leaves its variables alone.
LEMMA StepImplements ==
    ASSUME Inv, [Next]_vars
    PROVE  Inv' /\ [Abstract!Next]_<<map, Values, Result>>
<1>0. Typing /\ alg \in Frontiers \cup {"prio_ls", "multi"}
  BY DEF Inv, Typing, Implementers
<1>1. CASE alg \in {"prio_ls", "multi"}
  <2>1. /\ Inv' /\ map' = map /\ alg' = alg
        /\ outcome # "running" => outcome' = outcome /\ Values' = Values
        /\ outcome = "running" => Result' \in {"running", "ended"}
        /\ \A s \in State : \/ Values'[s] = Values[s]
                            \/ Moves(s) /\ Values'[s] = MinActionCost(s, Values, map.free, map.pen).cost
    BY <1>1, OtherStep
  <2>2. CASE outcome # "running"
    BY <2>1, <2>2 DEF Result
  <2>3. CASE outcome = "running"
    <3>1. Result = "running"
      BY <2>3 DEF Result
    <3>. QED
      BY <2>1, <2>3, <3>1, RelaxIs
  <2>. QED
    BY <2>2, <2>3
<1>2. CASE alg \in Frontiers /\ UNCHANGED vars
  BY <1>2 DEF vars, roundVars, threadVars, Inv, Typing, Covered, map, Values, Costs, Result, Levels,
              Moves, Consistent, Waiting, Pending
<1>3. CASE alg \in Frontiers /\ Next
  <2>0. Values = val /\ (Values' = IF alg' = alg THEN val' ELSE Values')
    BY <1>3 DEF Values, Costs, Frontiers
  <2>1. StartRound \/ Evaluate \/ EndRound \/ EndLevel
    BY <1>3
       DEF Next, SerialStep, ThreadStep, Frontiers, Priority, JacobiRound, JacobiEnd,
           GpuDilate, GpuRound, GpuEnd, Pop, RelaxPredecessor, HeapEmpty, RaceJoin,
           OrderedPass, OrderedBarrier, OrderedEnd, RaceRead, RaceWriteCost, RaceWriteAction,
           OrderedClaim, OrderedLower, OrderedDrain, OrderedRead, OrderedWrite, GpuRead, GpuWrite
  <2>2. /\ alg' = alg /\ map' = map /\ Result = "running" /\ Values' = val'
    BY <1>0, <1>3, <2>1
       DEF StartRound, Evaluate, EndRound, EndLevel, Typing, map, Result, Values, Costs, Frontiers
  <2>3. /\ Inv'
        /\ \A s \in State : \/ val'[s] = val[s]
                            \/ Moves(s) /\ val'[s] = MinActionCost(s, val, map.free, map.pen).cost
    BY <1>3, <2>1, EvaluateStep, RoundStep
  <2>4. CASE outcome' # "converged"
    <3>1. Result' \in {"running", "ended"}
      BY <2>4 DEF Result
    <3>. QED
      BY <2>0, <2>2, <2>3, <3>1, RelaxIs
  <2>5. CASE outcome' = "converged"
    <3>1. EndLevel /\ val' = val
      BY <1>0, <1>3, <2>1, <2>5 DEF StartRound, Evaluate, EndRound, EndLevel, Ending, Typing
    <3>2. Result' = "converged"
      BY <1>3, <2>2, <2>5 DEF Result, Exact, Frontiers
    <3>3. Abstract!Settled
      <4>1. ASSUME NEW s \in State, Abstract!Moves(s), Abstract!RawCost(s) < ReachThresh
            PROVE  Values[s] = Abstract!RawCost(s)
        <5>1. Moves(s)
          BY <4>1 DEF Abstract!Moves, Moves, Evaluated
        <5>2. Abstract!RawCost(s) = MinActionCost(s, val, map.free, map.pen).cost
          BY <2>0, SameUpdate DEF Abstract!RawCost
        <5>3. Consistent(s)
          BY <1>3, <2>5, <3>1, <4>1, <5>1, <5>2, SettledAtTheEnd
        <5>. QED
          BY <2>0, <5>2, <5>3 DEF Consistent
      <4>. QED
        BY <4>1, SameUpdate DEF Abstract!Settled
    <3>4. Abstract!Converge
      BY <2>0, <2>2, <3>1, <3>2, <3>3 DEF Abstract!Converge
    <3>. QED
      BY <2>3, <3>4 DEF Abstract!Next
  <2>. QED
    BY <2>4, <2>5
<1>. QED
  BY <1>0, <1>1, <1>2, <1>3

\* A solve starts where Relaxation does.
LEMMA InitImplements == Init /\ alg \in Implementers => Abstract!Init
<1>. SUFFICES ASSUME Init, alg \in Implementers PROVE Abstract!Init
  OBVIOUS
<1>1. val \in [State -> Cost]
  BY SolversAssumption DEF Init
<1>2. hot = val /\ Values \in [State -> Cost]
  BY <1>1 DEF Init, Implementers, Frontiers, Values, Costs
<1>3. Result = "running"
  BY DEF Init, Result
<1>. QED
  BY <1>2, <1>3, SameUpdate DEF Abstract!Init

\* The frontier solvers, the priority solver that settles every state once and
\* the racing threads implement Relaxation: whatever they read and in whatever
\* order they visit the states, a value is only ever set to what an update gives,
\* and a solve that is reported as converged (SolveOutcome::converged) is at a
\* fixed point, for every map, field to start from and table of transitions.
THEOREM FrontiersImplementRelaxation ==
    Spec /\ alg \in Implementers => ImplementsRelaxation
<1>1. Init /\ alg \in Implementers => Inv /\ Abstract!Init
  BY InvInit, InitImplements
<1>2. Inv /\ [Next]_vars => Inv' /\ [Abstract!Next]_<<map, Values, Result>>
  BY StepImplements
<1>. QED
  BY <1>1, <1>2, PTL DEF Spec, ImplementsRelaxation, Abstract!Spec

-----------------------------------------------------------------------------
(* The padded copy: rounds whose threads only read, and the kernel whose   *)
(* threads read and write the same costs.                                  *)

Padded == {"par", "gpu"}

\* A solve on the padded copy that is reported as converged returns a fixed point
\* of the clamped update with its policy, however the threads of the kernel read
\* each other's unfinished round and whatever field the rounds were started on.
PaddedIsFixpoint ==
    (alg \in Padded /\ outcome = "converged") =>
        \A s \in State : /\ act[s] = PadPolicy(s, val)
                         /\ Moves(s) => val[s] = PadLeast(s, val)

\* Fields that agree on what s reads give s the same least cost.
LEMMA PadDependsOnReads ==
    ASSUME NEW s \in State, NEW v, NEW w, \A t \in Reads(s) \cap State : v[t] = w[t]
    PROVE  PadLeast(s, v) = PadLeast(s, w)
<1>1. ASSUME NEW a \in Action PROVE PadCost(s, a, v) = PadCost(s, a, w)
  <2>. DEFINE T == Trans[s[2]][a]
  <2>1. ASSUME NEW o \in T, Target(s, o) \in Cell
        PROVE  v[<<Target(s, o), o.th>>] = w[<<Target(s, o), o.th>>]
    <3>1. o.th \in Theta
      BY TransAssumption DEF State
    <3>2. <<Target(s, o), o.th>> \in Reads(s) \cap State
      BY <2>1, <3>1 DEF Reads, State
    <3>. QED
      BY <3>2
  <2>. DEFINE free == map.free  pen == map.pen
  <2>2. ActionCost(s, a, v, free, pen) = ActionCost(s, a, w, free, pen)
    <3>. HIDE DEF free, pen
    <3>. QED
      BY CostsDependOnReads
  <2>. QED
    BY <2>1, <2>2 DEF PadCost
<1>2. {PadCost(s, a, v) : a \in Action} = {PadCost(s, a, w) : a \in Action}
  BY <1>1
<1>. QED
  BY <1>2 DEF PadLeast

\* The least cost is a cost: MaxCost is always a candidate.
LEMMA PadLeastType == ASSUME NEW s, NEW v PROVE PadLeast(s, v) \in Cost
<1>. DEFINE C == {MaxCost} \cup ({PadCost(s, a, v) : a \in Action} \cap Cost)
<1>1. C \subseteq Cost /\ C \subseteq Nat /\ C # {}
  BY BellmanAssumption DEF Cost
<1>. HIDE DEF C
<1>2. Least(C) \in C
  BY <1>1, LeastIsLeast
<1>. QED
  BY <1>1, <1>2 DEF PadLeast, C

\* What reads only unreached states is not reached.
LEMMA PadOfBlank ==
    ASSUME NEW s \in State, NEW v, \A t \in Reads(s) \cap State : v[t] = MaxCost,
           \E w \in Worlds : TRUE
    PROVE  PadLeast(s, v) = MaxCost
<1>1. ASSUME NEW a \in Action PROVE PadCost(s, a, v) = MaxCost
  <2>1. PICK o \in Trans[s[2]][a] : TRUE
    BY WrapAssumption
  <2>2. CASE Target(s, o) \notin Cell
    BY <2>1, <2>2 DEF PadCost
  <2>3. CASE Target(s, o) \in Cell
    <3>1. o.th \in Theta
      BY TransAssumption DEF State
    <3>2. <<Target(s, o), o.th>> \in Reads(s) \cap State
      BY <2>3, <3>1 DEF Reads, State
    <3>. QED
      BY <2>1, <3>2 DEF PadCost
  <2>. QED
    BY <2>2, <2>3
<1>2. {MaxCost} \cup ({PadCost(s, a, v) : a \in Action} \cap Cost) = {MaxCost}
  BY <1>1
<1>3. Least({MaxCost}) = MaxCost
  BY LeastIsLeast, BellmanAssumption
<1>. QED
  BY <1>2, <1>3 DEF PadLeast

\* A thread of the kernel rests or is about to write.
PadTyping ==
    /\ \E w \in Worlds : TRUE
    /\ phase \in {"round", "eval", "done"}
    /\ outcome = "running" <=> phase # "done"
    /\ hot \in [State -> Cost]
    /\ visits \subseteq Nat \X State /\ front \subseteq State /\ moved \subseteq State
    /\ alg = "gpu" =>
          thr \in [Threads -> [pc : {"free", "write"}, todo : Seq(State),
                               best : [cost : Cost, action : {None}], buf : {<<>>}]]

\* The state thread w is about to write.
Held(w) == Head(thr[w].todo)

\* What is written is the least cost of the present, unless an input has moved
\* since it was read.
InFlight ==
    alg = "gpu" =>
        \A w \in Threads :
            /\ thr[w].pc = "free" => thr[w].todo = <<>>
            /\ thr[w].pc = "write" =>
                  /\ phase = "eval" /\ thr[w].todo = <<Held(w)>> /\ Held(w) \in State
                  /\ Reads(Held(w)) \cap moved = {} => thr[w].best.cost = PadLeast(Held(w), hot)

PadWaiting(s) ==
    /\ phase = "eval"
    /\ \/ \E v \in visits : v[2] = s
       \/ \E w \in Threads : thr[w].pc = "write" /\ Held(w) = s

\* A state that is not consistent waits for its thread, or lies around a cell
\* that moved.
PadCovered ==
    outcome = "running" =>
        \A s \in State : Moves(s) =>
            \/ hot[s] = PadLeast(s, hot)
            \/ PadWaiting(s)
            \/ s[1] \in Dilate(CellsOf(Pending))

PadInv ==
    alg \in Padded => PadTyping /\ InFlight /\ PadCovered /\ PaddedIsFixpoint

\* A step that leaves alone what s reads leaves the least cost of s alone.
LEMMA PadPrime ==
    ASSUME NEW s \in State, world' = world, \A t \in Reads(s) \cap State : hot'[t] = hot[t]
    PROVE  PadLeast(s, hot)' = PadLeast(s, hot)
<1>1. PadLeast(s, hot)' = PadLeast(s, hot')
  BY DEF PadLeast, PadCost, map
<1>2. PadLeast(s, hot') = PadLeast(s, hot)
  BY PadDependsOnReads
<1>. QED
  BY <1>1, <1>2

\* The readers of a state, and the state itself, lie around it.
LEMMA ReadersAreAround ==
    ASSUME NEW s \in State, NEW F, NEW t \in F, t \in State, t = s \/ t \in Reads(s)
    PROVE  s[1] \in Dilate(CellsOf(F))
<1>1. s[1] \in Near(t[1])
  <2>1. CASE t = s
    BY <2>1, BellmanAssumption DEF State, Cell, Near
  <2>2. CASE t \in Reads(s)
    BY <2>2, ReadsAreNear
  <2>. QED
    BY <2>1, <2>2
<1>2. t[1] \in CellsOf(F)
  BY DEF CellsOf
<1>. QED
  BY <1>1, <1>2 DEF Dilate

\* Whatever is not around the seed is unreached and reads unreached states only.
LEMMA PadInit == Init => PadInv
<1>. SUFFICES ASSUME Init, alg \in Padded PROVE PadTyping /\ InFlight /\ PadCovered /\ PaddedIsFixpoint
  BY DEF PadInv
<1>. DEFINE Seeded == /\ hot \in [State -> Cost] /\ front \subseteq State
                      /\ \A s \in State : hot[s] < MaxCost => s \in front
<1>1. PICK w \in Worlds : world.map = w.map /\ val = w.start.val
  BY DEF Init
<1>2. val \in [State -> Cost]
  BY <1>1, SolversAssumption
<1>3. ASSUME alg = "par" PROVE Seeded
  <2>1. hot = val /\ front = Seed
    BY <1>3 DEF Init
  <2>. QED
    BY <1>2, <2>1 DEF Seed
<1>4. ASSUME alg = "gpu" PROVE Seeded
  <2>1. hot = Reset /\ front = map.final
    BY <1>4 DEF Init
  <2>2. 0 \in Cost /\ MaxCost \in Cost /\ map.final \subseteq State
    BY <1>1, SolversAssumption, BellmanAssumption DEF Cost, map
  <2>. QED
    BY <2>1, <2>2, BellmanAssumption DEF Reset
<1>5. visits = {} /\ moved = {} /\ phase = "round" /\ outcome = "running"
  BY DEF Init
<1>6. alg = "gpu" => thr = [v \in Threads |-> Resting]
  BY DEF Init
<1>7. Resting \in [pc : {"free", "write"}, todo : Seq(State),
                   best : [cost : Cost, action : {None}], buf : {<<>>}]
  BY BellmanAssumption DEF Resting, Cost
<1>8. Seeded
  BY <1>3, <1>4 DEF Padded
<1>9. PadTyping
  BY <1>1, <1>5, <1>6, <1>7, <1>8 DEF PadTyping
<1>10. InFlight
  BY <1>6 DEF InFlight, Resting
<1>11. PadCovered
  <2>. SUFFICES ASSUME NEW s \in State, s[1] \notin Dilate(CellsOf(front))
                PROVE  hot[s] = PadLeast(s, hot)
    BY <1>5 DEF PadCovered, Pending
  <2>1. \A t \in State : t = s \/ t \in Reads(s) => hot[t] = MaxCost
    <3>. SUFFICES ASSUME NEW t \in State, t = s \/ t \in Reads(s), hot[t] # MaxCost PROVE FALSE
      OBVIOUS
    <3>1. t \in front
      BY <1>8, BellmanAssumption DEF Cost
    <3>. QED
      BY <3>1, ReadersAreAround
  <2>2. PadLeast(s, hot) = MaxCost
    BY <1>1, <2>1, PadOfBlank
  <2>. QED
    BY <2>1, <2>2
<1>12. PaddedIsFixpoint
  BY <1>5 DEF PaddedIsFixpoint
<1>. QED
  BY <1>9, <1>10, <1>11, <1>12

\* A round of threads that only read.
LEMMA JacobiStep ==
    ASSUME PadInv, alg = "par", JacobiRound
    PROVE  PadInv'
<1>. DEFINE cells == Dilate(CellsOf(front))
            moves == {s \in State : s[1] \in cells /\ Moves(s) /\ PadLeast(s, hot) # hot[s]}
<1>0. PadTyping /\ PadCovered
  BY DEF PadInv, Padded
<1>1. /\ phase = "round" /\ alg' = alg /\ world' = world /\ visits' = visits /\ moved' = moved
      /\ hot' = [s \in State |-> IF s \in moves THEN PadLeast(s, hot) ELSE hot[s]]
      /\ front' = moves
      /\ \/ phase' = phase /\ outcome' = outcome
         \/ phase' = "done" /\ outcome' # "running" /\ outcome' # "converged"
  BY DEF JacobiRound, Ending
<1>. HIDE DEF moves
<1>2. hot' \in [State -> Cost] /\ moves \subseteq State
  BY <1>0, <1>1, PadLeastType DEF PadTyping, moves
<1>3. PadTyping'
  BY <1>0, <1>1, <1>2 DEF PadTyping
<1>4. PadCovered'
  <2>. SUFFICES ASSUME outcome' = "running", NEW s \in State, Moves(s)',
                       s[1] \notin Dilate(CellsOf(Pending'))
                PROVE  hot'[s] = PadLeast(s, hot)'
    BY DEF PadCovered
  <2>1. phase' = "round" /\ Pending' = moves /\ Pending = front /\ Moves(s) /\ outcome = "running"
    BY <1>0, <1>1 DEF Pending, Moves, map, PadTyping
  <2>2. s \notin moves /\ Reads(s) \cap moves = {}
    BY <1>2, <2>1, ReadersAreAround
  <2>3. hot'[s] = hot[s] /\ \A t \in Reads(s) \cap State : hot'[t] = hot[t]
    BY <1>1, <2>2
  <2>4. PadLeast(s, hot)' = PadLeast(s, hot)
    BY <1>1, <2>3, PadPrime
  <2>5. CASE s[1] \in cells
    BY <2>1, <2>2, <2>3, <2>4, <2>5 DEF moves
  <2>6. CASE s[1] \notin cells
    BY <1>0, <1>1, <2>1, <2>3, <2>4, <2>6 DEF PadCovered, PadWaiting
  <2>. QED
    BY <2>5, <2>6
<1>. QED
  BY <1>0, <1>1, <1>3, <1>4 DEF PadInv, InFlight, PaddedIsFixpoint, PadTyping

\* A kernel begins: the cells around the ones that moved, occupied ones left out.
LEMMA GpuDilateStep ==
    ASSUME PadInv, alg = "gpu", GpuDilate
    PROVE  PadInv'
<1>. DEFINE S == {c \in Dilate(CellsOf(front)) : map.free[c]} \X Theta
<1>0. PadTyping /\ InFlight /\ PadCovered
  BY DEF PadInv, Padded
<1>1. /\ phase = "round" /\ phase' = "eval" /\ alg' = alg /\ world' = world /\ outcome' = outcome
      /\ hot' = hot /\ front' = front /\ moved' = {} /\ thr' = thr /\ visits' = ByHeading(S)
      /\ Threads' = Threads
  BY DEF GpuDilate, gpuFixed, Threads
<1>2. visits' \subseteq Nat \X State
  <2>1. \A s \in S : s[2] \in Nat /\ s \in State
    BY BellmanAssumption DEF Dilate, Near, State, Theta
  <2>. QED
    BY <1>1, <2>1 DEF ByHeading
<1>3. PadTyping'
  BY <1>0, <1>1, <1>2 DEF PadTyping
<1>4. InFlight'
  BY <1>0, <1>1 DEF InFlight, PadTyping, Held
<1>5. PadCovered'
  <2>. SUFFICES ASSUME NEW s \in State, Moves(s)', ~PadWaiting(s)', outcome' = "running"
                PROVE  hot'[s] = PadLeast(s, hot)'
    BY DEF PadCovered
  <2>1. Moves(s) /\ ~PadWaiting(s) /\ Pending = front /\ outcome = "running"
    BY <1>1 DEF Moves, map, PadWaiting, Pending
  <2>2. s[1] \notin Dilate(CellsOf(front))
    <3>. SUFFICES ASSUME s[1] \in Dilate(CellsOf(front)) PROVE FALSE
      OBVIOUS
    <3>1. s \in S
      BY <2>1 DEF Moves, Evaluated, State
    <3>2. <<s[2], s>> \in visits'
      BY <1>1, <3>1 DEF ByHeading
    <3>. QED
      BY <1>1, <3>2 DEF PadWaiting
  <2>3. hot[s] = PadLeast(s, hot)
    BY <1>0, <2>1, <2>2 DEF PadCovered
  <2>4. PadLeast(s, hot)' = PadLeast(s, hot)
    BY <1>1, PadPrime
  <2>. QED
    BY <1>1, <2>3, <2>4
<1>. QED
  BY <1>0, <1>1, <1>3, <1>4, <1>5 DEF PadInv, PaddedIsFixpoint, PadTyping

\* A thread reads: from here on its state waits in its hands.
LEMMA GpuReadStep ==
    ASSUME PadInv, alg = "gpu", NEW w \in Threads, GpuRead(w)
    PROVE  PadInv'
<1>. DEFINE visit == Earliest(visits)
            s == visit[2]
            best == [cost |-> PadLeast(s, hot), action |-> None]
            held == [thr[w] EXCEPT !.pc = "write", !.todo = <<s>>, !.best = best]
            Rec == [pc : {"free", "write"}, todo : Seq(State),
                    best : [cost : Cost, action : {None}], buf : {<<>>}]
<1>0. PadTyping /\ InFlight /\ PadCovered
  BY DEF PadInv, Padded
<1>1. /\ phase = "eval" /\ phase' = "eval" /\ alg' = alg /\ world' = world /\ outcome' = outcome
      /\ hot' = hot /\ front' = front /\ moved' = moved /\ visits # {}
      /\ visits' = visits \ {visit} /\ thr[w].todo = <<>> /\ Threads' = Threads
  BY DEF GpuRead, gpuFixed, Threads
<1>2. visit \in visits /\ s \in State
  BY <1>0, <1>1, EarliestIsIn DEF PadTyping
<1>3. thr' = IF Moves(s) THEN [thr EXCEPT ![w] = held] ELSE thr
  BY <1>0 DEF GpuRead, PadTyping
<1>4. PadLeast(s, hot) \in Cost
  BY PadLeastType
<1>. HIDE DEF visit, s
<1>5. held \in Rec /\ held.pc = "write" /\ held.todo = <<s>> /\ held.best.cost = PadLeast(s, hot)
  <2>1. best \in [cost : Cost, action : {None}] /\ <<s>> \in Seq(State)
    BY <1>2, <1>4
  <2>2. thr[w] \in Rec /\ best.cost = PadLeast(s, hot)
    BY <1>0 DEF PadTyping
  <2>. HIDE DEF best
  <2>. QED
    BY <2>1, <2>2
<1>. HIDE DEF held
<1>6. PadTyping'
  <2>1. thr' \in [Threads -> Rec]
    BY <1>0, <1>3, <1>5 DEF PadTyping
  <2>. QED
    BY <1>0, <1>1, <2>1 DEF PadTyping
<1>7. /\ \A v \in Threads : v # w => thr'[v] = thr[v]
      /\ Moves(s) => thr'[w] = held
      /\ ~Moves(s) => thr'[w] = thr[w]
  BY <1>0, <1>3 DEF PadTyping
<1>8. ASSUME NEW t \in State PROVE PadLeast(t, hot)' = PadLeast(t, hot)
  BY <1>1, PadPrime
<1>9. InFlight'
  <2>. SUFFICES ASSUME NEW v \in Threads
                PROVE  /\ thr'[v].pc = "free" => thr'[v].todo = <<>>
                       /\ thr'[v].pc = "write" =>
                            /\ phase' = "eval" /\ thr'[v].todo = <<Held(v)'>> /\ Held(v)' \in State
                            /\ Reads(Held(v)') \cap moved' = {} =>
                                  thr'[v].best.cost = PadLeast(Held(v), hot)'
    BY <1>1 DEF InFlight
  <2>1. CASE thr'[v] = thr[v]
    <3>1. Held(v)' = Held(v)
      BY <2>1 DEF Held
    <3>2. PadLeast(Held(v), hot)' = PadLeast(Held(v), hot')
      BY <1>1, <3>1 DEF PadLeast, PadCost, map
    <3>. QED
      BY <1>0, <1>1, <2>1, <3>1, <3>2 DEF InFlight
  <2>2. CASE Moves(s) /\ v = w
    <3>1. thr'[v] = held /\ Held(v)' = s
      BY <1>5, <1>7, <2>2 DEF Held
    <3>2. PadLeast(Held(v), hot)' = PadLeast(s, hot)
      BY <1>1, <3>1 DEF PadLeast, PadCost, map
    <3>. QED
      BY <1>1, <1>2, <1>5, <3>1, <3>2
  <2>. QED
    BY <1>7, <2>1, <2>2
<1>10. PadCovered'
  <2>. SUFFICES ASSUME NEW t \in State, Moves(t)', ~PadWaiting(t)', outcome' = "running",
                       t[1] \notin Dilate(CellsOf(Pending'))
                PROVE  hot'[t] = PadLeast(t, hot)'
    BY DEF PadCovered
  <2>1. Moves(t) /\ Pending' = Pending /\ outcome = "running"
    BY <1>1 DEF Moves, map, Pending
  <2>2. t # s
    <3>. SUFFICES ASSUME t = s PROVE FALSE
      OBVIOUS
    <3>1. thr'[w].pc = "write" /\ Held(w)' = t
      BY <1>5, <1>7, <2>1 DEF Held
    <3>. QED
      BY <1>1, <3>1 DEF PadWaiting
  <2>3. ~PadWaiting(t)
    <3>1. ASSUME NEW v \in visits, v[2] = t PROVE FALSE
      <4>1. v \in visits'
        BY <1>1, <2>2, <3>1 DEF s
      <4>. QED
        BY <1>1, <3>1, <4>1 DEF PadWaiting
    <3>2. ASSUME NEW v \in Threads, thr[v].pc = "write", Held(v) = t PROVE FALSE
      <4>1. v # w
        <5>1. thr[v].todo = <<Held(v)>>
          BY <1>0, <3>2 DEF InFlight
        <5>. QED
          BY <1>1, <5>1
      <4>2. thr'[v].pc = "write" /\ Held(v)' = t
        BY <1>7, <3>2, <4>1 DEF Held
      <4>. QED
        BY <1>1, <4>2 DEF PadWaiting
    <3>. QED
      BY <3>1, <3>2 DEF PadWaiting
  <2>. QED
    BY <1>0, <1>1, <1>8, <2>1, <2>3 DEF PadCovered
<1>. QED
  BY <1>0, <1>1, <1>6, <1>9, <1>10 DEF PadInv, PaddedIsFixpoint, PadTyping

\* A thread writes: what it read may be out of date, but then an input of its
\* state has moved in this round, and the state is visited in the next one.
LEMMA GpuWriteStep ==
    ASSUME PadInv, alg = "gpu", NEW w \in Threads, GpuWrite(w)
    PROVE  PadInv'
<1>. DEFINE s == Held(w)
            Rec == [pc : {"free", "write"}, todo : Seq(State),
                    best : [cost : Cost, action : {None}], buf : {<<>>}]
<1>0. PadTyping /\ InFlight /\ PadCovered
  BY DEF PadInv, Padded
<1>1. /\ thr[w].pc = "write" /\ phase' = phase /\ alg' = alg /\ world' = world
      /\ outcome' = outcome /\ front' = front /\ visits' = visits /\ Threads' = Threads
      /\ hot' = [hot EXCEPT ![s] = thr[w].best.cost]
      /\ moved' = IF thr[w].best.cost # hot[s] THEN moved \cup {s} ELSE moved
      /\ thr' = [thr EXCEPT ![w].pc = "free", ![w].todo = <<>>]
  BY DEF GpuWrite, gpuFixed, Threads, Held
<1>2. /\ phase = "eval" /\ s \in State /\ thr[w] \in Rec
      /\ Reads(s) \cap moved = {} => thr[w].best.cost = PadLeast(s, hot)
  BY <1>0, <1>1 DEF InFlight, PadTyping
<1>. HIDE DEF s
<1>3. /\ \A v \in Threads : v # w => thr'[v] = thr[v]
      /\ thr'[w] \in Rec /\ thr'[w].pc = "free" /\ thr'[w].todo = <<>>
      /\ thr' \in [Threads -> Rec]
  <2>. DEFINE rest == [thr[w] EXCEPT !.pc = "free", !.todo = <<>>]
  <2>0. thr[w] \in Rec /\ <<>> \in Seq(State)
    BY <1>2
  <2>1. rest \in Rec /\ rest.pc = "free" /\ rest.todo = <<>>
    BY <2>0
  <2>2. thr' = [thr EXCEPT ![w] = rest]
    BY <1>0, <1>1 DEF PadTyping
  <2>. HIDE DEF rest
  <2>. QED
    BY <1>0, <2>1, <2>2 DEF PadTyping
<1>4. /\ hot' \in [State -> Cost] /\ moved \subseteq moved' /\ moved' \subseteq State
      /\ \A t \in State : t \notin moved' => hot'[t] = hot[t]
  BY <1>0, <1>1, <1>2 DEF PadTyping
<1>5. PadTyping'
  BY <1>0, <1>1, <1>3, <1>4 DEF PadTyping
<1>6. ASSUME NEW t \in State, Reads(t) \cap moved' = {}
      PROVE  PadLeast(t, hot') = PadLeast(t, hot) /\ PadLeast(t, hot)' = PadLeast(t, hot)
  <2>1. \A u \in Reads(t) \cap State : hot'[u] = hot[u]
    BY <1>4, <1>6
  <2>. QED
    BY <1>1, <2>1, PadPrime, PadDependsOnReads
<1>7. InFlight'
  <2>. SUFFICES ASSUME NEW v \in Threads
                PROVE  /\ thr'[v].pc = "free" => thr'[v].todo = <<>>
                       /\ thr'[v].pc = "write" =>
                            /\ phase' = "eval" /\ thr'[v].todo = <<Held(v)'>> /\ Held(v)' \in State
                            /\ Reads(Held(v)') \cap moved' = {} =>
                                  thr'[v].best.cost = PadLeast(Held(v), hot)'
    BY <1>1 DEF InFlight
  <2>1. CASE v = w
    BY <1>3, <2>1
  <2>2. CASE v # w
    <3>1. thr'[v] = thr[v] /\ Held(v)' = Held(v)
      BY <1>3, <2>2 DEF Held
    <3>2. thr[v].pc = "free" => thr[v].todo = <<>>
      BY <1>0 DEF InFlight
    <3>3. ASSUME thr[v].pc = "write"
          PROVE  /\ phase = "eval" /\ thr[v].todo = <<Held(v)>> /\ Held(v) \in State
                 /\ Reads(Held(v)) \cap moved = {} => thr[v].best.cost = PadLeast(Held(v), hot)
      BY <1>0, <3>3 DEF InFlight
    <3>4. PadLeast(Held(v), hot)' = PadLeast(Held(v), hot')
      BY <1>1, <3>1 DEF PadLeast, PadCost, map
    <3>5. ASSUME thr[v].pc = "write", Reads(Held(v)) \cap moved' = {}
          PROVE  thr[v].best.cost = PadLeast(Held(v), hot')
      <4>1. Reads(Held(v)) \cap moved = {}
        BY <1>4, <3>5
      <4>. QED
        BY <1>6, <3>3, <3>5, <4>1
    <3>. QED
      BY <1>1, <1>2, <3>1, <3>2, <3>3, <3>4, <3>5
  <2>. QED
    BY <2>1, <2>2
<1>8. PadCovered'
  <2>. SUFFICES ASSUME NEW t \in State, Moves(t)', ~PadWaiting(t)', outcome' = "running",
                       t[1] \notin Dilate(CellsOf(Pending'))
                PROVE  hot'[t] = PadLeast(t, hot)'
    BY DEF PadCovered
  <2>1. Moves(t) /\ Pending = moved /\ Pending' = moved' /\ outcome = "running"
    BY <1>1, <1>2 DEF Moves, map, Pending
  <2>2. t \notin moved' /\ Reads(t) \cap moved' = {}
    BY <1>4, <2>1, ReadersAreAround
  <2>3. hot'[t] = hot[t] /\ PadLeast(t, hot)' = PadLeast(t, hot)
    BY <1>4, <1>6, <2>2
  <2>4. CASE t = s
    <3>1. Reads(s) \cap moved = {}
      BY <1>4, <2>2, <2>4
    <3>2. thr[w].best.cost = hot[s]
      BY <1>1, <2>2, <2>4
    <3>. QED
      BY <1>2, <2>3, <2>4, <3>1, <3>2
  <2>5. CASE t # s
    <3>1. ~PadWaiting(t)
      <4>1. ASSUME NEW v \in Threads, thr[v].pc = "write", Held(v) = t PROVE FALSE
        <5>1. v # w
          BY <2>5, <4>1 DEF s
        <5>2. thr'[v].pc = "write" /\ Held(v)' = t
          BY <1>3, <4>1, <5>1 DEF Held
        <5>. QED
          BY <1>1, <1>2, <5>2 DEF PadWaiting
      <4>. QED
        BY <1>1, <1>2, <4>1 DEF PadWaiting
    <3>2. t[1] \notin Dilate(CellsOf(moved))
      BY <1>4, <2>1 DEF Dilate, CellsOf
    <3>. QED
      BY <1>0, <2>1, <2>3, <3>1, <3>2 DEF PadCovered
  <2>. QED
    BY <2>4, <2>5
<1>. QED
  BY <1>0, <1>1, <1>2, <1>5, <1>7, <1>8 DEF PadInv, PaddedIsFixpoint, PadTyping

\* The kernel is over: all that is left is around the cells that moved.
LEMMA GpuRoundStep ==
    ASSUME PadInv, alg = "gpu", GpuRound
    PROVE  PadInv'
<1>0. PadTyping /\ InFlight /\ PadCovered
  BY DEF PadInv, Padded
<1>1. /\ phase = "eval" /\ phase' = "round" /\ alg' = alg /\ world' = world /\ outcome' = outcome
      /\ hot' = hot /\ front' = moved /\ moved' = moved /\ thr' = thr /\ visits = {}
      /\ visits' = visits /\ Threads' = Threads /\ \A w \in Threads : thr[w].todo = <<>>
  BY DEF GpuRound, gpuFixed, Threads
<1>2. \A w \in Threads : thr[w].pc # "write"
  <2>. SUFFICES ASSUME NEW w \in Threads, thr[w].pc = "write" PROVE FALSE
    OBVIOUS
  <2>1. thr[w].todo = <<Held(w)>>
    BY <1>0 DEF InFlight
  <2>. QED
    BY <1>1, <2>1
<1>3. PadTyping'
  BY <1>0, <1>1 DEF PadTyping
<1>4. InFlight'
  BY <1>1, <1>2 DEF InFlight
<1>5. PadCovered'
  <2>. SUFFICES ASSUME NEW s \in State, Moves(s)', outcome' = "running",
                       s[1] \notin Dilate(CellsOf(Pending'))
                PROVE  hot'[s] = PadLeast(s, hot)'
    BY DEF PadCovered
  <2>1. Moves(s) /\ ~PadWaiting(s) /\ Pending = moved /\ Pending' = moved /\ outcome = "running"
    BY <1>1, <1>2 DEF Moves, map, PadWaiting, Pending
  <2>2. hot[s] = PadLeast(s, hot)
    BY <1>0, <2>1 DEF PadCovered
  <2>3. PadLeast(s, hot)' = PadLeast(s, hot)
    BY <1>1, PadPrime
  <2>. QED
    BY <1>1, <2>2, <2>3
<1>. QED
  BY <1>0, <1>1, <1>3, <1>4, <1>5 DEF PadInv, PaddedIsFixpoint, PadTyping

\* A solve ends: with an empty frontier nothing lies around a cell that moved.
LEMMA PadEndStep ==
    ASSUME PadInv, alg \in Padded, JacobiEnd \/ GpuEnd
    PROVE  PadInv'
<1>0. PadTyping /\ InFlight /\ PadCovered
  BY DEF PadInv
<1>1. /\ phase = "round" /\ phase' = "done" /\ alg' = alg /\ world' = world
      /\ outcome' = IF front = {} THEN "converged" ELSE "exhausted"
      /\ hot' = hot /\ front' = front /\ moved' = moved /\ thr' = thr /\ visits' = visits
      /\ Threads' = Threads /\ val' = hot /\ act' = PadPolicies(hot)
  BY DEF JacobiEnd, GpuEnd, WriteBack, roundVars, threadVars, Threads
<1>2. PadTyping'
  BY <1>0, <1>1 DEF PadTyping
<1>3. InFlight'
  BY <1>0, <1>1 DEF InFlight
<1>4. PadCovered'
  BY <1>1 DEF PadCovered
<1>5. PaddedIsFixpoint'
  <2>. SUFFICES ASSUME outcome' = "converged", NEW s \in State
                PROVE  /\ act'[s] = PadPolicy(s, val)'
                       /\ Moves(s)' => val'[s] = PadLeast(s, val)'
    BY DEF PaddedIsFixpoint
  <2>1. /\ PadPolicy(s, val)' = PadPolicy(s, hot) /\ PadLeast(s, val)' = PadLeast(s, hot)
        /\ Moves(s)' = Moves(s)
    BY <1>1 DEF PadPolicy, PadLeast, PadCost, Moves, map
  <2>2. act'[s] = PadPolicy(s, hot)
    BY <1>1 DEF PadPolicies
  <2>3. front = {} /\ Pending = {} /\ outcome = "running" /\ ~PadWaiting(s)
    BY <1>0, <1>1 DEF Pending, PadTyping, PadWaiting
  <2>4. s[1] \notin Dilate(CellsOf(Pending))
    BY <2>3 DEF Dilate, CellsOf
  <2>. QED
    BY <1>0, <1>1, <2>1, <2>2, <2>3, <2>4 DEF PadCovered
<1>. QED
  BY <1>1, <1>2, <1>3, <1>4, <1>5 DEF PadInv

\* One step of any solver.
LEMMA PadStep == PadInv /\ [Next]_vars => PadInv'
<1>. SUFFICES ASSUME PadInv, [Next]_vars PROVE PadInv'
  OBVIOUS
<1>1. CASE UNCHANGED vars
  <2>1. /\ alg' = alg /\ world' = world /\ val' = val /\ act' = act /\ hot' = hot
        /\ phase' = phase /\ front' = front /\ visits' = visits /\ moved' = moved
        /\ thr' = thr /\ outcome' = outcome
    BY <1>1 DEF vars, roundVars, threadVars
  <2>2. Threads' = Threads /\ Pending' = Pending
    BY <2>1 DEF Threads, Pending
  <2>3. \A w : Held(w)' = Held(w)
    BY <2>1 DEF Held
  <2>4. \A s : /\ PadLeast(s, hot)' = PadLeast(s, hot) /\ PadLeast(s, val)' = PadLeast(s, val)
              /\ Moves(s)' = Moves(s)
    BY <2>1 DEF PadLeast, PadCost, Moves, map
  <2>5. \A s : PadPolicy(s, val)' = PadPolicy(s, val)
    BY <2>1 DEF PadPolicy, PadLeast, PadCost, Moves, map
  <2>6. \A s : PadWaiting(s)' = PadWaiting(s)
    BY <2>1, <2>2, <2>3 DEF PadWaiting
  <2>7. PadTyping' = PadTyping
    BY <2>1, <2>2 DEF PadTyping
  <2>8. InFlight' = InFlight
    BY <2>1, <2>2, <2>3 DEF InFlight, PadLeast, PadCost, map, Held
  <2>9. PadCovered' = PadCovered
    BY <2>1, <2>2, <2>4, <2>6 DEF PadCovered
  <2>10. PaddedIsFixpoint' = PaddedIsFixpoint
    BY <2>1, <2>4, <2>5 DEF PaddedIsFixpoint
  <2>. QED
    BY <2>1, <2>7, <2>8, <2>9, <2>10 DEF PadInv
<1>2. CASE Next /\ alg \notin Padded
  <2>1. alg' = alg
    BY <1>2 DEF Next, SerialStep, ThreadStep, StartRound, Evaluate, EndRound, EndLevel, JacobiRound,
                JacobiEnd, GpuDilate, GpuRound, GpuEnd, gpuFixed, Pop, RelaxPredecessor, HeapEmpty,
                RaceJoin, serialVars, OrderedPass, OrderedBarrier, OrderedEnd, orderedFixed, RaceRead,
                RaceWriteCost, RaceWriteAction, OrderedClaim, OrderedLower, OrderedDrain,
                OrderedRead, OrderedWrite, GpuRead, GpuWrite
  <2>. QED
    BY <1>2, <2>1 DEF PadInv
<1>3. CASE Next /\ alg \in Padded
  <2>1. \/ JacobiRound \/ JacobiEnd \/ GpuDilate \/ GpuRound \/ GpuEnd
        \/ \E w \in Threads : GpuRead(w) \/ GpuWrite(w)
    BY <1>3
       DEF Next, SerialStep, ThreadStep, Padded, InPlace, Priority, StartRound, Evaluate, EndRound,
           EndLevel, Pop, RelaxPredecessor, HeapEmpty, RaceJoin, OrderedPass, OrderedBarrier,
           OrderedEnd, RaceRead, RaceWriteCost, RaceWriteAction, OrderedClaim, OrderedLower,
           OrderedDrain, OrderedRead, OrderedWrite
  <2>2. CASE JacobiRound
    BY <2>2, JacobiStep DEF JacobiRound
  <2>3. CASE JacobiEnd \/ GpuEnd
    BY <1>3, <2>3, PadEndStep
  <2>4. CASE GpuDilate
    BY <2>4, GpuDilateStep DEF GpuDilate
  <2>5. CASE GpuRound
    BY <2>5, GpuRoundStep DEF GpuRound
  <2>6. CASE \E w \in Threads : GpuRead(w) \/ GpuWrite(w)
    <3>1. PICK w \in Threads : GpuRead(w) \/ GpuWrite(w)
      BY <2>6
    <3>2. alg = "gpu"
      BY <3>1 DEF GpuRead, GpuWrite
    <3>. QED
      BY <3>1, <3>2, GpuReadStep, GpuWriteStep
  <2>. QED
    BY <2>1, <2>2, <2>3, <2>4, <2>5, <2>6
<1>. QED
  BY <1>1, <1>2, <1>3

\* Whatever the threads of frontier2d_par and of the kernels of frontier_gpu
\* interleave, and on whatever field a resweep starts, a solve that is reported
\* as converged has returned a fixed point of the padded update with its policy.
THEOREM PaddedConverges == Spec => []PaddedIsFixpoint
<1>1. PadInv => PaddedIsFixpoint
  BY DEF PadInv, PaddedIsFixpoint
<1>. QED
  BY <1>1, PadInit, PadStep, PTL DEF Spec

-----------------------------------------------------------------------------
(* The padded copy from a fresh field.  While no sum of costs leaves a     *)
(* word, dearer outcomes do not make a state cheaper.  So whatever is not  *)
(* above its own update stays below the costs, and costs that are not      *)
(* below their own update stay so.                                         *)

\* No reached cost, with the penalty of its cell, is above limit.
PadFits(limit) == \A s \in State : hot[s] # MaxCost => hot[s] + map.pen[s[1]] <= limit

\* Costs that no update lowers, with the goal at zero.
Solution(v) ==
    \A s \in State : /\ Moves(s) => v[s] <= PadLeast(s, v)
                     /\ s \in map.final => v[s] = 0

\* No other solution has a dearer state: there is at most one such field.
GreatestSolution(v) ==
    /\ v \in [State -> Cost] /\ Solution(v)
    /\ \A u \in [State -> Cost] : Solution(u) => \A s \in State : u[s] <= v[s]

\* A converged solve from a fresh field has the one greatest solution, whatever
\* its schedule was.
ConvergedIsGreatest ==
    (world.fresh /\ outcome = "converged") => GreatestSolution(val)

\* Nothing is below v, the writes under way included.
Above(v) ==
    /\ \A s \in State : v[s] <= hot[s]
    /\ alg = "gpu" => \A w \in Threads :
          thr[w].pc = "write" => v[Held(w)] <= thr[w].best.cost

\* Only states that move are written.
GoalsStay ==
    /\ \A s \in map.final \cap State : hot[s] = 0
    /\ alg = "gpu" => \A w \in Threads : thr[w].pc = "write" => Moves(Held(w))

\* Some action warrants every cost of the rounds that only read.
RoundsFall == alg = "par" => \A s \in State : Moves(s) => PadLeast(s, hot) <= hot[s]

\* What the original solver has reached.
FinalCosts ==
    [s \in State |-> IF world.oracle.val[s] < ReachThresh THEN world.oracle.val[s] ELSE MaxCost]

\* The costs of the original solver solve the clamped equations: it has settled
\* on the states it reaches, and none of them owes its cost to a wrapped sum.
OracleSolves ==
    world.fresh => world.oracle.val \in [State -> Cost] /\ Solution(FinalCosts)

\* One state: dearer costs everywhere, a dearer update.
LEMMA PadLeastMonotone ==
    ASSUME NEW limit, Roomy(limit), map.pen \in [Cell -> Nat], NEW s \in State,
           NEW u, NEW v, \A t \in State : u[t] \in Cost /\ v[t] \in Cost /\ u[t] <= v[t],
           \A t \in State : v[t] # MaxCost => v[t] + map.pen[t[1]] <= limit
    PROVE  PadLeast(s, u) <= PadLeast(s, v)
<1>1. \A x : PadLeast(s, x) = ClampedLeast(s, x, map.free, map.pen)
  BY DEF PadLeast, ClampedLeast, PadCost, Clamped
<1>. QED
  BY <1>1, ClampedLeastMonotone DEF RoomFor

\* The steps of these solvers.
LEMMA PaddedSteps ==
    ASSUME alg \in Padded, [Next]_vars
    PROVE  /\ \/ JacobiRound \/ JacobiEnd \/ GpuDilate \/ GpuRound \/ GpuEnd \/ UNCHANGED vars
              \/ \E w \in Threads : GpuRead(w) \/ GpuWrite(w)
           /\ alg' = alg /\ world' = world /\ Threads' = Threads
<1>1. \/ JacobiRound \/ JacobiEnd \/ GpuDilate \/ GpuRound \/ GpuEnd \/ UNCHANGED vars
      \/ \E w \in Threads : GpuRead(w) \/ GpuWrite(w)
  BY DEF Next, SerialStep, ThreadStep, Padded, InPlace, Priority, StartRound, Evaluate, EndRound,
         EndLevel, Pop, RelaxPredecessor, HeapEmpty, RaceJoin, OrderedPass, OrderedBarrier,
         OrderedEnd, RaceRead, RaceWriteCost, RaceWriteAction, OrderedClaim, OrderedLower,
         OrderedDrain, OrderedRead, OrderedWrite
<1>2. alg' = alg /\ world' = world
  BY <1>1 DEF vars, JacobiRound, JacobiEnd, GpuDilate, GpuRound, GpuEnd, GpuRead, GpuWrite, gpuFixed
<1>. QED
  BY <1>1, <1>2 DEF Threads
BoundInv ==
    /\ alg \in Padded /\ map.pen \in [Cell -> Nat]
    /\ world.fresh =>
          GoalsStay /\ \A v \in [State -> Cost] : Solution(v) => Above(v)
    /\ outcome = "converged" => val = hot

LEMMA BoundInit == Init /\ alg \in Padded => BoundInv
<1>. SUFFICES ASSUME Init, alg \in Padded PROVE BoundInv
  OBVIOUS
<1>1. PICK w \in Worlds : world.map = w.map /\ world.fresh = w.fresh /\ val = w.start.val
  BY DEF Init
<1>2. map.pen \in [Cell -> Nat] /\ outcome = "running"
  BY <1>1, SolversAssumption DEF map, Init
<1>3. ASSUME world.fresh, NEW s \in State PROVE hot[s] = IF s \in map.final THEN 0 ELSE MaxCost
  <2>1. CASE alg = "gpu"
    BY <2>1 DEF Init, Reset
  <2>2. CASE alg # "gpu"
    <3>1. hot = val
      BY <2>2 DEF Init
    <3>. QED
      BY <1>1, <1>3, <3>1, FreshAssumption DEF map
  <2>. QED
    BY <2>1, <2>2
<1>4. alg = "gpu" => \A u \in Threads : thr[u].pc # "write"
  BY DEF Init, Resting
<1>5. ASSUME world.fresh PROVE GoalsStay
  BY <1>3, <1>4, <1>5 DEF GoalsStay
<1>6. ASSUME world.fresh, NEW v \in [State -> Cost], Solution(v) PROVE Above(v)
  <2>1. ASSUME NEW s \in State PROVE v[s] <= hot[s]
    <3>1. v[s] \in Nat /\ v[s] <= MaxCost /\ (s \in map.final => v[s] = 0)
      BY <1>6, BellmanAssumption DEF Solution, Cost
    <3>. QED
      BY <1>3, <1>6, <3>1
  <2>. QED
    BY <1>4, <2>1 DEF Above
<1>. QED
  BY <1>2, <1>5, <1>6 DEF BoundInv

\* An update of costs above a solution is above it.
LEMMA UpdateIsAbove ==
    ASSUME NEW limit, Roomy(limit), map.pen \in [Cell -> Nat], hot \in [State -> Cost],
           PadFits(limit), NEW v \in [State -> Cost], Solution(v),
           \A t \in State : v[t] <= hot[t], NEW s \in State, Moves(s)
    PROVE  v[s] <= PadLeast(s, hot)
<1>1. \A t \in State : v[t] \in Cost /\ hot[t] \in Cost
  OBVIOUS
<1>2. \A t \in State : hot[t] # MaxCost => hot[t] + map.pen[t[1]] <= limit
  BY DEF PadFits
<1>3. PadLeast(s, v) <= PadLeast(s, hot)
  <2>. DEFINE h == hot
  <2>. HIDE DEF h
  <2>. QED
    BY <1>1, <1>2, PadLeastMonotone DEF h
<1>4. v[s] <= PadLeast(s, v)
  BY DEF Solution
<1>5. v[s] \in Nat /\ PadLeast(s, v) \in Nat /\ PadLeast(s, hot) \in Nat
  BY PadLeastType, BellmanAssumption DEF Cost
<1>. QED
  BY <1>3, <1>4, <1>5

LEMMA BoundStep ==
    ASSUME NEW limit, Roomy(limit), PadInv, PadFits(limit), BoundInv, [Next]_vars
    PROVE  BoundInv'
<1>0. alg \in Padded /\ alg' = alg /\ world' = world /\ Threads' = Threads
  BY PaddedSteps DEF BoundInv
<1>1. (map.pen)' \in [Cell -> Nat] /\ map.pen \in [Cell -> Nat] /\ map' = map
  BY <1>0 DEF BoundInv, map
<1>2. /\ \A s : Moves(s)' = Moves(s)
      /\ \A v : Solution(v)' <=> Solution(v)
  BY <1>1 DEF Solution, PadLeast, PadCost, Moves
<1>3. PadTyping /\ InFlight /\ hot \in [State -> Cost]
  BY <1>0 DEF PadInv, PadTyping
\* What is converged has just been written back, or rests.
<1>4. outcome' = "converged" => val' = hot'
  <2>1. CASE JacobiRound
    BY <1>3, <2>1 DEF JacobiRound, Ending, PadTyping
  <2>2. CASE JacobiEnd \/ GpuEnd
    BY <2>2 DEF JacobiEnd, GpuEnd, WriteBack
  <2>3. CASE GpuDilate \/ GpuRound \/ UNCHANGED vars
    BY <2>3 DEF BoundInv, GpuDilate, GpuRound, gpuFixed, vars
  <2>4. ASSUME NEW w \in Threads, GpuRead(w) \/ GpuWrite(w) PROVE outcome' # "converged"
    <3>1. outcome' = outcome /\ phase = "eval"
      BY <1>3, <2>4 DEF GpuRead, GpuWrite, gpuFixed, InFlight
    <3>. QED
      BY <1>3, <3>1 DEF PadTyping
  <2>. QED
    BY <1>0, <2>1, <2>2, <2>3, <2>4, PaddedSteps
<1>5. SUFFICES ASSUME world.fresh
               PROVE  /\ GoalsStay'
                      /\ \A v \in [State -> Cost] : Solution(v) => Above(v)'
  BY <1>0, <1>1, <1>2, <1>4, <1>5 DEF BoundInv
<1>6. GoalsStay /\ \A v \in [State -> Cost] : Solution(v) => Above(v)
  BY <1>5 DEF BoundInv
<1>7. ASSUME NEW v \in [State -> Cost], Solution(v), NEW s \in State, Moves(s)
      PROVE  v[s] <= PadLeast(s, hot)
  <2>1. \A t \in State : v[t] <= hot[t]
    BY <1>6, <1>7 DEF Above
  <2>. QED
    BY <1>1, <1>3, <1>7, <2>1, UpdateIsAbove
<1>8. ASSUME hot' = hot, thr' = thr
      PROVE  GoalsStay' /\ \A v \in [State -> Cost] : Solution(v) => Above(v)'
  <2>1. GoalsStay'
    BY <1>0, <1>1, <1>2, <1>6, <1>8 DEF GoalsStay, Held, Moves
  <2>2. \A v \in [State -> Cost] : Above(v) => Above(v)'
    BY <1>0, <1>8 DEF Above, Held
  <2>. QED
    BY <1>6, <2>1, <2>2
<1>9. CASE JacobiRound
  <2>. DEFINE moves == {s \in State : /\ s[1] \in Dilate(CellsOf(front))
                                      /\ Moves(s) /\ PadLeast(s, hot) # hot[s]}
  <2>1. /\ hot' = [s \in State |-> IF s \in moves THEN PadLeast(s, hot) ELSE hot[s]]
        /\ alg = "par"
    BY <1>9 DEF JacobiRound
  <2>2. ASSUME NEW v \in [State -> Cost], Solution(v), NEW s \in State PROVE v[s] <= hot'[s]
    <3>1. v[s] <= hot[s] /\ (Moves(s) => v[s] <= PadLeast(s, hot))
      BY <1>6, <1>7, <2>2 DEF Above
    <3>. QED
      BY <2>1, <3>1
  <2>3. \A s \in map.final \cap State : hot'[s] = 0
    BY <1>6, <2>1 DEF GoalsStay, Moves, Evaluated
  <2>. QED
    BY <1>0, <1>1, <2>1, <2>2, <2>3 DEF Above, GoalsStay
<1>10. ASSUME NEW w \in Threads, GpuRead(w)
       PROVE  GoalsStay' /\ \A v \in [State -> Cost] : Solution(v) => Above(v)'
  <2>. DEFINE s == Earliest(visits)[2]
              held == [thr[w] EXCEPT !.pc = "write", !.todo = <<s>>,
                                     !.best = [cost |-> PadLeast(s, hot), action |-> None]]
  <2>1. /\ hot' = hot /\ alg = "gpu" /\ visits # {}
        /\ thr' = IF ~Moves(s) THEN thr ELSE [thr EXCEPT ![w] = held]
    BY <1>10 DEF GpuRead
  <2>2. s \in State
    BY <1>3, <2>1, EarliestIsIn DEF PadTyping
  <2>3. CASE ~Moves(s)
    BY <1>8, <2>1, <2>3
  <2>4. CASE Moves(s)
    <3>1. held.pc = "write" /\ held.todo = <<s>> /\ held.best.cost = PadLeast(s, hot)
      BY <1>3, <2>1 DEF PadTyping
    <3>. HIDE DEF held
    <3>2. thr'[w] = held /\ \A u \in Threads \ {w} : thr'[u] = thr[u]
      BY <1>3, <2>1, <2>4 DEF PadTyping
    <3>3. Held(w)' = s /\ \A u \in Threads \ {w} : Held(u)' = Held(u)
      BY <3>1, <3>2 DEF Held
    <3>. HIDE DEF s
    <3>4. ASSUME NEW v \in [State -> Cost], Solution(v), NEW u \in Threads, thr'[u].pc = "write"
          PROVE  v[Held(u)'] <= thr'[u].best.cost
      <4>1. CASE u = w
        BY <1>7, <2>2, <2>4, <3>1, <3>2, <3>3, <3>4, <4>1
      <4>2. CASE u # w
        BY <1>6, <2>1, <3>2, <3>3, <3>4, <4>2 DEF Above
      <4>. QED
        BY <4>1, <4>2
    <3>5. ASSUME NEW v \in [State -> Cost], Solution(v) PROVE Above(v)'
      <4>1. \A t \in State : v[t] <= hot'[t]
        BY <1>6, <2>1, <3>5 DEF Above
      <4>. QED
        BY <1>0, <3>4, <3>5, <4>1 DEF Above
    <3>6. ASSUME NEW u \in Threads, thr'[u].pc = "write" PROVE Moves(Held(u)')
      <4>1. CASE u = w
        BY <2>4, <3>3, <4>1
      <4>2. CASE u # w
        BY <1>6, <2>1, <3>2, <3>3, <3>6, <4>2 DEF GoalsStay
      <4>. QED
        BY <4>1, <4>2
    <3>7. GoalsStay'
      BY <1>0, <1>1, <1>6, <2>1, <3>6 DEF GoalsStay, Moves
    <3>. QED
      BY <3>5, <3>7
  <2>. QED
    BY <2>3, <2>4
<1>11. ASSUME NEW w \in Threads, GpuWrite(w)
       PROVE  GoalsStay' /\ \A v \in [State -> Cost] : Solution(v) => Above(v)'
  <2>. DEFINE s == Held(w)
              cost == thr[w].best.cost
  <2>1. /\ hot' = [hot EXCEPT ![s] = cost] /\ alg = "gpu" /\ thr[w].pc = "write"
        /\ thr' = [thr EXCEPT ![w].pc = "free", ![w].todo = <<>>]
    BY <1>11 DEF GpuWrite, Held
  <2>2. s \in State /\ Moves(s)
    BY <1>3, <1>6, <2>1 DEF InFlight, GoalsStay
  <2>3. \A v \in [State -> Cost] : Solution(v) => v[s] <= cost
    BY <1>6, <2>1 DEF Above
  <2>. HIDE DEF s, cost
  <2>4. ASSUME NEW v \in [State -> Cost], Solution(v), NEW t \in State PROVE v[t] <= hot'[t]
    <3>1. v[t] <= hot[t] /\ v[s] <= cost
      BY <1>6, <2>3, <2>4 DEF Above
    <3>. QED
      BY <1>3, <2>1, <2>2, <3>1
  <2>5. thr'[w].pc = "free" /\ \A u \in Threads \ {w} : thr'[u] = thr[u]
    BY <1>3, <2>1 DEF PadTyping
  <2>6. ASSUME NEW u \in Threads, thr'[u].pc = "write"
        PROVE  u # w /\ thr'[u] = thr[u] /\ Held(u)' = Held(u) /\ thr[u].pc = "write"
    BY <2>5, <2>6 DEF Held
  <2>7. ASSUME NEW v \in [State -> Cost], Solution(v) PROVE Above(v)'
    <3>1. Above(v)
      BY <1>6, <2>7
    <3>. QED
      BY <1>0, <2>1, <2>4, <2>6, <2>7, <3>1 DEF Above
  <2>8. \A t \in map.final \cap State : hot'[t] = 0
    BY <1>3, <1>6, <2>1, <2>2 DEF GoalsStay, Moves, Evaluated
  <2>9. GoalsStay'
    BY <1>0, <1>1, <1>2, <1>6, <2>1, <2>6, <2>8 DEF GoalsStay, Moves
  <2>. QED
    BY <2>7, <2>9
<1>12. ASSUME JacobiEnd \/ GpuDilate \/ GpuRound \/ GpuEnd \/ UNCHANGED vars
       PROVE  hot' = hot /\ thr' = thr
  BY <1>12 DEF vars, JacobiEnd, GpuDilate, GpuRound, GpuEnd, gpuFixed, threadVars
<1>. QED
  BY <1>0, <1>8, <1>9, <1>10, <1>11, <1>12, PaddedSteps

LEMMA Bounded ==
    ASSUME NEW CONSTANT limit, Roomy(limit)
    PROVE  Spec /\ alg \in Padded /\ []PadFits(limit) => [](PadInv /\ BoundInv)
<1>1. Init /\ alg \in Padded => BoundInv
  BY BoundInit
<1>2. PadInv /\ PadFits(limit) /\ BoundInv /\ [Next]_vars => BoundInv'
  BY BoundStep
<1>. QED
  BY <1>1, <1>2, PadInit, PadStep, PTL DEF Spec

\* solvers/mod.rs, "bit-exact": a solve from a fresh field that is reported as
\* converged has returned the greatest solution of the clamped equations.  There
\* is only one, so the costs do not depend on the rounds of frontier2d_par or on
\* how the threads of the kernels of frontier_gpu interleave.
THEOREM PaddedGreatest ==
    ASSUME NEW CONSTANT limit, Roomy(limit)
    PROVE  Spec /\ alg \in Padded /\ []PadFits(limit) => []ConvergedIsGreatest
<1>1. PadInv /\ BoundInv => ConvergedIsGreatest
  <2>. SUFFICES ASSUME PadInv, BoundInv, world.fresh, outcome = "converged"
                PROVE  GreatestSolution(val)
    BY DEF ConvergedIsGreatest
  <2>1. val = hot /\ GoalsStay /\ \A v \in [State -> Cost] : Solution(v) => Above(v)
    BY DEF BoundInv
  <2>2. hot \in [State -> Cost] /\ PaddedIsFixpoint /\ alg \in Padded
    BY DEF BoundInv, PadInv, PadTyping
  <2>3. Solution(val)
    <3>1. ASSUME NEW s \in State, Moves(s) PROVE val[s] <= PadLeast(s, val)
      <4>1. val[s] = PadLeast(s, val) /\ val[s] \in Nat
        BY <2>1, <2>2, <3>1, BellmanAssumption DEF PaddedIsFixpoint, Cost
      <4>. QED
        BY <4>1
    <3>2. \A s \in State : s \in map.final => val[s] = 0
      BY <2>1 DEF GoalsStay
    <3>. QED
      BY <3>1, <3>2 DEF Solution
  <2>4. \A u \in [State -> Cost] : Solution(u) => \A s \in State : u[s] <= val[s]
    BY <2>1 DEF Above
  <2>. QED
    BY <2>1, <2>2, <2>3, <2>4 DEF GreatestSolution
<1>. QED
  BY <1>1, Bounded, PTL

\* Partiality::UpperBound, "in an unfinished field every value is an upper bound":
\* neither a round of frontier2d_par nor a kernel of frontier_gpu, however its
\* threads interleave, takes a state below the cost the original solver gives it.
THEOREM PaddedUpperBound ==
    ASSUME NEW CONSTANT limit, Roomy(limit)
    PROVE  Spec /\ alg \in Padded /\ OracleSolves /\ []PadFits(limit) => []UpperBound
<1>1. PadInv /\ BoundInv /\ OracleSolves => UpperBound
  <2>. SUFFICES ASSUME PadInv, BoundInv, OracleSolves, world.fresh, NEW s \in State,
                       world.oracle.val[s] < ReachThresh
                PROVE  Costs[s] >= world.oracle.val[s]
    BY DEF UpperBound
  <2>1. Costs = hot /\ hot[s] \in Nat
    BY BellmanAssumption DEF BoundInv, Padded, Costs, PadInv, PadTyping, Cost
  <2>2. FinalCosts \in [State -> Cost] /\ Solution(FinalCosts)
    BY BellmanAssumption DEF OracleSolves, FinalCosts, Cost
  <2>3. Above(FinalCosts)
    BY <2>2 DEF BoundInv
  <2>4. FinalCosts[s] <= hot[s] /\ FinalCosts[s] = world.oracle.val[s] /\ FinalCosts[s] \in Nat
    BY <2>2, <2>3, BellmanAssumption DEF Above, FinalCosts, Cost
  <2>. QED
    BY <2>1, <2>4
<1>2. OracleSolves /\ world' = world => OracleSolves'
  <2>. SUFFICES ASSUME OracleSolves, world' = world PROVE OracleSolves'
    OBVIOUS
  <2>1. map' = map
    BY DEF map
  <2>2. FinalCosts' = FinalCosts
    BY DEF FinalCosts
  <2>3. ASSUME NEW s \in State
        PROVE  PadLeast(s, FinalCosts)' = PadLeast(s, FinalCosts) /\ Moves(s)' = Moves(s)
    BY <2>1, <2>2 DEF PadLeast, PadCost, Moves
  <2>4. Solution(FinalCosts)' = Solution(FinalCosts)
    BY <2>1, <2>2, <2>3 DEF Solution
  <2>. QED
    BY <2>4 DEF OracleSolves
<1>3. BoundInv /\ [Next]_vars => world' = world
  BY PaddedSteps DEF BoundInv
<1>. QED
  BY <1>1, <1>2, <1>3, Bounded, PTL DEF Spec

\* The original solver, run by itself, ends on the greatest solution, with the
\* first action of least cost.
OracleIsGreatest ==
    /\ world.fresh /\ GreatestSolution(FinalCosts)
    /\ \A s \in State : world.oracle.val[s] < ReachThresh =>
           world.oracle.act[s] = PadPolicy(s, FinalCosts)

\* SolverCaps::exact, "the converged costs of reachable cells are bit-exact with
\* Reference": it is enough that the original solver, which is sequential,
\* solves the equations; neither the rounds of frontier2d_par nor any schedule
\* of the kernels of frontier_gpu ends elsewhere.
THEOREM PaddedIsOriginal ==
    ASSUME NEW CONSTANT limit, Roomy(limit)
    PROVE  Spec /\ alg \in Padded /\ OracleIsGreatest /\ []PadFits(limit) => []ConvergedIsOriginal
<1>1. PadInv /\ BoundInv /\ OracleIsGreatest /\ ConvergedIsGreatest => ConvergedIsOriginal
  <2>. SUFFICES ASSUME PadInv, BoundInv, OracleIsGreatest, ConvergedIsGreatest,
                       outcome = "converged", NEW s \in State, world.oracle.val[s] < ReachThresh
                PROVE  val[s] = world.oracle.val[s] /\ act[s] = world.oracle.act[s]
    BY DEF ConvergedIsOriginal
  <2>1. GreatestSolution(val) /\ GreatestSolution(FinalCosts)
    BY DEF ConvergedIsGreatest, OracleIsGreatest
  <2>2. act[s] = PadPolicy(s, val)
    BY DEF PadInv, PaddedIsFixpoint, BoundInv
  <2>3. world.oracle.act[s] = PadPolicy(s, FinalCosts) /\ FinalCosts[s] = world.oracle.val[s]
    BY DEF OracleIsGreatest, FinalCosts
  <2>. HIDE DEF FinalCosts
  <2>4. ASSUME NEW r \in State PROVE val[r] = FinalCosts[r]
    <3>1. val[r] <= FinalCosts[r] /\ FinalCosts[r] <= val[r]
      BY <2>1 DEF GreatestSolution
    <3>2. val[r] \in Nat /\ FinalCosts[r] \in Nat
      BY <2>1, BellmanAssumption DEF GreatestSolution, Cost
    <3>. QED
      BY <3>1, <3>2
  <2>5. val = FinalCosts
    <3>1. val \in [State -> Cost] /\ FinalCosts \in [State -> Cost]
      BY <2>1 DEF GreatestSolution
    <3>. QED
      BY <2>4, <3>1
  <2>. QED
    BY <2>2, <2>3, <2>5
<1>2. OracleIsGreatest /\ world' = world => OracleIsGreatest'
  <2>. SUFFICES ASSUME OracleIsGreatest, world' = world PROVE OracleIsGreatest'
    OBVIOUS
  <2>1. map' = map /\ FinalCosts' = FinalCosts
    BY DEF map, FinalCosts
  <2>2. ASSUME NEW s \in State, NEW v
        PROVE  PadLeast(s, v)' = PadLeast(s, v) /\ Moves(s)' = Moves(s)
    BY <2>1 DEF PadLeast, PadCost, Moves
  <2>3. \A v : Solution(v)' = Solution(v)
    BY <2>1, <2>2 DEF Solution
  <2>4. GreatestSolution(FinalCosts)'
    BY <2>1, <2>3 DEF GreatestSolution, OracleIsGreatest
  <2>5. \A s \in State : PadPolicy(s, FinalCosts)' = PadPolicy(s, FinalCosts)
    BY <2>1 DEF PadPolicy, PadLeast, PadCost, Moves
  <2>. QED
    BY <2>4, <2>5 DEF OracleIsGreatest
<1>3. BoundInv /\ [Next]_vars => world' = world
  BY PaddedSteps DEF BoundInv
<1>. QED
  BY <1>1, <1>2, <1>3, Bounded, PaddedGreatest, PTL DEF Spec

\* What the rounds that only read keep: see PaddedStopDescends.
DescInv ==
    /\ alg \in Padded /\ map.pen \in [Cell -> Nat]
    /\ world.fresh => RoundsFall
    /\ StoppedFieldDescends

LEMMA DescInit == Init /\ alg \in Padded => DescInv
<1>. SUFFICES ASSUME Init, alg \in Padded PROVE DescInv
  OBVIOUS
<1>1. PICK w \in Worlds : world.map = w.map /\ world.fresh = w.fresh /\ val = w.start.val
  BY DEF Init
<1>2. map.pen \in [Cell -> Nat] /\ outcome = "running"
  BY <1>1, SolversAssumption DEF map, Init
<1>3. ASSUME world.fresh, alg = "par", NEW s \in State, Moves(s) PROVE PadLeast(s, hot) <= hot[s]
  <2>1. hot[s] = MaxCost
    BY <1>1, <1>3, FreshAssumption DEF Init, Moves, Evaluated, map
  <2>. QED
    BY <2>1, PadLeastType, BellmanAssumption DEF Cost
<1>. QED
  BY <1>2, <1>3 DEF DescInv, RoundsFall, StoppedFieldDescends

\* The policy of costs that are above their own update.
LEMMA PolicyDescends ==
    ASSUME map.pen \in [Cell -> Nat], NEW v, NEW s \in State, Moves(s),
           v[s] \in Cost, PadLeast(s, v) <= v[s], v[s] < MaxCost
    PROVE  PadPolicy(s, v) # None /\ ActionCost(s, PadPolicy(s, v), v, map.free, map.pen) <= v[s]
<1>. DEFINE A == {PadCost(s, a, v) : a \in Action} \cap Cost
            C == {MaxCost} \cup A
            least == PadLeast(s, v)
            P == {a \in Action : PadCost(s, a, v) = least}
<1>1. least \in Nat /\ v[s] \in Nat /\ MaxCost \in Nat
  BY PadLeastType, BellmanAssumption DEF Cost
<1>2. least # MaxCost
  <2>. HIDE DEF least
  <2>1. least <= v[s]
    BY DEF least
  <2>. QED
    BY <1>1, <2>1
<1>3. C \subseteq Nat /\ C # {} /\ least = Least(C)
  BY BellmanAssumption DEF PadLeast, Cost
<1>4. Least(C) \in C
  <2>. HIDE DEF C
  <2>. QED
    BY <1>3, LeastIsLeast
<1>5. P \subseteq Nat /\ P # {}
  <2>1. least \in A
    BY <1>2, <1>3, <1>4
  <2>. QED
    BY <2>1 DEF Action
<1>6. Least(P) \in P
  <2>. HIDE DEF P
  <2>. QED
    BY <1>5, LeastIsLeast
<1>7. PadPolicy(s, v) = Least(P)
  BY <1>2 DEF PadPolicy
<1>8. PICK a \in Action : a = PadPolicy(s, v) /\ PadCost(s, a, v) = least
  BY <1>6, <1>7
<1>9. ActionCost(s, a, v, map.free, map.pen) = least
  BY <1>2, <1>8 DEF PadCost
<1>. QED
  BY <1>8, <1>9, BellmanAssumption

LEMMA DescStep ==
    ASSUME NEW limit, Roomy(limit), PadInv, PadInv', PadFits(limit), DescInv, [Next]_vars
    PROVE  DescInv'
<1>0. alg \in Padded /\ alg' = alg /\ world' = world
  BY PaddedSteps DEF DescInv
<1>1. (map.pen)' \in [Cell -> Nat] /\ map.pen \in [Cell -> Nat] /\ map' = map
  BY <1>0 DEF DescInv, map
<1>2. \A s, v : PadLeast(s, v)' = PadLeast(s, v') /\ PadPolicy(s, v)' = PadPolicy(s, v')
  BY <1>1 DEF PadLeast, PadPolicy, PadCost, Moves
<1>3. ASSUME JacobiRound, world.fresh
      PROVE  /\ \A s \in State : Moves(s) => PadLeast(s, hot') <= hot'[s]
             /\ outcome' = "stopped" => val' = hot' /\ act' = PadPolicies(hot')
  <2>. DEFINE moves == {s \in State : /\ s[1] \in Dilate(CellsOf(front))
                                      /\ Moves(s) /\ PadLeast(s, hot) # hot[s]}
  <2>1. /\ hot' = [s \in State |-> IF s \in moves THEN PadLeast(s, hot) ELSE hot[s]]
        /\ alg = "par" /\ phase = "round"
        /\ outcome' = "stopped" =>
              (val' = hot' /\ act' = PadPolicies(hot')) \/ outcome = "stopped"
    BY <1>3 DEF JacobiRound, WriteBack, Ending
  <2>2. hot \in [State -> Cost] /\ hot' \in [State -> Cost] /\ outcome = "running"
    BY <1>0, <2>1 DEF PadInv, PadTyping
  <2>3. \A s \in State : Moves(s) => PadLeast(s, hot) <= hot[s]
    BY <1>3, <2>1 DEF DescInv, RoundsFall
  <2>4. \A s \in State : PadLeast(s, hot) \in Nat /\ hot[s] \in Nat /\ hot'[s] \in Nat
    BY <2>2, PadLeastType, BellmanAssumption DEF Cost
  <2>5. \A s \in State : hot'[s] <= hot[s]
    BY <2>1, <2>3, <2>4
  <2>6. \A s \in State : hot[s] # MaxCost => hot[s] + map.pen[s[1]] <= limit
    BY DEF PadFits
  <2>7. \A s \in State : PadLeast(s, hot') <= PadLeast(s, hot)
    <3>. DEFINE u == hot'
                v == hot
    <3>. HIDE DEF u, v
    <3>. QED
      BY <1>1, <2>2, <2>5, <2>6, PadLeastMonotone DEF u, v
  <2>8. ASSUME NEW s \in State, Moves(s) PROVE PadLeast(s, hot') <= hot'[s]
    <3>1. PadLeast(s, hot) <= hot'[s]
      BY <2>1, <2>3, <2>4, <2>8
    <3>2. PadLeast(s, hot') \in Nat
      BY PadLeastType, BellmanAssumption DEF Cost
    <3>. QED
      BY <2>4, <2>7, <3>1, <3>2
  <2>. QED
    BY <2>1, <2>2, <2>8
<1>4. ASSUME hot' = hot, outcome' = "stopped" => outcome = "stopped" /\ val' = val /\ act' = act
      PROVE  DescInv'
  <2>1. world.fresh => RoundsFall'
    BY <1>0, <1>1, <1>2, <1>4 DEF DescInv, RoundsFall, Moves
  <2>2. StoppedFieldDescends'
    BY <1>0, <1>1, <1>4 DEF DescInv, StoppedFieldDescends, Moves
  <2>. QED
    BY <1>0, <1>1, <2>1, <2>2 DEF DescInv
<1>5. CASE JacobiRound
  <2>1. world.fresh => RoundsFall'
    BY <1>0, <1>1, <1>2, <1>3, <1>5 DEF RoundsFall, Moves
  <2>2. StoppedFieldDescends'
    <3>. SUFFICES ASSUME world.fresh, outcome' = "stopped", NEW s \in State, Moves(s),
                         val'[s] < ReachThresh
                  PROVE  /\ act'[s] # None
                         /\ ActionCost(s, act'[s], val', map.free, map.pen) <= val'[s]
      BY <1>0, <1>1 DEF StoppedFieldDescends, Moves
    <3>1. val' = hot' /\ act'[s] = PadPolicy(s, hot') /\ PadLeast(s, hot') <= hot'[s]
      BY <1>3, <1>5 DEF PadPolicies
    <3>2. hot'[s] \in Cost /\ hot'[s] < MaxCost
      <4>1. hot' \in [State -> Cost]
        BY <1>0 DEF PadInv, PadTyping
      <4>. QED
        BY <3>1, <4>1, SolversAssumption, BellmanAssumption DEF Cost
    <3>. DEFINE v == hot'
    <3>. HIDE DEF v
    <3>3. PadPolicy(s, v) # None /\ ActionCost(s, PadPolicy(s, v), v, map.free, map.pen) <= v[s]
      BY <1>1, <3>1, <3>2, PolicyDescends DEF v
    <3>. QED
      BY <3>1, <3>3 DEF v
  <2>. QED
    BY <1>0, <1>1, <2>1, <2>2 DEF DescInv
<1>6. CASE JacobiEnd \/ GpuEnd
  <2>1. hot' = hot /\ outcome' # "stopped"
    BY <1>6 DEF JacobiEnd, GpuEnd
  <2>. QED
    BY <1>4, <2>1
<1>7. CASE GpuDilate \/ GpuRound \/ UNCHANGED vars
  <2>1. hot' = hot /\ outcome' = outcome /\ val' = val /\ act' = act
    BY <1>7 DEF vars, GpuDilate, GpuRound, gpuFixed
  <2>. QED
    BY <1>4, <2>1
<1>8. ASSUME NEW w \in Threads, GpuRead(w) \/ GpuWrite(w) PROVE DescInv'
  <2>1. alg = "gpu" /\ outcome' = outcome /\ val' = val /\ act' = act
    BY <1>8 DEF GpuRead, GpuWrite, gpuFixed
  <2>2. StoppedFieldDescends'
    BY <1>0, <1>1, <2>1 DEF DescInv, StoppedFieldDescends, Moves
  <2>. QED
    BY <1>0, <1>1, <2>1, <2>2 DEF DescInv, RoundsFall
<1>. QED
  BY <1>0, <1>5, <1>6, <1>7, <1>8, PaddedSteps

\* "a greedy descent in a stopped field does not cycle": a solve of frontier2d_par
\* that began on a fresh field and was stopped returns an action that costs no
\* more than the value in every state it reached.
THEOREM PaddedStopDescends ==
    ASSUME NEW CONSTANT limit, Roomy(limit)
    PROVE  Spec /\ alg \in Padded /\ []PadFits(limit) => []StoppedFieldDescends
<1>1. Init /\ alg \in Padded => DescInv
  BY DescInit
<1>2. PadInv /\ PadInv' /\ PadFits(limit) /\ DescInv /\ [Next]_vars => DescInv'
  BY DescStep
<1>3. DescInv => StoppedFieldDescends
  BY DEF DescInv
<1>. QED
  BY <1>1, <1>2, <1>3, PadInit, PadStep, PTL DEF Spec
=============================================================================
