------------------------- MODULE CompactSolverProofs -------------------------
(***************************************************************************)
(* Blocks that are freed by the solver that works out of core are not read *)
(* any more, for every map, goal, reach, block size, band and number of    *)
(* threads.                                                                *)
(***************************************************************************)
EXTENDS CompactSolver, BellmanProofs, FiniteSetTheorems

USE DEF inputs, columns, roundVars

-----------------------------------------------------------------------------
(* Rows and blocks.                                                        *)

\* A row lies in its block.
LEMMA RowInBlock ==
    ASSUME NEW x \in Nat
    PROVE  /\ BlockOfRow(x) \in Nat
           /\ BlockRows * BlockOfRow(x) <= x
           /\ x < BlockRows * BlockOfRow(x) + BlockRows
  BY CompactAssumption DEF BlockOfRow

LEMMA RowsInOrder ==
    ASSUME NEW x \in Nat, NEW y \in Nat, x <= y
    PROVE  BlockOfRow(x) <= BlockOfRow(y)
<1>. DEFINE p == BlockOfRow(x)  q == BlockOfRow(y)
<1>0. BlockRows \in Nat /\ BlockRows > 0
  BY CompactAssumption
<1>1. p \in Nat /\ q \in Nat /\ BlockRows * p <= x /\ y < BlockRows * q + BlockRows
  BY RowInBlock
<1>. HIDE DEF p, q
<1>2. SUFFICES ASSUME q + 1 <= p PROVE FALSE
  BY <1>1 DEF p, q
<1>3. BlockRows * (q + 1) <= BlockRows * p
  BY <1>0, <1>1, <1>2
<1>4. BlockRows * (q + 1) = BlockRows * q + BlockRows
  BY <1>0, <1>1
<1>. QED
  BY <1>0, <1>1, <1>3, <1>4

\* The blocks of two rows that are at most Reach apart are at most HaloBlocks
\* apart; a halo that is rounded down would fall short.
LEMMA HaloSuffices ==
    ASSUME NEW x \in Nat, NEW y \in Nat, y - x \in -Reach .. Reach
    PROVE  BlockOfRow(y) - BlockOfRow(x) \in -HaloBlocks .. HaloBlocks
<1>0. /\ BlockRows \in Nat /\ BlockRows > 0 /\ Reach \in Nat
  BY CompactAssumption, BellmanAssumption
<1>1. HaloBlocks \in Nat /\ Reach <= BlockRows * HaloBlocks
  BY <1>0 DEF HaloBlocks
<1>2. ASSUME NEW u \in Nat, NEW v \in Nat, v <= u + Reach
      PROVE  BlockOfRow(v) <= BlockOfRow(u) + HaloBlocks
  <2>. DEFINE p == BlockOfRow(u)  q == BlockOfRow(v)  h == HaloBlocks
  <2>1. p \in Nat /\ q \in Nat /\ u < BlockRows * p + BlockRows /\ BlockRows * q <= v
    BY RowInBlock
  <2>2. h \in Nat /\ Reach <= BlockRows * h
    BY <1>1
  <2>. HIDE DEF p, q, h
  <2>3. SUFFICES ASSUME p + h + 1 <= q PROVE FALSE
    BY <2>1, <2>2 DEF p, q, h
  <2>4. BlockRows * (p + h + 1) <= BlockRows * q
    BY <1>0, <2>1, <2>2, <2>3
  <2>5. BlockRows * (p + h + 1) = BlockRows * p + BlockRows * h + BlockRows
    BY <1>0, <2>1, <2>2
  <2>6. BlockRows * p \in Nat /\ BlockRows * h \in Nat /\ BlockRows * q \in Nat
    BY <1>0, <2>1, <2>2
  <2>. QED
    BY <1>0, <1>2, <2>1, <2>2, <2>4, <2>5, <2>6
<1>3. y <= x + Reach /\ x <= y + Reach
  BY <1>0
<1>4. BlockOfRow(x) \in Nat /\ BlockOfRow(y) \in Nat
  BY RowInBlock
<1>. QED
  BY <1>1, <1>2, <1>3, <1>4

\* The window of a column lies among the blocks, with the column's own block in
\* it, and every block of it has the column's block in its neighbourhood.
LEMMA WindowIsAround ==
    ASSUME NEW c \in Cell
    PROVE  /\ BlockOf(c) \in Window(c)
           /\ \A b \in Window(c) : b \in 0 .. NumBlocks - 1 /\ BlockOf(c) \in Around(b)
<1>. DEFINE y == c[2]  last == Height + 2 * Reach - 1
<1>0. y \in Nat /\ y <= Height - 1 /\ Reach \in Nat /\ Height \in Nat /\ Height > 0
  BY BellmanAssumption DEF Cell
<1>. HIDE DEF y
<1>1. /\ y + Reach \in Nat /\ y + 2 * Reach \in Nat /\ last \in Nat
      /\ y <= y + Reach /\ y + Reach <= y + 2 * Reach /\ y + 2 * Reach <= last
  BY <1>0
<1>. HIDE DEF last
<1>2. /\ BlockOfRow(y) <= BlockOfRow(y + Reach)
      /\ BlockOfRow(y + Reach) <= BlockOfRow(y + 2 * Reach)
      /\ BlockOfRow(y + 2 * Reach) <= BlockOfRow(last)
  BY <1>0, <1>1, RowsInOrder
<1>3. /\ BlockOfRow(y) \in Nat /\ BlockOfRow(y + Reach) \in Nat
      /\ BlockOfRow(y + 2 * Reach) \in Nat /\ BlockOfRow(last) \in Nat
  BY <1>0, <1>1, RowInBlock
<1>4. NumBlocks = BlockOfRow(last) + 1 /\ BlockOf(c) = BlockOfRow(y + Reach)
  BY DEF NumBlocks, BlockOf, last, y
<1>5. Window(c) = BlockOfRow(y) .. BlockOfRow(y + 2 * Reach)
  <2>. DEFINE h == BlockOfRow(y + 2 * Reach)  n == NumBlocks - 1
  <2>1. h \in Int /\ n \in Int /\ h <= n
    BY <1>2, <1>3, <1>4
  <2>. HIDE DEF h, n
  <2>2. Min({h, n}) = h
    BY <2>1 DEF Min
  <2>. QED
    BY <2>2 DEF Window, h, n, y
<1>6. ASSUME NEW b \in Window(c)
      PROVE  b \in 0 .. NumBlocks - 1 /\ BlockOf(c) \in Around(b)
  <2>1. b \in Nat /\ BlockOfRow(y) <= b /\ b <= BlockOfRow(y + 2 * Reach)
    BY <1>3, <1>5
  <2>2. /\ BlockOfRow(y + Reach) - BlockOfRow(y) \in -HaloBlocks .. HaloBlocks
        /\ BlockOfRow(y + 2 * Reach) - BlockOfRow(y + Reach) \in -HaloBlocks .. HaloBlocks
    BY <1>0, <1>1, HaloSuffices
  <2>3. HaloBlocks \in Int
    BY CompactAssumption, BellmanAssumption DEF HaloBlocks
  <2>4. BlockOf(c) - b \in -HaloBlocks .. HaloBlocks
    BY <1>3, <1>4, <2>1, <2>2, <2>3
  <2>. QED
    BY <1>2, <1>3, <1>4, <2>1, <2>4 DEF Around
<1>. QED
  BY <1>2, <1>3, <1>4, <1>5, <1>6

\* A column around another one has that one's block in its own neighbourhood.
LEMMA NearIsAround ==
    ASSUME NEW d \in Cell, NEW c \in Near(d)
    PROVE  BlockOf(d) \in Around(BlockOf(c))
<1>0. c \in Cell /\ c[2] - d[2] \in -Reach .. Reach
  BY DEF Near
<1>1. /\ c[2] \in Nat /\ d[2] \in Nat /\ Reach \in Nat
      /\ (d[2] + Reach) - (c[2] + Reach) \in -Reach .. Reach
      /\ c[2] + Reach \in Nat /\ d[2] + Reach \in Nat
  BY <1>0, BellmanAssumption DEF Cell
<1>2. BlockOf(d) - BlockOf(c) \in -HaloBlocks .. HaloBlocks
  BY <1>1, HaloSuffices DEF BlockOf
<1>3. BlockOf(d) \in 0 .. NumBlocks - 1
  BY WindowIsAround
<1>. QED
  BY <1>2, <1>3 DEF Around

-----------------------------------------------------------------------------
(* Finite sets.                                                            *)

LEMMA CellsAreFinite == IsFiniteSet(Cell) /\ IsFiniteSet(State)
<1>1. /\ IsFiniteSet(0 .. Width - 1) /\ IsFiniteSet(0 .. Height - 1)
      /\ IsFiniteSet(0 .. NumTheta - 1)
  BY FS_Interval, BellmanAssumption
<1>2. IsFiniteSet(Cell)
  BY <1>1, FS_Product DEF Cell
<1>. QED
  BY <1>1, <1>2, FS_Product DEF State, Theta

\* A finite set of numbers has a largest one: a smallest set without one would
\* have one after all.
LEMMA FiniteHasMax ==
    ASSUME NEW S, S \subseteq Nat, S # {}, IsFiniteSet(S)
    PROVE  Max(S) \in S
<1>. DEFINE Top(T) == \E m \in T : \A n \in T : m >= n
            Bad(k) == \E T \in SUBSET Nat :
                         T # {} /\ IsFiniteSet(T) /\ Cardinality(T) = k /\ ~Top(T)
            B == {k \in Nat : Bad(k)}
<1>1. SUFFICES Top(S)
  BY DEF Max
<1>2. SUFFICES ASSUME ~Top(S) PROVE FALSE
  OBVIOUS
<1>3. B # {} /\ B \subseteq Nat
  <2>1. Cardinality(S) \in Nat
    BY FS_CardinalityType
  <2>2. Bad(Cardinality(S))
    BY <1>2
  <2>. QED
    BY <2>1, <2>2
<1>4. Least(B) \in B /\ \A k \in B : Least(B) <= k
  BY <1>3, LeastIsLeast
<1>5. PICK T \in SUBSET Nat :
         T # {} /\ IsFiniteSet(T) /\ Cardinality(T) = Least(B) /\ ~Top(T)
  BY <1>4
<1>6. PICK x \in T : TRUE
  BY <1>5
<1>. DEFINE U == T \ {x}
<1>7. IsFiniteSet(U) /\ Cardinality(U) = Least(B) - 1 /\ Cardinality(U) \in Nat
  BY <1>5, <1>6, FS_RemoveElement, FS_CardinalityType
<1>8. Least(B) \in Nat
  BY <1>3, <1>4
<1>9. U = {} \/ Top(U)
  <2>1. Cardinality(U) \notin B
    <3>1. PICK l, n : l = Least(B) /\ n = Cardinality(U)
      OBVIOUS
    <3>2. l \in Nat /\ n = l - 1 /\ \A k \in B : l <= k
      BY <1>4, <1>7, <1>8, <3>1
    <3>. HIDE DEF B, U
    <3>3. n \notin B
      BY <3>2
    <3>. QED
      BY <3>1, <3>3
  <2>2. ~Bad(Cardinality(U))
    BY <1>7, <2>1
  <2>3. U \in SUBSET Nat
    OBVIOUS
  <2>. QED
    BY <1>7, <2>2, <2>3
<1>10. CASE U = {}
  <2>1. \A n \in T : x >= n
    BY <1>10
  <2>. QED
    BY <1>5, <2>1
<1>11. CASE Top(U)
  <2>1. PICK m \in U : \A n \in U : m >= n
    BY <1>11
  <2>2. CASE m >= x
    <3>1. \A n \in T : m >= n
      BY <2>1, <2>2
    <3>. QED
      BY <1>5, <3>1
  <2>3. CASE ~(m >= x)
    <3>1. \A n \in T : x >= n
      BY <2>1, <2>3
    <3>. QED
      BY <1>5, <3>1
  <2>. QED
    BY <2>2, <2>3
<1>. QED
  BY <1>9, <1>10, <1>11

-----------------------------------------------------------------------------
(* The band and the threshold are numbers.                                 *)

\* What every world gives the solve.
Inputs ==
    /\ map.final \subseteq State
    /\ map.pen \in [Cell -> Nat]

LEMMA BandIsNumber ==
    ASSUME Inputs
    PROVE  Band \in Nat
<1>. DEFINE P == {map.pen[c] : c \in Cell}
<1>1. P \subseteq Nat /\ P # {}
  <2>1. <<0, 0>> \in Cell
    BY BellmanAssumption DEF Cell
  <2>. QED
    BY <2>1 DEF Inputs
<1>2. map.pen \in Surjection(Cell, P)
  BY DEF Inputs, Surjection
<1>3. IsFiniteSet(P)
  BY <1>2, CellsAreFinite, FS_Surjection
<1>4. MaxPen \in Nat
  <2>. HIDE DEF P
  <2>1. Max(P) \in P
    BY <1>1, <1>3, FiniteHasMax
  <2>. QED
    BY <1>1, <2>1 DEF MaxPen, P
<1>5. ASSUME NEW n \in Nat PROVE Max({n, 1}) \in Nat
  BY DEF Max
<1>6. CoupleMargin \in Nat
  <2>1. Max({Reach, 1}) \in Nat /\ Max({MaxPen, 1}) \in Nat /\ CoupleSafety \in Nat
    BY <1>4, <1>5, BellmanAssumption, CompactAssumption
  <2>. QED
    BY <2>1 DEF CoupleMargin
<1>. QED
  BY <1>6, CompactAssumption DEF Band

LEMMA FusedLeastType ==
    ASSUME NEW s
    PROVE  FusedLeast(s) \in Cost
<1>. DEFINE C == {MaxCost} \cup ({FusedCost(s, a) : a \in Action} \cap Cost)
<1>1. C \subseteq Cost /\ C \subseteq Nat /\ C # {}
  BY BellmanAssumption DEF Cost
<1>. HIDE DEF C
<1>2. Least(C) \in Cost
  BY <1>1, LeastIsLeast
<1>. QED
  BY <1>2 DEF FusedLeast, C

-----------------------------------------------------------------------------
(* The inductive invariant.                                                *)

Typing ==
    /\ Inputs
    /\ cp \in [State -> Cost] /\ t \in Nat
    /\ block \in [0 .. NumBlocks - 1 -> {"none", "resident", "evicted"}]
    /\ front \subseteq Cell /\ seen \subseteq Cell
    /\ live \subseteq Cell /\ colFinal \subseteq Cell
    /\ moved \subseteq State /\ thr \in [1 .. NThreads -> SUBSET State]
    /\ phase \in {"round", "relax", "finalize", "end", "done"}

\* A column that is not final and has a state to evaluate: a block with such a
\* column in its neighbourhood is not full.
Open(c) == c \notin colFinal /\ \E th \in Theta : EvalOk(<<c, th>>)
Goal == {s[1] : s \in map.final}
NoneEvicted == \A b \in 0 .. NumBlocks - 1 : block[b] # "evicted"

\* States that are not evaluated keep the cost they began with.
Pinned == \A s \in State : ~EvalOk(s) => cp[s] = (IF s \in map.final THEN 0 ELSE MaxCost)

\* What is final is in a final column.
Final == \A s \in fin : s \in State /\ EvalOk(s) /\ s[1] \in colFinal

\* The neighbourhood of a block that was freed is final for good.
Full ==
    \A b \in 0 .. NumBlocks - 1 : block[b] = "evicted" =>
        \A s \in State : EvalOk(s) /\ BlockOf(s[1]) \in Around(b) => s \in fin

\* A column that is live is open, or all of its headings are goals: then it is
\* settled by the first wave, before which nothing was freed.
Lives ==
    /\ Goal \subseteq live \cup colFinal
    /\ live \cap colFinal = {}
    /\ phase # "done" =>
          \A c \in live : Open(c) \/ (c \in Goal /\ colMax[c] = 0 /\ NoneEvicted)

\* A column in the frontier is near an open one.
Fronts ==
    phase # "done" => NoneEvicted \/ \A c \in front : \E d \in Cell : Open(d) /\ c \in Near(d)

\* The workers' columns are not final, and what they read is resident.
Working ==
    phase = "relax" =>
        /\ \A c \in seen : c \notin colFinal /\ block[BlockOf(c)] = "resident"
        /\ \A w \in 1 .. NThreads : \A s \in thr[w] :
              /\ EvalOk(s) /\ s[1] \notin colFinal
              /\ \A b \in Window(s[1]) : block[b] = "resident"
        /\ \A s \in moved : EvalOk(s) /\ s[1] \notin colFinal

Inv == Typing /\ Pinned /\ Final /\ Full /\ Lives /\ Fronts /\ Working

\* No block in the window of an open column was freed, nor the block of a column
\* near one.
LEMMA OpenIsKept ==
    ASSUME Typing, Final, Full, NEW d \in Cell, Open(d)
    PROVE  /\ \A b \in Window(d) : block[b] # "evicted"
           /\ \A c \in Near(d) : block[BlockOf(c)] # "evicted"
<1>1. PICK th \in Theta : EvalOk(<<d, th>>)
  BY DEF Open
<1>2. <<d, th>> \in State /\ <<d, th>>[1] = d
  BY DEF State
<1>3. ASSUME NEW b \in 0 .. NumBlocks - 1, BlockOf(d) \in Around(b)
      PROVE  block[b] # "evicted"
  BY <1>1, <1>2, <1>3 DEF Full, Final, Open
<1>4. \A b \in Window(d) : block[b] # "evicted"
  BY <1>3, WindowIsAround
<1>5. ASSUME NEW c \in Near(d) PROVE block[BlockOf(c)] # "evicted"
  <2>1. c \in Cell /\ BlockOf(d) \in Around(BlockOf(c))
    BY NearIsAround DEF Near
  <2>2. BlockOf(c) \in 0 .. NumBlocks - 1
    BY <2>1, WindowIsAround
  <2>. QED
    BY <1>3, <2>1, <2>2
<1>. QED
  BY <1>4, <1>5

\* A full block has no state left to settle.
LEMMA FullIsFinal ==
    ASSUME NEW f \in SUBSET State, \A s \in f : EvalOk(s), NEW k, BlockFull(f, k),
           NEW s \in State, EvalOk(s), BlockOf(s[1]) = k
    PROVE  s \in f
<1>. DEFINE A == {r \in f : BlockOf(r[1]) = k}
            B == {r \in State : EvalOk(r) /\ BlockOf(r[1]) = k}
<1>1. A \in SUBSET B
  OBVIOUS
<1>2. B \in SUBSET State
  OBVIOUS
<1>3. Cardinality(A) = Cardinality(B)
  BY DEF BlockFull
<1>4. s \in B
  OBVIOUS
<1>. HIDE DEF A, B
<1>5. IsFiniteSet(B)
  BY <1>2, CellsAreFinite, FS_Subset
<1>6. A = B
  BY <1>1, <1>3, <1>5, FS_Subset
<1>. QED
  BY <1>4, <1>6 DEF A

-----------------------------------------------------------------------------
(* The steps.                                                              *)

LEMMA InitInv == Init => Inv
<1>. SUFFICES ASSUME Init PROVE Inv
  OBVIOUS
<1>1. PICK w \in Worlds :
         LET src == IF entry = "slice" THEN SliceSource(w) ELSE MapSource(w)
         IN  /\ map = src
             /\ cp = [s \in State |-> IF s \in src.final THEN 0 ELSE MaxCost]
  BY DEF Init, map
<1>2. Map(w).pen \in [Cell -> Nat]
  <2>1. w.penalty \in Nat
    BY CompactAssumption
  <2>2. \A c : Penalty(w.occ, w.margin, w.penalty, c) \in Nat
    BY <2>1 DEF Penalty
  <2>. QED
    BY <2>2 DEF Map, FromOccupancy
<1>3. Inputs
  <2>1. CASE entry = "slice"
    <3>1. map = SliceSource(w)
      BY <1>1, <2>1
    <3>2. map.pen \in [Cell -> Nat]
      BY <1>2, <3>1, CompactAssumption DEF SliceSource
    <3>3. map.final \subseteq State
      BY <3>1 DEF SliceSource, SetStateValues
    <3>. QED
      BY <3>2, <3>3 DEF Inputs
  <2>2. CASE entry # "slice"
    <3>1. map = MapSource(w)
      BY <1>1, <2>2
    <3>2. map.pen \in [Cell -> Nat]
      BY <1>2, <3>1 DEF MapSource
    <3>3. map.final \subseteq State
      BY <3>1 DEF MapSource, ComputeFinals, GoalBox, State
    <3>. QED
      BY <3>2, <3>3 DEF Inputs
  <2>. QED
    BY <2>1, <2>2
<1>4. cp = [s \in State |-> IF s \in map.final THEN 0 ELSE MaxCost]
  BY <1>1
<1>5. Goal \subseteq Cell
  BY <1>3 DEF Inputs, Goal, State
<1>6. Dilate(Goal) \subseteq Cell
  BY DEF Dilate, Near
<1>7. /\ live = Goal /\ front = Dilate(Goal) /\ colFinal = {} /\ fin = {}
      /\ colMax = [c \in Cell |-> IF c \in Goal THEN 0 ELSE MaxCost]
      /\ block = [b \in 0 .. NumBlocks - 1 |-> "none"] /\ t = Band
      /\ thr = [i \in 1 .. NThreads |-> {}] /\ seen = {} /\ moved = {} /\ phase = "round"
  BY DEF Init, Goal
<1>8. NoneEvicted
  BY <1>7 DEF NoneEvicted
<1>9. Typing
  <2>1. cp \in [State -> Cost]
    BY <1>4, BellmanAssumption DEF Cost
  <2>. QED
    BY <1>3, <1>5, <1>6, <1>7, <2>1, BandIsNumber DEF Typing
<1>10. Pinned
  BY <1>4 DEF Pinned
<1>11. Final /\ Full /\ Working
  BY <1>7, <1>8 DEF Final, Full, Working, NoneEvicted
<1>12. Lives /\ Fronts
  BY <1>5, <1>7, <1>8 DEF Lives, Fronts
<1>. QED
  BY <1>9, <1>10, <1>11, <1>12 DEF Inv

LEMMA BeginRoundInv == Inv /\ BeginRound => Inv'
<1>. SUFFICES ASSUME Inv, BeginRound PROVE Inv'
  OBVIOUS
<1>. USE DEF Inv
<1>1. /\ phase = "round" /\ phase' = "relax" /\ block' = Ensure(block, front)
      /\ seen' \subseteq front \ colFinal /\ moved' = {}
      /\ thr' = [w \in 1 .. NThreads |->
                 {s \in State : /\ s[1] \in Part(w) \ colFinal
                                /\ s[2] \in EvalMask(s[1]) /\ EvalOk(s)}]
      /\ UNCHANGED <<world, cp, t, fin, colMax, live, colFinal, front>>
  BY DEF BeginRound
<1>2. \A b \in 0 .. NumBlocks - 1 :
         /\ block'[b] = "evicted" <=> block[b] = "evicted"
         /\ block[b] # "evicted" /\ (\E c \in front : b \in Window(c)) => block'[b] = "resident"
  BY <1>1 DEF Ensure, Typing
<1>3. Typing'
  <2>1. block' \in [0 .. NumBlocks - 1 -> {"none", "resident", "evicted"}]
    BY <1>1 DEF Ensure, Typing
  <2>. QED
    BY <1>1, <2>1 DEF Typing, Inputs, map
<1>4. /\ \A c : Open(c)' = Open(c)
      /\ Goal' = Goal /\ NoneEvicted' = NoneEvicted
  BY <1>1, <1>2 DEF Open, EvalOk, map, Goal, NoneEvicted
<1>5. Pinned' /\ Final'
  BY <1>1 DEF Pinned, Final, EvalOk, map
<1>6. Full'
  BY <1>1, <1>2 DEF Full, EvalOk, map
<1>7. Lives' /\ Fronts'
  BY <1>1, <1>4 DEF Lives, Fronts
<1>8. \A c \in front : BlockOf(c) \in 0 .. NumBlocks - 1 /\ block'[BlockOf(c)] = "resident"
  <2>. SUFFICES ASSUME NEW c \in front
                PROVE  BlockOf(c) \in 0 .. NumBlocks - 1 /\ block'[BlockOf(c)] = "resident"
    OBVIOUS
  <2>1. c \in Cell
    BY DEF Typing
  <2>2. BlockOf(c) \in 0 .. NumBlocks - 1 /\ BlockOf(c) \in Window(c)
    BY <2>1, WindowIsAround
  <2>3. block[BlockOf(c)] # "evicted"
    <3>1. CASE NoneEvicted
      BY <2>2, <3>1 DEF NoneEvicted
    <3>2. CASE \E d \in Cell : Open(d) /\ c \in Near(d)
      BY <3>2, OpenIsKept
    <3>. QED
      BY <1>1, <3>1, <3>2 DEF Fronts
  <2>. QED
    BY <1>2, <2>2, <2>3
<1>9. ASSUME NEW w \in 1 .. NThreads, NEW s \in thr'[w]
      PROVE  /\ EvalOk(s) /\ s[1] \notin colFinal
             /\ \A b \in Window(s[1]) : block'[b] = "resident"
  <2>1. s \in State /\ s[1] \in Part(w) /\ s[1] \notin colFinal /\ EvalOk(s)
    BY <1>1, <1>9
  <2>2. s[1] \in front /\ s[1] \in Cell
    BY <2>1 DEF Part, State
  <2>3. Open(s[1])
    <3>1. s = <<s[1], s[2]>> /\ s[2] \in Theta
      BY <2>1 DEF State
    <3>. QED
      BY <2>1, <3>1 DEF Open
  <2>4. \A b \in Window(s[1]) : b \in 0 .. NumBlocks - 1 /\ block[b] # "evicted"
    BY <2>2, <2>3, OpenIsKept, WindowIsAround
  <2>. QED
    BY <1>2, <2>1, <2>2, <2>4
<1>10. Working'
  BY <1>1, <1>8, <1>9 DEF Working, EvalOk, map
<1>. QED
  BY <1>3, <1>5, <1>6, <1>7, <1>10

\* There is a first state to evaluate.
LEMMA EarliestIsIn ==
    ASSUME NEW S, S \subseteq State, S # {}
    PROVE  Earliest(S) \in S
<1>. DEFINE Key(s) == Place(s[1]) * NumTheta + s[2]
            K == {Key(s) : s \in S}
<1>1. \A n, i, j \in Nat : i * n + j \in Nat
  OBVIOUS
<1>2. ASSUME NEW s \in S PROVE Key(s) \in Nat
  <2>1. s[1][1] \in Nat /\ s[1][2] \in Nat /\ s[2] \in Nat
    BY BellmanAssumption DEF State, Cell, Theta
  <2>2. Place(s[1]) \in Nat
    BY <1>1, <2>1, BellmanAssumption DEF Place
  <2>. QED
    BY <1>1, <2>1, <2>2, BellmanAssumption
<1>3. K \subseteq Nat /\ K # {}
  BY <1>2
<1>4. Least(K) \in K /\ \A y \in K : Least(K) <= y
  BY <1>3, LeastIsLeast
<1>5. PICK s \in S : Least(K) = Key(s)
  BY <1>4
<1>6. \A u \in S : Key(s) <= Key(u)
  BY <1>4, <1>5
<1>. QED
  BY <1>6 DEF Earliest

LEMMA RelaxInv == \A w \in 1 .. NThreads : Inv /\ Relax(w) => Inv'
<1>. SUFFICES ASSUME NEW w \in 1 .. NThreads, Inv, Relax(w) PROVE Inv'
  OBVIOUS
<1>. USE DEF Inv
<1>. DEFINE s == Earliest(thr[w])
<1>1. /\ phase = "relax" /\ thr[w] # {}
      /\ cp' = IF FusedLeast(s) < cp[s] THEN [cp EXCEPT ![s] = FusedLeast(s)] ELSE cp
      /\ moved' = (IF FusedLeast(s) < cp[s] THEN moved \cup {s} ELSE moved)
      /\ thr' = [thr EXCEPT ![w] = @ \ {s}]
      /\ UNCHANGED <<world, t, fin, colMax, live, colFinal, front, seen, block, phase>>
  BY DEF Relax
<1>2. s \in thr[w]
  BY <1>1, EarliestIsIn DEF Typing
<1>3. s \in State /\ EvalOk(s) /\ s[1] \notin colFinal
  BY <1>1, <1>2 DEF Working, Typing
<1>. HIDE DEF s
<1>4. \A i \in 1 .. NThreads : thr'[i] \subseteq thr[i]
  BY <1>1 DEF Typing
<1>5. moved' \subseteq moved \cup {s}
  BY <1>1
<1>6. Typing'
  <2>1. cp' \in [State -> Cost]
    BY <1>1, <1>3, FusedLeastType DEF Typing
  <2>2. thr' \in [1 .. NThreads -> SUBSET State]
    BY <1>1 DEF Typing
  <2>. QED
    BY <1>1, <1>3, <1>5, <2>1, <2>2 DEF Typing, Inputs, map
<1>7. Pinned'
  <2>1. \A r \in State : ~EvalOk(r) => cp'[r] = cp[r]
    BY <1>1, <1>3 DEF Typing
  <2>. QED
    BY <1>1, <2>1 DEF Pinned, EvalOk, map
<1>8. Final' /\ Full' /\ Lives' /\ Fronts'
  BY <1>1 DEF Final, Full, Lives, Fronts, EvalOk, map, Open, Goal, NoneEvicted
<1>9. Working'
  BY <1>1, <1>3, <1>4, <1>5 DEF Working, EvalOk, map
<1>. QED
  BY <1>6, <1>7, <1>8, <1>9

\* A worker writes no column that is final.
LEMMA RelaxKeepsFinal ==
    ASSUME Inv, NEW w \in 1 .. NThreads, Relax(w)
    PROVE  \A r \in State : r[1] \in colFinal => cp'[r] = cp[r]
<1>. DEFINE s == Earliest(thr[w])
<1>1. s \in thr[w]
  BY EarliestIsIn DEF Inv, Typing, Relax
<1>2. s[1] \notin colFinal
  BY <1>1 DEF Inv, Working, Relax
<1>. QED
  BY <1>2 DEF Relax, Inv, Typing

\* A column that has no state to evaluate is reached only at a goal, and costs
\* nothing there.
LEMMA ClosedColumn ==
    ASSUME Typing, Pinned, NEW c \in Cell, \A th \in Theta : ~EvalOk(<<c, th>>)
    PROVE  /\ LowIn(c) # MaxCost => c \in Goal
           /\ c \in Goal => HighIn(c) = 0
<1>1. ASSUME NEW th \in Theta
      PROVE  cp[<<c, th>>] = IF <<c, th>> \in map.final THEN 0 ELSE MaxCost
  BY DEF Pinned, State
<1>2. MaxCost # 0
  BY BellmanAssumption
<1>3. ReachedIn(c) = IF \E th \in Theta : <<c, th>> \in map.final THEN {0} ELSE {}
  <2>1. \A x : x \in ReachedIn(c) <=> x # MaxCost /\ \E th \in Theta : x = cp[<<c, th>>]
    BY DEF ReachedIn
  <2>2. \A x : x \in ReachedIn(c) <=> x = 0 /\ \E th \in Theta : <<c, th>> \in map.final
    BY <1>1, <1>2, <2>1
  <2>3. CASE \E th \in Theta : <<c, th>> \in map.final
    <3>1. ReachedIn(c) = {0}
      BY <2>2, <2>3
    <3>. QED
      BY <2>3, <3>1
  <2>4. CASE ~\E th \in Theta : <<c, th>> \in map.final
    <3>1. ReachedIn(c) = {}
      BY <2>2, <2>4
    <3>. QED
      BY <2>4, <3>1
  <2>. QED
    BY <2>3, <2>4
<1>4. (\E th \in Theta : <<c, th>> \in map.final) <=> c \in Goal
  <2>1. ASSUME NEW s \in map.final, s[1] = c PROVE \E th \in Theta : <<c, th>> \in map.final
    <3>1. s = <<c, s[2]>> /\ s[2] \in Theta
      BY <2>1 DEF Typing, Inputs, State
    <3>. QED
      BY <3>1
  <2>2. ASSUME NEW th \in Theta, <<c, th>> \in map.final PROVE c \in Goal
    BY <2>2 DEF Goal
  <2>. QED
    BY <2>1, <2>2 DEF Goal
<1>5. Max({0}) = 0
  BY DEF Max
<1>. QED
  BY <1>3, <1>4, <1>5 DEF LowIn, HighIn

LEMMA ApplyInv == Inv /\ Apply => Inv'
<1>. SUFFICES ASSUME Inv, Apply PROVE Inv'
  OBVIOUS
<1>. USE DEF Inv
<1>. DEFINE inBand == {s \in moved : LowIn(s[1]) < t}
<1>1. /\ phase = "relax" /\ phase' \in {"end", "finalize", "round"}
      /\ colMax' = [c \in Cell |-> IF c \in seen THEN HighIn(c) ELSE colMax[c]]
      /\ live' = live \cup {c \in seen : LowIn(c) # MaxCost}
      /\ \/ UNCHANGED front
         \/ front' = Dilate({s[1] : s \in inBand}) \ colFinal
      /\ UNCHANGED <<world, cp, t, fin, colFinal, seen, moved, thr, block>>
  BY DEF Apply
<1>2. /\ \A c : Open(c)' = Open(c)
      /\ Goal' = Goal /\ NoneEvicted' = NoneEvicted
  BY <1>1 DEF Open, EvalOk, map, Goal, NoneEvicted
<1>3. Typing'
  <2>1. front' \subseteq Cell
    BY <1>1 DEF Dilate, Near, Typing
  <2>. QED
    BY <1>1, <2>1 DEF Typing, Inputs, map
<1>4. Pinned' /\ Final' /\ Full' /\ Working'
  BY <1>1 DEF Pinned, Final, Full, Working, EvalOk, map
<1>5. \A c \in seen : c \in Cell /\ c \notin colFinal
  BY <1>1 DEF Working, Typing
<1>6. ASSUME NEW c \in live', ~Open(c)
      PROVE  c \in Goal /\ colMax'[c] = 0 /\ NoneEvicted
  <2>0. c \in Cell /\ c \notin colFinal
    BY <1>1, <1>5 DEF Typing, Lives
  <2>1. \A th \in Theta : ~EvalOk(<<c, th>>)
    BY <1>6, <2>0 DEF Open
  <2>2. c \in Goal
    BY <1>1, <1>6, <2>0, <2>1, ClosedColumn DEF Lives
  <2>3. c \in live
    BY <2>0, <2>2 DEF Lives
  <2>4. colMax[c] = 0 /\ NoneEvicted
    BY <1>1, <1>6, <2>3 DEF Lives
  <2>5. HighIn(c) = 0
    BY <2>0, <2>1, <2>2, ClosedColumn
  <2>. QED
    BY <1>1, <2>0, <2>2, <2>4, <2>5
<1>7. Lives'
  BY <1>1, <1>2, <1>5, <1>6 DEF Lives
<1>8. Fronts'
  <2>1. CASE UNCHANGED front
    BY <1>1, <1>2, <2>1 DEF Fronts
  <2>2. CASE front' = Dilate({s[1] : s \in inBand}) \ colFinal
    <3>1. ASSUME NEW c \in front' PROVE \E d \in Cell : Open(d) /\ c \in Near(d)
      <4>1. PICK s \in moved : c \in Near(s[1])
        BY <2>2, <3>1 DEF Dilate
      <4>2. EvalOk(s) /\ s[1] \notin colFinal /\ s \in State
        BY <1>1 DEF Working, Typing
      <4>3. s = <<s[1], s[2]>> /\ s[1] \in Cell /\ s[2] \in Theta
        BY <4>2 DEF State
      <4>4. Open(s[1])
        BY <4>2, <4>3 DEF Open
      <4>. QED
        BY <4>1, <4>3, <4>4
    <3>. QED
      BY <1>2, <3>1 DEF Fronts
  <2>. QED
    BY <1>1, <2>1, <2>2
<1>. QED
  BY <1>3, <1>4, <1>7, <1>8

LEMMA FinalizeInv == Inv /\ Finalize => Inv'
<1>. SUFFICES ASSUME Inv, Finalize PROVE Inv'
  OBVIOUS
<1>. USE DEF Inv
<1>. DEFINE f == fin \cup {s \in State : s[1] \in Settled /\ EvalOk(s) /\ cp[s] # MaxCost}
            blk == Ensure(block, Settled)
            S == {c \in live' : colMin[c] < t'}
<1>1. /\ phase = "finalize" /\ fin' = f
      /\ colFinal' = colFinal \cup Settled /\ live' = live \ Settled
      /\ block' = [b \in DOMAIN blk |->
                     IF b \in Evictable(blk, f, Settled) THEN "evicted" ELSE blk[b]]
      /\ UNCHANGED <<world, cp, colMax, thr, seen, moved>>
  BY DEF Finalize
<1>2. \/ phase' = "done" /\ UNCHANGED <<t, front>>
      \/ phase' = "round" /\ t' = t + Band /\ front' = Reactivated(S)
  BY DEF Finalize
<1>3. Settled \subseteq live /\ Settled \subseteq Cell
  BY DEF Settled, Typing
<1>4. /\ DOMAIN blk = 0 .. NumBlocks - 1
      /\ \A b \in 0 .. NumBlocks - 1 :
            /\ blk[b] \in {"none", "resident", "evicted"}
            /\ blk[b] = "evicted" => block[b] = "evicted"
  BY DEF Ensure, Typing
<1>5. ASSUME NEW b \in 0 .. NumBlocks - 1, block'[b] = "evicted"
      PROVE  block[b] = "evicted" \/ \A k \in Around(b) : BlockFull(f, k)
  <2>. HIDE DEF blk, f
  <2>. QED
    BY <1>1, <1>4, <1>5 DEF Evictable
<1>6. \A s : EvalOk(s)' = EvalOk(s)
  BY <1>1 DEF EvalOk, map
<1>7. \A s \in f : s \in State /\ EvalOk(s) /\ s[1] \in colFinal'
  BY <1>1 DEF Final
<1>8. Typing'
  <2>1. block' \in [0 .. NumBlocks - 1 -> {"none", "resident", "evicted"}]
    <3>. HIDE DEF blk, f
    <3>. QED
      BY <1>1, <1>4
  <2>2. t' \in Nat
    BY <1>2, BandIsNumber DEF Typing
  <2>3. front' \subseteq Cell
    BY <1>2 DEF Reactivated, Dilate, Near, Typing
  <2>4. phase' \in {"round", "done"}
    BY <1>2
  <2>. QED
    BY <1>1, <1>3, <2>1, <2>2, <2>3, <2>4 DEF Typing, Inputs, map
<1>9. Pinned'
  BY <1>1, <1>6 DEF Pinned, map
<1>10. Final'
  BY <1>1, <1>6, <1>7 DEF Final
<1>11. Full'
  <2>. SUFFICES ASSUME NEW b \in 0 .. NumBlocks - 1, block'[b] = "evicted",
                       NEW s \in State, EvalOk(s), BlockOf(s[1]) \in Around(b)
                PROVE  s \in f
    BY <1>1, <1>6 DEF Full
  <2>1. CASE block[b] = "evicted"
    BY <2>1 DEF Full
  <2>2. CASE \A k \in Around(b) : BlockFull(f, k)
    <3>1. f \in SUBSET State /\ \A r \in f : EvalOk(r)
      BY <1>7
    <3>2. BlockFull(f, BlockOf(s[1]))
      BY <2>2
    <3>. HIDE DEF f
    <3>. QED
      BY <3>1, <3>2, FullIsFinal
  <2>. QED
    BY <1>5, <2>1, <2>2
<1>12. ASSUME NEW c \in live' PROVE Open(c)'
  <2>1. c \in live /\ c \notin Settled /\ c \notin colFinal'
    BY <1>1 DEF Lives
  <2>2. colMax[c] # 0
    <3>1. Watermark \in Nat
      <4>1. Band \in Nat /\ t \in Nat
        BY BandIsNumber DEF Typing
      <4>2. ASSUME NEW i \in Int PROVE Max({0, i}) \in Nat
        BY DEF Max
      <4>. QED
        BY <4>1, <4>2 DEF Watermark
    <3>2. 0 <= Watermark
      BY <3>1
    <3>. QED
      BY <2>1, <3>2 DEF Settled
  <2>3. Open(c)
    BY <1>1, <2>1, <2>2 DEF Lives
  <2>. QED
    BY <1>6, <2>1, <2>3 DEF Open
<1>13. Lives'
  <2>1. Goal' = Goal
    BY <1>1 DEF Goal, map
  <2>2. Goal \subseteq live' \cup colFinal'
    BY <1>1 DEF Lives
  <2>3. live' \cap colFinal' = {}
    BY <1>1 DEF Lives
  <2>. QED
    BY <1>12, <2>1, <2>2, <2>3 DEF Lives
<1>14. Fronts'
  <2>. SUFFICES ASSUME phase' = "round", NEW c \in front'
                PROVE  \E d \in Cell : Open(d)' /\ c \in Near(d)
    BY <1>2 DEF Fronts
  <2>1. PICK d \in S : c \in Near(d)
    BY <1>2 DEF Reactivated, Dilate
  <2>2. d \in live' /\ d \in Cell
    BY <1>1 DEF Typing
  <2>. QED
    BY <1>12, <2>1, <2>2
<1>15. Working'
  BY <1>2 DEF Working
<1>. QED
  BY <1>8, <1>9, <1>10, <1>11, <1>13, <1>14, <1>15

LEMMA OtherStepsInv == Inv /\ (GiveUp \/ RaiseCancel \/ UNCHANGED vars) => Inv'
<1>. SUFFICES ASSUME Inv, GiveUp \/ RaiseCancel \/ UNCHANGED vars PROVE Inv'
  OBVIOUS
<1>1. /\ UNCHANGED <<world, cp, t, block, front, seen, live, colFinal, fin, moved, thr, colMax>>
      /\ phase' = phase \/ phase' = "done"
  BY DEF GiveUp, RaiseCancel, vars
<1>2. Typing'
  BY <1>1 DEF Inv, Typing, Inputs, map
<1>3. Pinned' /\ Final' /\ Full'
  BY <1>1 DEF Inv, Pinned, Final, Full, EvalOk, map
<1>4. Lives' /\ Fronts'
  BY <1>1 DEF Inv, Lives, Fronts, Open, Goal, NoneEvicted, EvalOk, map
<1>5. Working'
  BY <1>1 DEF Inv, Working, EvalOk, map
<1>. QED
  BY <1>2, <1>3, <1>4, <1>5 DEF Inv

LEMMA InvNext == Inv /\ [Next]_vars => Inv'
  BY BeginRoundInv, RelaxInv, ApplyInv, FinalizeInv, OtherStepsInv DEF Next

LEMMA InvImpliesResident == Inv => WindowsResident
<1>. SUFFICES ASSUME Inv PROVE WindowsResident
  OBVIOUS
<1>1. ASSUME phase # "done", NEW c \in live, NEW b \in Window(c)
      PROVE  block[b] # "evicted"
  <2>1. c \in Cell
    BY DEF Inv, Typing
  <2>2. b \in 0 .. NumBlocks - 1
    BY <2>1, WindowIsAround
  <2>3. CASE Open(c)
    BY <2>1, <2>3, OpenIsKept DEF Inv
  <2>4. CASE NoneEvicted
    BY <2>2, <2>4 DEF NoneEvicted
  <2>. QED
    BY <1>1, <2>3, <2>4 DEF Inv, Lives
<1>2. DOMAIN thr = 1 .. NThreads
  BY DEF Inv, Typing
<1>. QED
  BY <1>1, <1>2 DEF Inv, Working, WindowsResident

\* No worker and no finalization reads a block that eviction has freed
\* (evict_block, ensure_window): whatever the map and its penalties, the goal, the
\* reach of the transitions, BLOCK_ROWS, the band and the number of threads, and
\* however the threads interleave.
THEOREM ResidentSafety == Spec => []WindowsResident
  BY InitInv, InvNext, InvImpliesResident, PTL DEF Spec

-----------------------------------------------------------------------------
(* What is written.                                                        *)

\* The sink holds the costs of the final columns and of no others.
SinkIsFinal ==
    \A s \in State : sink.val[s] = IF s[1] \in colFinal THEN cp[s] ELSE MaxCost

LEMMA SinkIsFinalInductive ==
    ASSUME Inv, SinkIsFinal, [Next]_vars
    PROVE  SinkIsFinal'
<1>1. CASE BeginRound \/ Apply \/ GiveUp \/ RaiseCancel \/ UNCHANGED vars
  <2>1. UNCHANGED <<cp, colFinal, sink>>
    BY <1>1 DEF BeginRound, Apply, GiveUp, RaiseCancel, vars
  <2>. QED
    BY <2>1 DEF SinkIsFinal
<1>2. ASSUME NEW w \in 1 .. NThreads, Relax(w) PROVE SinkIsFinal'
  <2>1. \A s \in State : s[1] \in colFinal => cp'[s] = cp[s]
    BY <1>2, RelaxKeepsFinal
  <2>2. UNCHANGED <<colFinal, sink>>
    BY <1>2 DEF Relax
  <2>. QED
    BY <2>1, <2>2 DEF SinkIsFinal
<1>3. CASE Finalize
  <2>1. sink' = Written(Settled) /\ colFinal' = colFinal \cup Settled /\ UNCHANGED cp
    BY <1>3 DEF Finalize
  <2>2. \A s \in State : sink'.val[s] = IF s[1] \in Settled THEN cp[s] ELSE sink.val[s]
    BY <2>1 DEF Written
  <2>. QED
    BY <2>1, <2>2 DEF SinkIsFinal
<1>. QED
  BY <1>1, <1>2, <1>3 DEF Next

\* A column is written once: what has been handed to the sink, and through it to an
\* observer that stops the solve, is never revised, neither in the sink nor in the
\* working array that later waves read.
WrittenOnce ==
    \A s \in State : s[1] \in colFinal =>
        s[1] \in colFinal' /\ cp'[s] = cp[s]
          /\ sink'.val[s] = sink.val[s] /\ sink'.act[s] = sink.act[s]

LEMMA StepWritesOnce ==
    ASSUME Inv, [Next]_vars
    PROVE  WrittenOnce
<1>1. CASE BeginRound \/ Apply \/ GiveUp \/ RaiseCancel \/ UNCHANGED vars
  <2>1. UNCHANGED <<cp, colFinal, sink>>
    BY <1>1 DEF BeginRound, Apply, GiveUp, RaiseCancel, vars
  <2>. QED
    BY <2>1 DEF WrittenOnce
<1>2. ASSUME NEW w \in 1 .. NThreads, Relax(w) PROVE WrittenOnce
  <2>1. \A s \in State : s[1] \in colFinal => cp'[s] = cp[s]
    BY <1>2, RelaxKeepsFinal
  <2>2. UNCHANGED <<colFinal, sink>>
    BY <1>2 DEF Relax
  <2>. QED
    BY <2>1, <2>2 DEF WrittenOnce
<1>3. CASE Finalize
  <2>1. sink' = Written(Settled) /\ colFinal' = colFinal \cup Settled /\ UNCHANGED cp
    BY <1>3 DEF Finalize
  <2>2. Settled \cap colFinal = {}
    BY DEF Settled, Inv, Lives
  <2>3. \A s \in State : s[1] \notin Settled =>
            sink'.val[s] = sink.val[s] /\ sink'.act[s] = sink.act[s]
    BY <2>1 DEF Written
  <2>. QED
    BY <2>1, <2>2, <2>3 DEF WrittenOnce
<1>. QED
  BY <1>1, <1>2, <1>3 DEF Next

\* finalize_column: the sink holds the costs of the columns that are final and of no
\* others, at every moment of a solve.
THEOREM SinkSafety == Spec => []SinkIsFinal
<1>1. Init => SinkIsFinal
  BY DEF Init, SinkIsFinal, Unwritten
<1>2. Inv /\ SinkIsFinal /\ [Next]_vars => SinkIsFinal'
  BY SinkIsFinalInductive
<1>. QED
  BY InitInv, InvNext, <1>1, <1>2, PTL DEF Spec

\* finalize_column: no step changes what an earlier wave has written.
THEOREM FinalForGood == Spec => [][WrittenOnce]_vars
<1>1. Inv /\ [Next]_vars => [WrittenOnce]_vars
  BY StepWritesOnce
<1>. QED
  BY InitInv, InvNext, <1>1, PTL DEF Spec

-----------------------------------------------------------------------------
(* The two entries.                                                        *)

LEMMA SmallerSquare ==
    ASSUME NEW a \in Int, NEW b \in Int, NEW r \in Nat, a * a + b * b < r * r
    PROVE  -r < a /\ a < r
<1>1. a * a \in Int /\ b * b \in Int /\ r * r \in Int /\ b * b >= 0
  OBVIOUS
<1>2. a * a < r * r
  BY <1>1
<1>3. ASSUME a >= r PROVE FALSE
  <2>1. a * a >= r * r
    BY <1>3
  <2>. QED
    BY <1>1, <1>2, <2>1
<1>4. ASSUME -a >= r PROVE FALSE
  <2>1. (-a) * (-a) >= r * r
    BY <1>4
  <2>2. (-a) * (-a) = a * a
    OBVIOUS
  <2>. QED
    BY <1>1, <1>2, <2>1, <2>2
<1>. QED
  BY <1>3, <1>4

LEMMA InBox ==
    ASSUME NEW n \in Int, NEW x \in Int, NEW r \in Nat, -r < 2 * n - x, 2 * n - x < r
    PROVE  n \in ((x - r) \div 2) - 1 .. ((x + r + 1) \div 2) + 1
  OBVIOUS

\* compute_finals, which visits a box around the goal, finds the final states that
\* set_state_values finds on the whole map: a solve of a mapped file and one of
\* vi.states start from the same states, wherever the goal lies.
THEOREM FinalsAgree ==
    ASSUME NEW free, NEW g, g.x \in Int, g.y \in Int, g.radius \in Nat
    PROVE  ComputeFinals(free, g) = SetStateValues(free, g)
<1>1. ASSUME NEW c \in Cell, CornersNear(c, g) PROVE c \in GoalBox(g) /\ g.radius > 0
  <2>. DEFINE a == 2 * c[1] - g.x  b == 2 * c[2] - g.y  r == g.radius
  <2>0. c[1] \in Int /\ c[2] \in Int /\ a \in Int /\ b \in Int /\ r \in Nat
    BY DEF Cell
  <2>1. a * a + b * b < r * r
    BY <1>1 DEF CornersNear, Distance2, Square
  <2>. HIDE DEF a, b, r
  <2>2. -r < a /\ a < r
    BY <2>0, <2>1, SmallerSquare
  <2>3. b * b + a * a < r * r
    BY <2>0, <2>1
  <2>4. -r < b /\ b < r
    BY <2>0, <2>3, SmallerSquare
  <2>5. r > 0
    BY <2>0, <2>2
  <2>6. c[1] \in ((g.x - r) \div 2) - 1 .. ((g.x + r + 1) \div 2) + 1
    BY <2>0, <2>2, InBox DEF a
  <2>7. c[2] \in ((g.y - r) \div 2) - 1 .. ((g.y + r + 1) \div 2) + 1
    BY <2>0, <2>4, InBox DEF b
  <2>. QED
    BY <2>5, <2>6, <2>7 DEF GoalBox, r
<1>2. GoalBox(g) \subseteq Cell
  BY DEF GoalBox
<1>3. ASSUME NEW s \in SetStateValues(free, g) PROVE s \in ComputeFinals(free, g)
  <2>1. s \in State /\ s[1] \in Cell /\ CornersNear(s[1], g) /\ free[s[1]] /\ HeadingNear(s[2], g)
    BY DEF SetStateValues, State
  <2>2. s[1] \in GoalBox(g) /\ g.radius > 0
    BY <1>1, <2>1
  <2>3. s \in GoalBox(g) \X Theta
    BY <2>1, <2>2 DEF State
  <2>. QED
    BY <2>1, <2>2, <2>3 DEF ComputeFinals
<1>4. ASSUME NEW s \in ComputeFinals(free, g) PROVE s \in SetStateValues(free, g)
  <2>1. s \in State /\ CornersNear(s[1], g) /\ free[s[1]] /\ HeadingNear(s[2], g)
    BY <1>2 DEF ComputeFinals, State
  <2>. QED
    BY <2>1 DEF SetStateValues
<1>. QED
  BY <1>3, <1>4

-----------------------------------------------------------------------------
(* How far what is written can be off.  Columns are closed once they are a *)
(* band below the threshold, which is a matter of the map whether it is    *)
(* enough; but costs only fall, and each is what some action costs.  So a  *)
(* column can be closed too early, with a cost too high, and not otherwise.*)

\* No reached cost, with the penalty of its cell, is above limit.
CostsFit(limit) == RoomFor(limit, cp, map.pen)

\* Costs that no update lowers, with the goal at zero.
Solution(v) ==
    \A s \in State : /\ EvalOk(s) => v[s] <= ClampedLeast(s, v, map.free, map.pen)
                     /\ s \in map.final => v[s] = 0

\* No cost is below a solution, and some action warrants each.
Above ==
    /\ \A v \in [State -> Cost] : Solution(v) => \A s \in State : v[s] <= cp[s]
    /\ \A s \in State : EvalOk(s) => FusedLeast(s) <= cp[s]

\* What the sink holds can be followed: the stored action leads to states that
\* are reached, and costs at most the stored cost.
SinkDescends ==
    \A s \in State : (EvalOk(s) /\ sink.val[s] < MaxCost) =>
        /\ sink.act[s] \in Action
        /\ ActionCost(s, sink.act[s], cp, map.free, map.pen) <= sink.val[s]

\* The same, as the worker computes it.
Followed ==
    \A s \in State : (EvalOk(s) /\ sink.val[s] < MaxCost) =>
        /\ sink.act[s] \in Action
        /\ FusedCost(s, sink.act[s]) \in Nat /\ FusedCost(s, sink.act[s]) <= sink.val[s]

\* What the original solver has reached.
FinalCosts ==
    [s \in State |-> IF world.oracle.val[s] < ReachThresh THEN world.oracle.val[s] ELSE MaxCost]

\* The costs of the original solver solve the clamped equations.
OracleSolves == world.oracle.val \in [State -> Cost] /\ Solution(FinalCosts)

\* The half of ExactPrefix that does not depend on the band: the sink holds no
\* state that the original does not reach, and none that is cheaper.
NothingTooCheap ==
    \A s \in State : sink.val[s] < MaxCost =>
        world.oracle.val[s] < ReachThresh /\ world.oracle.val[s] <= sink.val[s]

LEMMA FusedIsClamped ==
    /\ \A s, a : FusedCost(s, a) = Clamped(s, a, cp, map.free, map.pen)
    /\ \A s : FusedLeast(s) = ClampedLeast(s, cp, map.free, map.pen)
  BY DEF FusedCost, FusedLeast, Clamped, ClampedLeast

LEMMA AboveInit == Init => Above /\ Followed
<1>. SUFFICES ASSUME Init PROVE Above /\ Followed
  OBVIOUS
<1>1. \A s \in State : cp[s] = IF s \in map.final THEN 0 ELSE MaxCost
  BY DEF Init, map
<1>2. ASSUME NEW v \in [State -> Cost], Solution(v), NEW s \in State PROVE v[s] <= cp[s]
  <2>1. v[s] \in Nat /\ v[s] <= MaxCost
    BY BellmanAssumption DEF Cost
  <2>2. s \in map.final => v[s] = 0
    BY <1>2 DEF Solution
  <2>. QED
    BY <1>1, <2>1, <2>2
<1>3. ASSUME NEW s \in State, EvalOk(s) PROVE FusedLeast(s) <= cp[s]
  <2>1. cp[s] = MaxCost
    BY <1>1, <1>3 DEF EvalOk, Evaluated
  <2>. QED
    BY <2>1, FusedLeastType, BellmanAssumption DEF Cost
<1>4. \A s \in State : ~(sink.val[s] < MaxCost)
  BY BellmanAssumption DEF Init, Unwritten
<1>. QED
  BY <1>2, <1>3, <1>4 DEF Above, Followed

\* A state is lowered to what some action costs at present.
LEMMA RelaxIsAbove ==
    ASSUME NEW limit, Roomy(limit), CostsFit(limit), Inv, Inv', SinkIsFinal, Above, Followed,
           NEW w \in 1 .. NThreads, Relax(w)
    PROVE  Above' /\ Followed'
<1>0. PICK s : s = Earliest(thr[w])
  OBVIOUS
<1>1. /\ phase = "relax" /\ thr[w] # {}
      /\ cp' = IF FusedLeast(s) < cp[s] THEN [cp EXCEPT ![s] = FusedLeast(s)] ELSE cp
      /\ sink' = sink /\ map' = map
  BY <1>0 DEF Relax, map
<1>2. s \in State /\ EvalOk(s)
  BY <1>0, <1>1, EarliestIsIn DEF Inv, Typing, Working
<1>3. \A r \in State : cp[r] \in Nat /\ cp[r] \in Cost /\ cp'[r] \in Cost
  BY BellmanAssumption DEF Inv, Typing, Cost
<1>4. FusedLeast(s) \in Nat
  BY FusedLeastType, BellmanAssumption DEF Cost
<1>5. \A r \in State : cp'[r] = cp[r] \/ (r = s /\ cp'[r] = FusedLeast(s) /\ FusedLeast(s) < cp[s])
  BY <1>1, <1>2 DEF Inv, Typing
<1>6. ASSUME NEW r \in State PROVE cp'[r] <= cp[r]
  BY <1>3, <1>4, <1>5
<1>7. PICK u, v, free, pen : u = cp' /\ v = cp /\ free = map.free /\ pen = map.pen
  OBVIOUS
<1>8. /\ \A r \in State : u[r] \in Cost /\ v[r] \in Cost /\ u[r] <= v[r]
      /\ RoomFor(limit, v, pen) /\ pen \in [Cell -> Nat]
  BY <1>3, <1>6, <1>7 DEF CostsFit, Inv, Typing, Inputs
<1>9. /\ \A r, a : FusedCost(r, a) = Clamped(r, a, v, free, pen)
      /\ \A r : FusedLeast(r) = ClampedLeast(r, v, free, pen)
      /\ \A r, a : FusedCost(r, a)' = Clamped(r, a, u, free, pen)
      /\ \A r : FusedLeast(r)' = ClampedLeast(r, u, free, pen)
  BY <1>1, <1>7, FusedIsClamped DEF FusedCost, FusedLeast, Clamped, ClampedLeast
<1>10. ASSUME NEW x \in [State -> Cost], Solution(x), NEW r \in State PROVE x[r] <= cp'[r]
  <2>1. \A q \in State : x[q] <= cp[q] /\ x[q] \in Cost
    BY <1>10 DEF Above
  <2>2. CASE cp'[r] = cp[r]
    BY <2>1, <2>2
  <2>3. CASE r = s /\ cp'[r] = FusedLeast(s)
    <3>1. x[s] <= ClampedLeast(s, x, free, pen)
      BY <1>2, <1>7, <1>10 DEF Solution
    <3>2. ClampedLeast(s, x, free, pen) <= ClampedLeast(s, v, free, pen)
      BY <1>2, <1>7, <1>8, <2>1, ClampedLeastMonotone
    <3>3. x[s] \in Nat /\ ClampedLeast(s, x, free, pen) \in Nat
      BY <1>2, <2>1, ClampedLeastType, BellmanAssumption DEF Cost
    <3>. QED
      BY <1>4, <1>9, <2>3, <3>1, <3>2, <3>3
  <2>. QED
    BY <1>5, <2>2, <2>3
<1>11. ASSUME NEW r \in State, EvalOk(r) PROVE FusedLeast(r)' <= cp'[r]
  <2>1. ClampedLeast(r, u, free, pen) <= ClampedLeast(r, v, free, pen)
    BY <1>8, ClampedLeastMonotone
  <2>2. /\ ClampedLeast(r, u, free, pen) \in Nat /\ ClampedLeast(r, v, free, pen) \in Nat
    BY ClampedLeastType, BellmanAssumption DEF Cost
  <2>3. ClampedLeast(r, v, free, pen) <= cp[r]
    BY <1>9, <1>11 DEF Above
  <2>4. CASE cp'[r] = cp[r]
    BY <1>3, <1>9, <2>1, <2>2, <2>3, <2>4
  <2>5. CASE r = s /\ cp'[r] = FusedLeast(s)
    BY <1>9, <2>1, <2>5
  <2>. QED
    BY <1>5, <2>4, <2>5
<1>12. ASSUME NEW r \in State, EvalOk(r), sink.val[r] < MaxCost
       PROVE  /\ sink.act[r] \in Action
              /\ FusedCost(r, sink.act[r])' \in Nat /\ FusedCost(r, sink.act[r])' <= sink.val[r]
  <2>1. PICK a \in Action : a = sink.act[r]
    BY <1>12 DEF Followed
  <2>2. Clamped(r, a, v, free, pen) \in Nat /\ Clamped(r, a, v, free, pen) <= sink.val[r]
    BY <1>9, <1>12, <2>1 DEF Followed
  <2>3. sink.val[r] \in Nat
    <3>1. sink.val[r] = cp[r]
      BY <1>12, BellmanAssumption DEF SinkIsFinal
    <3>. QED
      BY <1>3, <3>1
  <2>4. Clamped(r, a, v, free, pen) # MaxCost
    BY <1>12, <2>2, <2>3, BellmanAssumption
  <2>5. /\ Clamped(r, a, u, free, pen) \in Nat
        /\ Clamped(r, a, u, free, pen) <= Clamped(r, a, v, free, pen)
    BY <1>8, <2>4, ClampedMonotone
  <2>6. FusedCost(r, sink.act[r])' = Clamped(r, a, u, free, pen)
    BY <1>1, <1>9, <2>1
  <2>. QED
    BY <2>1, <2>2, <2>3, <2>5, <2>6
<1>13. \A r : EvalOk(r)' = EvalOk(r)
  BY <1>1 DEF EvalOk
<1>14. \A x : Solution(x)' = Solution(x)
  BY <1>1, <1>13 DEF Solution
<1>15. Above'
  BY <1>10, <1>11, <1>13, <1>14 DEF Above
<1>16. Followed'
  BY <1>1, <1>12, <1>13 DEF Followed
<1>. QED
  BY <1>15, <1>16

\* A column is closed with the policy of its costs.
LEMMA FinalizeIsFollowed ==
    ASSUME Inv, Above, Followed, Finalize
    PROVE  Followed'
<1>1. sink' = Written(Settled) /\ cp' = cp /\ map' = map
  BY DEF Finalize, map, inputs
<1>2. ASSUME NEW s \in State, EvalOk(s), sink'.val[s] < MaxCost
      PROVE  /\ sink'.act[s] \in Action /\ FusedCost(s, sink'.act[s]) \in Nat
             /\ FusedCost(s, sink'.act[s]) <= sink'.val[s]
  <2>1. CASE s[1] \notin Settled
    <3>1. sink'.val[s] = sink.val[s] /\ sink'.act[s] = sink.act[s]
      BY <1>1, <2>1 DEF Written
    <3>. QED
      BY <1>2, <3>1 DEF Followed
  <2>2. CASE s[1] \in Settled
    <3>. DEFINE A == {FusedCost(s, a) : a \in Action} \cap Cost
                C == {MaxCost} \cup A
                least == FusedLeast(s)
                P == {a \in Action : FusedCost(s, a) = least}
    <3>1. sink'.val[s] = cp[s] /\ cp[s] \in Nat /\ MaxCost \in Nat /\ cp[s] < MaxCost
      BY <1>1, <1>2, <2>2, BellmanAssumption DEF Written, Inv, Typing, Cost
    <3>2. least \in Nat /\ least <= cp[s] /\ least # MaxCost
      <4>1. least \in Nat /\ least <= cp[s]
        BY <1>2, FusedLeastType, BellmanAssumption DEF Above, Cost
      <4>. HIDE DEF least
      <4>. QED
        BY <3>1, <4>1
    <3>3. C \subseteq Nat /\ C # {} /\ least = Least(C)
      BY BellmanAssumption DEF FusedLeast, Cost
    <3>4. Least(C) \in C
      <4>. HIDE DEF C
      <4>. QED
        BY <3>3, LeastIsLeast
    <3>5. P \subseteq Nat /\ P # {}
      <4>1. least \in A
        BY <3>2, <3>3, <3>4
      <4>. QED
        BY <4>1 DEF Action
    <3>6. Least(P) \in P
      <4>. HIDE DEF P
      <4>. QED
        BY <3>5, LeastIsLeast
    <3>7. sink'.act[s] = FusedPolicy(s)
      BY <1>1, <1>2, <2>2, <3>1 DEF Written
    <3>8. FusedPolicy(s) = Least(P)
      BY <3>2 DEF FusedPolicy
    <3>9. sink'.act[s] \in Action /\ FusedCost(s, sink'.act[s]) = least
      BY <3>6, <3>7, <3>8
    <3>. HIDE DEF least
    <3>. QED
      BY <3>1, <3>2, <3>9
  <2>. QED
    BY <2>1, <2>2
<1>3. \A s : EvalOk(s)' = EvalOk(s)
  BY <1>1 DEF EvalOk
<1>4. ASSUME NEW s, NEW a PROVE FusedCost(s, a)' = FusedCost(s, a)
  BY <1>1 DEF FusedCost
<1>. QED
  BY <1>2, <1>3, <1>4 DEF Followed, FusedCost

LEMMA AboveNext ==
    ASSUME NEW limit, Roomy(limit), CostsFit(limit), Inv, Inv', SinkIsFinal, Above, Followed,
           [Next]_vars
    PROVE  Above' /\ Followed'
<1>1. ASSUME cp' = cp, map' = map PROVE Above'
  <2>1. \A s : EvalOk(s)' = EvalOk(s) /\ FusedLeast(s)' = FusedLeast(s)
    BY <1>1 DEF EvalOk, FusedLeast, FusedCost
  <2>2. \A v : Solution(v)' = Solution(v)
    BY <1>1, <2>1 DEF Solution
  <2>. QED
    BY <1>1, <2>1, <2>2 DEF Above
<1>2. CASE BeginRound \/ Apply \/ GiveUp \/ RaiseCancel \/ UNCHANGED vars
  <2>1. cp' = cp /\ sink' = sink /\ map' = map
    BY <1>2 DEF BeginRound, Apply, GiveUp, RaiseCancel, vars, inputs, map
  <2>. QED
    BY <1>1, <2>1 DEF Followed, EvalOk, FusedCost
<1>3. CASE Finalize
  <2>1. cp' = cp /\ map' = map
    BY <1>3 DEF Finalize, map, inputs
  <2>. QED
    BY <1>1, <1>3, <2>1, FinalizeIsFollowed
<1>4. ASSUME NEW w \in 1 .. NThreads, Relax(w) PROVE Above' /\ Followed'
  BY <1>4, RelaxIsAbove
<1>. QED
  BY <1>2, <1>3, <1>4 DEF Next

LEMMA AboveAlways ==
    ASSUME NEW CONSTANT limit, Roomy(limit)
    PROVE  Spec /\ []CostsFit(limit) => [](Inv /\ SinkIsFinal /\ Above /\ Followed)
<1>1. /\ Inv /\ Inv' /\ CostsFit(limit) /\ SinkIsFinal /\ Above /\ Followed /\ [Next]_vars
      => Above' /\ Followed'
  BY AboveNext
<1>. QED
  BY <1>1, AboveInit, InitInv, InvNext, SinkSafety, PTL DEF Spec

\* finalize_column: what a stopped solve leaves in the sink can be followed, at
\* every moment: the stored action costs at most the stored cost, although the
\* outcomes may have fallen since the column was closed and may not be closed
\* themselves.
THEOREM SinkCanBeFollowed ==
    ASSUME NEW CONSTANT limit, Roomy(limit)
    PROVE  Spec /\ []CostsFit(limit) => []SinkDescends
<1>1. Inv /\ SinkIsFinal /\ Followed => SinkDescends
  <2>. SUFFICES ASSUME Inv, SinkIsFinal, Followed, NEW s \in State, EvalOk(s), sink.val[s] < MaxCost
                PROVE  /\ sink.act[s] \in Action
                       /\ ActionCost(s, sink.act[s], cp, map.free, map.pen) <= sink.val[s]
    BY DEF SinkDescends
  <2>1. /\ sink.act[s] \in Action
        /\ FusedCost(s, sink.act[s]) \in Nat /\ FusedCost(s, sink.act[s]) <= sink.val[s]
    BY DEF Followed
  <2>2. sink.val[s] \in Nat /\ MaxCost \in Nat
    BY BellmanAssumption DEF SinkIsFinal, Inv, Typing, Cost
  <2>3. FusedCost(s, sink.act[s]) # MaxCost
    BY <2>1, <2>2
  <2>4. FusedCost(s, sink.act[s]) = ActionCost(s, sink.act[s], cp, map.free, map.pen)
    BY <2>3 DEF FusedCost
  <2>. QED
    BY <2>1, <2>4
<1>. QED
  BY <1>1, AboveAlways, PTL

\* Partiality::ExactPrefix, the half that does not depend on how wide the band
\* is: whatever the workers read of each other's round, no state is written that
\* the original solver does not reach, and none with a lower cost.
THEOREM PrefixIsUpperBound ==
    ASSUME NEW CONSTANT limit, Roomy(limit)
    PROVE  Spec /\ OracleSolves /\ []CostsFit(limit) => []NothingTooCheap
<1>1. Inv /\ SinkIsFinal /\ Above /\ OracleSolves => NothingTooCheap
  <2>. SUFFICES ASSUME Inv, SinkIsFinal, Above, OracleSolves, NEW s \in State, sink.val[s] < MaxCost
                PROVE  world.oracle.val[s] < ReachThresh /\ world.oracle.val[s] <= sink.val[s]
    BY DEF NothingTooCheap
  <2>1. sink.val[s] = cp[s] /\ cp[s] \in Nat /\ MaxCost \in Nat /\ cp[s] < MaxCost
    BY BellmanAssumption DEF SinkIsFinal, Inv, Typing, Cost
  <2>2. FinalCosts \in [State -> Cost] /\ Solution(FinalCosts)
    BY BellmanAssumption DEF OracleSolves, FinalCosts, Cost
  <2>3. FinalCosts[s] = IF world.oracle.val[s] < ReachThresh THEN world.oracle.val[s] ELSE MaxCost
    BY DEF FinalCosts
  <2>. HIDE DEF FinalCosts
  <2>4. FinalCosts[s] <= cp[s] /\ FinalCosts[s] \in Nat
    BY <2>2, BellmanAssumption DEF Above, Cost
  <2>5. FinalCosts[s] # MaxCost
    BY <2>1, <2>4
  <2>. QED
    BY <2>1, <2>3, <2>4, <2>5
<1>2. OracleSolves /\ world' = world => OracleSolves'
  <2>. SUFFICES ASSUME OracleSolves, world' = world PROVE OracleSolves'
    OBVIOUS
  <2>1. map' = map /\ FinalCosts' = FinalCosts
    BY DEF map, FinalCosts
  <2>2. Solution(FinalCosts)' = Solution(FinalCosts)
    BY <2>1 DEF Solution, EvalOk
  <2>. QED
    BY <2>2 DEF OracleSolves
<1>3. [Next]_vars => world' = world
  BY DEF Next, vars, inputs, BeginRound, Relax, Apply, Finalize, GiveUp, RaiseCancel
<1>. QED
  BY <1>1, <1>2, <1>3, AboveAlways, PTL DEF Spec
=============================================================================
