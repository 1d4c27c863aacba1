------------------------------ MODULE Localizer ------------------------------
(***************************************************************************)
(* The built-in localizers of vi_lib/src/localize: the fixed window        *)
(* (GridLocalizer), the multi-resolution window with expansion resetting   *)
(* (AdaptiveLocalizer) and its min-plus variant of the whole-map level     *)
(* (viterbi), driven by a robot in a corridor that moves, turns, scans, is *)
(* seeded by hand and is carried away.                                     *)
(*                                                                         *)
(* The map is one row of cells and the robot faces one of two ways; the    *)
(* y axis, which the code treats as it treats x, is left out.  A weight is *)
(* kept as its order of magnitude: rank r stands for a weight of about     *)
(* z_min^r of the heaviest one, and a hypothesis of weight zero is not in  *)
(* the belief.  Sums of weights are then minima of ranks and products are  *)
(* sums, in the window levels as in the min-plus level.                    *)
(***************************************************************************)
EXTENDS Integers, Sequences, FiniteSets, FiniteSetsExt

CONSTANTS
    Kinds,          \* the implementations considered
    W,              \* native cells of the map: 0 .. W - 1
    Walls,          \* the cells that are not free
    Factor,         \* COARSE: resolution of each level in native cells, level 0 first
    BeamMult,       \* how many beams one modelled beam stands for, per level
    Win,            \* cells of a window, 2 * half_m / resolution
    MaxRange,       \* max_range_m
    RangeCap,       \* range_cap of the coarse levels
    SensorSigma,    \* sensor_sigma_m in cells
    InitSigma,      \* init_sigma_xy_m in cells
    Skip,           \* weight_skip_ratio as a rank
    SubRank, Floor, \* a weight of rank SubRank is subnormal, beyond Floor it is zero
    ExpandQuality,  \* expand_quality in tenths
    ContractEss,    \* contract_ess
    Homes,          \* where the robot may be switched on
    MaxMoves,       \* bound on the commands driven
    MaxJumps,       \* bound on the seeds and abductions
    MaxCalm         \* scans in a row that nothing disturbs

VARIABLES
    kind,           \* the implementation in use
    truth,          \* where the robot is
    loc,            \* the localizer
    moves, jumps,   \* commands and jumps used up
    calm            \* scans since the last of them

vars == <<kind, truth, loc, moves, jumps, calm>>

MIN_DWELL == 3
HeadRank == 1       \* a heading bin off by one standard deviation or more
MixRank == 1        \* one cell of the uniform part, against the projected part
ModeRank == 1       \* top_modes keeps what weighs 0.05 of the best or more

Heads == {0, 1}
Dir(t) == IF t = 0 THEN 1 ELSE -1
Cells == 0 .. W - 1
Free == Cells \ Walls

ASSUME LocalizerAssumption ==
    /\ Kinds \subseteq {"grid", "adaptive", "viterbi"}
    /\ W \in Nat \ {0} /\ Walls \subseteq 0 .. W - 1
    /\ \A i \in DOMAIN Factor : Factor[i] \in Nat \ {0}
    /\ Factor[1] = 1
    /\ Homes \subseteq [x : Free, t : Heads]

CeilDiv(a, b) == (a + b - 1) \div b
Clamp(v, lo, hi) == IF v < lo THEN lo ELSE IF v > hi THEN hi ELSE v
Abs(n) == IF n < 0 THEN -n ELSE n

-----------------------------------------------------------------------------
(* The map: likelihood field and scans.                                    *)

\* The rank of a beam that ends in cell x: near an obstacle, or the floor z_min.
BeamRank(x) == IF x \in Cells /\ \E o \in Walls : Abs(x - o) <= SensorSigma THEN 0 ELSE 1

\* cast_scan: cells from p to the first obstacle along heading t.
CastScan(p, t) ==
    LET hit == {r \in 1 .. W : p.x + Dir(t) * r \in Walls}
    IN  IF hit = {} THEN MaxRange + 1 ELSE Min(hit)

\* A scan is the ranges ahead (0) and behind (1) of the robot.
Scan(p) == [a \in Heads |-> CastScan(p, (p.t + a) % 2)]

Beams(scan, cap) == {a \in Heads : scan[a] <= MaxRange /\ scan[a] <= cap}

\* pose_score: the product over the beams of a scan at native cell c, heading t.
PoseScore(c, t, scan, beams) ==
    MapThenSumSet(LAMBDA a : BeamRank(c + Dir((t + a) % 2) * scan[a]), beams)

\* The geometric mean of that product, in tenths, with z_min = 0.05.
Agreement(c, t, scan, beams) ==
    LET missed == PoseScore(c, t, scan, beams)
    IN  IF missed = 0 THEN 10 ELSE IF missed < Cardinality(beams) THEN 2 ELSE 0

-----------------------------------------------------------------------------
(* Levels.                                                                 *)

Levels == IF kind = "grid" THEN {0} ELSE 0 .. Len(Factor) - 1
Last == Max(Levels)
Res(l) == Factor[l + 1]
MapW(l) == CeilDiv(W, Res(l))
Whole(l) == kind # "grid" /\ (Win >= MapW(l) \/ (l > 0 /\ l = Last))
Nx(l) == IF kind = "grid" THEN Win ELSE IF Whole(l) THEN MapW(l) ELSE Min({Win, MapW(l)})

\* The native cell of the centre of a level's cell, and the level's cell of a native one.
Centre(l, x) == Res(l) * x + (Res(l) \div 2)
CellOf(l, c) == c \div Res(l)

LevelFree(l, x) == \E c \in Res(l) * x .. Res(l) * x + Res(l) - 1 : c \in Free

\* The left edge of a window around native cell c; the grid localizer does not clamp it.
WindowAt(l, c) ==
    LET left == CellOf(l, c) - (Nx(l) \div 2)
    IN  IF kind = "grid" THEN left
        ELSE IF Whole(l) THEN 0 ELSE Clamp(left, 0, MapW(l) - Nx(l))

VitOn(s) == kind = "viterbi" /\ s.cur > 0 /\ s.cur = Last

-----------------------------------------------------------------------------
(* Beliefs: sets of hypotheses, each a cell of the level, a heading and a   *)
(* rank.                                                                   *)

Hyp(x, t, r) == [x |-> x, t |-> t, r |-> r]
InWindow(l, wx, h) == h.x \in wx .. wx + Nx(l) - 1
Window(l, wx) == {Hyp(x, t, 0) : x \in wx .. wx + Nx(l) - 1, t \in Heads}
FreeWindow(l, wx) == {h \in Window(l, wx) : LevelFree(l, h.x)}

Least(b) == Min({h.r : h \in b})
Heaviest(b) == {h \in b : h.r = Least(b)}

\* The sum of the weights that arrive at one cell: the heaviest decides.
Merged(b) == {h \in b : \A g \in b : g.x = h.x /\ g.t = h.t => h.r <= g.r}

Scaled(b) == {[h EXCEPT !.r = @ - Least(b)] : h \in b}

\* The grid localizer multiplies by the f32 inverse of the sum, which is infinite when the
\* sum is subnormal: zero times infinity is NaN.  The adaptive one divides in f64.
GridNormalize(s) ==
    IF s.b # {} /\ Least(s.b) >= SubRank THEN [s EXCEPT !.b = {}, !.nan = TRUE]
    ELSE [s EXCEPT !.b = Scaled(s.b)]
Normalize(s) == IF kind = "grid" THEN GridNormalize(s) ELSE [s EXCEPT !.b = Scaled(s.b)]

\* mean: the centre of the heaviest hypotheses; headings that cancel out give 0.
Mean(s) ==
    LET top == Heaviest(s.b)
    IN  [x |-> MapThenSumSet(LAMBDA h : Centre(s.cur, h.x), top) \div Cardinality(top),
         t |-> IF \A h \in top : h.t = 1 THEN 1 ELSE 0]

ApplyFreeMask(s) ==
    LET kept == {h \in s.b : LevelFree(s.cur, h.x)}
    IN  IF kept = {} THEN s ELSE [s EXCEPT !.b = kept]

\* Hypotheses from the heaviest on; equal ones as they lie in the buffer.
Ahead(g, h) == \/ g.r < h.r
               \/ g.r = h.r /\ g.t < h.t
               \/ g.r = h.r /\ g.t = h.t /\ g.x < h.x
Foremost(b) == CHOOSE h \in b : \A g \in b \ {h} : Ahead(h, g)

\* ess = 1 / sum of the squares: the number of hypotheses that carry the weight.
Ess(s) == IF s.b = {} THEN 0 ELSE Cardinality(Heaviest(s.b))

SeedGaussian(s, p, sigma) ==
    LET wx == WindowAt(s.cur, p.x)
        rank(h) == (Abs(Centre(s.cur, h.x) - p.x) \div sigma)
                     + (IF h.t = p.t THEN 0 ELSE HeadRank)
        seeded == {[h EXCEPT !.r = rank(h)] : h \in Window(s.cur, wx)}
    IN  Normalize(ApplyFreeMask([s EXCEPT !.wx = wx, !.b = seeded, !.nan = FALSE]))

\* vit_enter: the costs of the min-plus level start from the belief.
VitEnter(s) ==
    IF VitOn(s) THEN [s EXCEPT !.delta = s.b, !.pendF = 0, !.pendT = 0] ELSE s

\* The end of enter_uniform and of expand.
Entered(s) == [VitEnter(Normalize(s)) EXCEPT !.qe = ExpandQuality, !.dwell = 0]

EnterUniform(s, to) == Entered([s EXCEPT !.cur = to, !.wx = 0, !.b = FreeWindow(to, 0)])

\* Mutant: nothing is added to the projected belief.
ExpandProjected(s, to) ==
    LET wx == WindowAt(to, IF s.b = {} THEN 0 ELSE Mean(s).x)
        image == {[h EXCEPT !.x = CellOf(to, Centre(s.cur, h.x))] : h \in s.b}
    IN  Entered([s EXCEPT !.cur = to, !.wx = wx,
                          !.b = Merged({h \in image : InWindow(to, wx, h)})])

\* expand: project on the next coarser level and mix with the uniform belief.
Expand(s, to) ==
    LET middle == Res(s.cur) * (s.wx + (Nx(s.cur) \div 2))
        wx == WindowAt(to, IF s.b = {} THEN middle ELSE Mean(s).x)
        image == {[h EXCEPT !.x = CellOf(to, Centre(s.cur, h.x))] : h \in s.b}
        proj == {h \in image : InWindow(to, wx, h)}
        base == IF FreeWindow(to, wx) = {} THEN Window(to, wx) ELSE FreeWindow(to, wx)
        uniform == {[h EXCEPT !.r = IF proj = {} THEN 0 ELSE MixRank] : h \in base}
    IN  Entered([s EXCEPT !.cur = to, !.wx = wx, !.b = Merged(proj \cup uniform)])

\* top_modes: from the heaviest on, what lies sep cells from every mode taken before.
TopModes(s, k, sep) ==
    LET cells == {h \in s.b : h.r <= ModeRank}
        nth(i) == CHOOSE h \in cells : Cardinality({g \in cells : Ahead(g, h)}) = i - 1
        taken[i \in 0 .. Cardinality(cells)] ==
          IF i = 0 THEN {}
          ELSE LET before == taken[i - 1] h == nth(i)
               IN  IF Cardinality(before) < k /\ \A g \in before : Abs(g.x - h.x) >= sep
                   THEN before \cup {h} ELSE before
    IN  taken[Cardinality(cells)]

\* Mutant: the heaviest mode is trusted as it is.
ContractBlind(s, to, scan) ==
    LET best == Foremost(Heaviest(s.b))
        p == [x |-> Centre(s.cur, best.x), t |-> best.t]
    IN  IF s.b = {} THEN s
        ELSE [SeedGaussian([s EXCEPT !.cur = to], p, Res(s.cur))
                EXCEPT !.qe = Max({s.qe, ExpandQuality}), !.dwell = 0]

\* contract: the mode that the scan fits best seeds the next finer level.
Contract(s, to, scan) ==
    LET cands == TopModes(s, 8, 2)
        score(h) == PoseScore(Centre(s.cur, h.x), h.t, scan, Beams(scan, MaxRange))
        best == Foremost({h \in cands : \A g \in cands : score(h) <= score(g)})
        p == [x |-> Centre(s.cur, best.x), t |-> best.t]
    IN  IF cands = {} THEN s
        ELSE [SeedGaussian([s EXCEPT !.cur = to], p, Res(s.cur))
                EXCEPT !.qe = Max({s.qe, ExpandQuality}), !.dwell = 0]

MaybeTransition(s, scan) ==
    IF s.dwell < MIN_DWELL THEN s
    ELSE IF s.qe < ExpandQuality /\ s.cur < Last THEN Expand(s, s.cur + 1)
    ELSE IF s.cur > 0 /\ Ess(s) < ContractEss THEN Contract(s, s.cur - 1, scan)
    ELSE s

\* recenter: the window follows the mean once it is two cells off; what falls out is lost.
Recenter(s) ==
    LET wx == WindowAt(s.cur, Mean(s).x)
    IN  IF s.b = {} \/ Abs(wx - s.wx) < 2 THEN s
        ELSE Normalize([s EXCEPT !.wx = wx, !.b = {h \in s.b : InWindow(s.cur, wx, h)}])

-----------------------------------------------------------------------------
(* The trait's operations.                                                 *)

SetPose(s, p) ==
    [SeedGaussian([s EXCEPT !.cur = 0], p, InitSigma)
       EXCEPT !.init = TRUE, !.qe = 10, !.dwell = 0]

\* blur: part of the weight leaks to the cells beside it.
Blur(b) == Merged(b \cup {Hyp(h.x + d, h.t, h.r + 1) : h \in b, d \in {-1, 1}})

\* The sum-product prediction: v native cells ahead and w half turns, then blur and mask.
\* A shift of less than a cell leaves part of the weight where it was.
GridPredict(s, v, w) ==
    LET ahead(h) == [h EXCEPT !.x = @ + Dir(h.t) * v]
        shifted == {ahead(h) : h \in s.b} \cup (IF Res(s.cur) = 1 THEN {} ELSE s.b)
        inside == {h \in Merged(shifted) : InWindow(s.cur, s.wx, h)}
        turned == {[h EXCEPT !.t = (@ + w) % 2] : h \in inside}
        spread == {h \in Blur(turned) : InWindow(s.cur, s.wx, h)}
    IN  Normalize(ApplyFreeMask([s EXCEPT !.b = spread]))

\* The min-plus level only piles the motion up.
Predict(s, v, w) ==
    IF ~s.init THEN s
    ELSE IF VitOn(s) THEN [s EXCEPT !.pendF = @ + v, !.pendT = @ + w]
    ELSE GridPredict(s, v, w)

\* The belief-weighted agreement of the hypotheses that were evaluated, in tenths.
Quality(s, evaluated, scan, beams) ==
    LET known == {h \in Heaviest(s.b) : \E g \in evaluated : g.x = h.x /\ g.t = h.t}
    IN  IF s.b = {} THEN 0
        ELSE MapThenSumSet(LAMBDA h : Agreement(Centre(s.cur, h.x), h.t, scan, beams), known)
               \div Cardinality(Heaviest(s.b))

\* A hypothesis after it has paid for its beams.
Paid(l, h, scan, beams) ==
    [h EXCEPT !.r = @ + BeamMult[l + 1] * PoseScore(Centre(l, h.x), h.t, scan, beams)]

\* The correction of the window levels: light and walled-in hypotheses are dropped, the
\* others pay for their beams, and what sinks below the smallest f32 is zero.
Correct(s, scan, beams) ==
    LET evaluated == {h \in s.b : h.r < Skip /\ LevelFree(s.cur, h.x)}
        paid == {Paid(s.cur, h, scan, beams) : h \in evaluated}
    IN  [s EXCEPT !.b = {h \in paid : h.r <= Floor},
                  !.q = Quality(s, evaluated, scan, beams)]

\* minplus_shift: the motion that has piled up, rounded to cells.
MinplusShift(delta, l, pf, pt) ==
    LET n == (2 * pf + Res(l)) \div (2 * Res(l))
        moved == {Hyp(h.x + Dir(h.t) * n, (h.t + pt) % 2, h.r) : h \in delta}
    IN  {h \in moved : InWindow(l, 0, h)}

\* minplus_relax: a path may leave the commanded one at a cost per cell and bin.
MinplusRelax(delta, l) ==
    Merged({Hyp(g.x, g.t, h.r + Abs(h.x - g.x) + Abs(h.t - g.t)) :
              h \in delta, g \in Window(l, 0)})

\* The correction of the min-plus level; extinction starts over from the free cells.
VitObserve(s, scan, beams) ==
    LET l == s.cur
        moved == IF 2 * s.pendF >= Res(l) \/ s.pendT # 0
                 THEN MinplusShift(s.delta, l, s.pendF, s.pendT) ELSE s.delta
        soft == MinplusRelax(moved, l)
        best == Least(soft)
        evaluated == {h \in soft : h.r - best <= Skip /\ LevelFree(l, h.x)}
        delta == IF evaluated = {} THEN FreeWindow(l, 0)
                 ELSE Scaled({Paid(l, h, scan, beams) : h \in evaluated})
    IN  [s EXCEPT !.delta = delta, !.b = delta, !.pendF = 0, !.pendT = 0,
                  !.q = Quality(s, evaluated, scan, beams)]

GridObserve(s, scan) ==
    LET beams == Beams(scan, MaxRange)
    IN  IF ~s.init \/ beams = {} THEN s
        ELSE Recenter(Normalize(Correct(s, scan, beams)))

\* Beams whose tangential error on a coarse level would be too large are left out,
\* unless there are no others.
LevelBeams(l, scan) ==
    LET near == Beams(scan, IF l = 0 THEN MaxRange ELSE RangeCap)
    IN  IF near = {} THEN Beams(scan, MaxRange) ELSE near

\* An unseeded adaptive localizer starts from the whole map.
AdaptiveObserve(s, scan) ==
    LET s0 == IF s.init THEN s ELSE [EnterUniform(s, Last) EXCEPT !.init = TRUE]
        beams == LevelBeams(s0.cur, scan)
        s1 == IF VitOn(s0) THEN VitObserve(s0, scan, beams) ELSE Correct(s0, scan, beams)
        s2 == Normalize([s1 EXCEPT !.qe = (7 * s1.qe + 3 * s1.q) \div 10])
        s3 == IF Whole(s0.cur) THEN s2 ELSE Recenter(s2)
    IN  IF beams = {} THEN s0
        ELSE MaybeTransition([s3 EXCEPT !.dwell = Min({s3.dwell + 1, MIN_DWELL})], scan)

Observe(s, scan) == IF kind = "grid" THEN GridObserve(s, scan) ELSE AdaptiveObserve(s, scan)

NoPose == [x |-> -1, t |-> 0]

\* Mutant: the mean as it falls.
PoseMean(s) == IF ~s.init \/ s.cur # 0 \/ s.b = {} THEN NoPose ELSE Mean(s)

\* mode_free: the heaviest hypothesis on a free cell; pose falls back on it when the mean
\* is not on a free cell.
FreeHyps(s) == {h \in s.b : LevelFree(s.cur, h.x)}
ModeFree(s) == LET h == Foremost(FreeHyps(s)) IN [x |-> h.x, t |-> h.t]
Pose(s) ==
    IF ~s.init \/ s.cur # 0 \/ s.b = {} THEN NoPose
    ELSE IF Mean(s).x \in Free \/ FreeHyps(s) = {} THEN Mean(s)
    ELSE ModeFree(s)

-----------------------------------------------------------------------------
Poses == [x : Free, t : Heads]

New == [cur |-> 0, wx |-> 0, b |-> {}, nan |-> FALSE, init |-> FALSE, q |-> 0,
        qe |-> 0, dwell |-> 0, delta |-> {}, pendF |-> 0, pendT |-> 0]

Init ==
    /\ kind \in Kinds
    /\ truth \in Homes
    /\ loc = New
    /\ moves = 0
    /\ jumps = 0
    /\ calm = 0

\* A command of the follow loop: the robot moves a cell, or stands against a wall.
Drive ==
    /\ moves < MaxMoves
    /\ moves' = moves + 1
    /\ truth' = LET x == truth.x + Dir(truth.t)
                IN  IF x \in Free THEN [truth EXCEPT !.x = x] ELSE truth
    /\ loc' = Predict(loc, 1, 0)
    /\ calm' = 0
    /\ UNCHANGED <<kind, jumps>>

Turn ==
    /\ moves < MaxMoves
    /\ moves' = moves + 1
    /\ truth' = [truth EXCEPT !.t = 1 - @]
    /\ loc' = Predict(loc, 0, 1)
    /\ calm' = 0
    /\ UNCHANGED <<kind, jumps>>

\* A message of scan_topic.
Sense ==
    /\ calm < MaxCalm
    /\ calm' = calm + 1
    /\ loc' = Observe(loc, Scan(truth))
    /\ UNCHANGED <<kind, truth, moves, jumps>>

\* A message of pose_topic, right or wrong.
Seed(p) ==
    /\ jumps < MaxJumps
    /\ jumps' = jumps + 1
    /\ loc' = SetPose(loc, p)
    /\ calm' = 0
    /\ UNCHANGED <<kind, truth, moves>>

\* The robot is picked up and put down elsewhere.
Kidnap(p) ==
    /\ jumps < MaxJumps
    /\ jumps' = jumps + 1
    /\ truth' = p
    /\ calm' = 0
    /\ UNCHANGED <<kind, loc, moves>>

Next ==
    \/ Drive
    \/ Turn
    \/ Sense
    \/ \E p \in [x : Cells, t : Heads] : Seed(p)
    \/ \E p \in Poses : Kidnap(p)

Spec == Init /\ [][Next]_vars

-----------------------------------------------------------------------------
\* The pose handed to the follow loop after a scan is on a free cell, also when the belief
\* is a ring around an obstacle and its mean falls inside it.
PoseIsFree == calm > 0 /\ Pose(loc) # NoPose => Pose(loc).x \in Free

\* A lost localizer always keeps a hypothesis: on a coarse level an empty belief could
\* neither contract nor, at the top, expand, and the robot would wait for a seed for ever.
LostHasHypotheses == loc.cur > 0 => loc.b # {}

\* Recovery: wherever the robot is carried and whatever seed it is given, MaxCalm scans
\* later the adaptive localizer is back on its finest level and holds, above all others,
\* hypotheses from which every beam of the scan ends at an obstacle.
Fits(h) == PoseScore(h.x, h.t, Scan(truth), Beams(Scan(truth), MaxRange)) = 0
Relocalizes ==
    kind # "grid" /\ calm = MaxCalm =>
      Pose(loc) # NoPose /\ \A h \in Heaviest(loc.b) : Fits(h)

=============================================================================
