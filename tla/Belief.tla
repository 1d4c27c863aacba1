------------------------------- MODULE Belief -------------------------------
(***************************************************************************)
(* The whole-map belief of vi_lib/src/belief.rs: one histogram over every  *)
(* cell and heading of the planner's grid, without windows and levels.     *)
(* Both update rules are modelled (sum-product, and min-plus when viterbi  *)
(* is set), with and without the recovery stack that belief_recovery       *)
(* switches on: the global scan match, the observation model of the lost   *)
(* state, the gate on stationary scans and the probation of a release.     *)
(*                                                                         *)
(* The map is a corridor along x with side walls, and the robot faces one  *)
(* of four ways.  A weight is kept as its order of magnitude: rank r       *)
(* stands for z_min^(r/8) of the heaviest, which makes the neutral         *)
(* likelihood UNKNOWN_L rank 2 and weight_skip_ratio rank 24.  Sums of     *)
(* weights are minima of ranks, products are sums.                         *)
(***************************************************************************)
EXTENDS Integers, FiniteSets, FiniteSetsExt

CONSTANTS
    Kinds,          \* the configurations considered: [viterbi, recovery]
    W, Walls,       \* the cells 0 .. W - 1 of the corridor, and the map's walls
    Ghosts,         \* walls of the map that are not there
    Side,           \* distance of the side walls
    Alcoves,        \* cells whose left wall, seen along x, lies Side cells further off
    MapClear,       \* map_clear_from_scan
    MaxRange,       \* max_range_m
    SensorSigma,    \* sensor_sigma_m in cells
    LostSlope,      \* cells of range that widen sigma by one when lost
    LostMinKnown,   \* LOST_MIN_KNOWN, scaled to the modelled beams
    InitSigma,      \* init_sigma_xy_m in cells
    BeamMult,       \* how many beams one modelled beam stands for
    MixRank,        \* one cell of the uniform part, against the peak
    LostEss,        \* lost_ess
    TopK, ModeCap,  \* UNIMODAL_TOP_K and MODE_CANDIDATE_CAP
    ModeSep,        \* MODE_MIN_SEP_M in cells
    HoldObs,        \* RELEASE_HOLD_OBS
    ProbationObs,   \* probation_obs
    MinD,           \* lost_update_min_d_m in cells
    MatchRetry,     \* MATCH_RETRY_M in cells
    Anneal,         \* MATCH_ANNEAL_M in cells
    Stride,         \* MATCH_STRIDE_CELLS
    Branches,       \* MATCH_BRANCHES
    RematchR,       \* LOCAL_REMATCH_R_M in cells
    Homes,          \* where the robot may be switched on
    Spots,          \* where it may be seeded or carried
    MaxMoves,       \* bound on the commands driven, without and with the recovery stack
    MaxJumps,       \* bound on the seeds and abductions
    MaxCalm         \* scans in a row that nothing disturbs, likewise

VARIABLES
    kind,           \* the configuration in use
    truth,          \* where the robot is
    loc,            \* the belief
    moves, jumps,   \* commands and jumps used up
    calm,           \* scans since the last of them
    heard           \* a scan came after the last command

vars == <<kind, truth, loc, moves, jumps, calm, heard>>

ZMin == 8           \* the rank of z_min
UnknownRank == 2    \* the rank of UNKNOWN_L
Skip == 24          \* weight_skip_ratio
ModeRank == 8       \* MODE_THRESHOLD
EssRank == 2        \* what is lighter adds little to 1 / sum of squares
BlurRank == 4       \* what one tick leaks to the next cell or heading
HalfRank == 2       \* half the weight
RelaxRank == 11     \* VIT_LAMBDA_XY and VIT_LAMBDA_T
EvidencePow == 8    \* LOST_EVIDENCE_POW
ResetQuality == 25  \* reset_quality in percent
ProbationQuality == 40

Heads == 0 .. 3
Dir(d) == CASE d = 0 -> 1 [] d = 2 -> -1 [] OTHER -> 0
Cells == 0 .. W - 1
MapFree == Cells \ Walls
World == MapFree \cup Ghosts
Abs(n) == IF n < 0 THEN -n ELSE n

ASSUME BeliefAssumption ==
    /\ Kinds \subseteq [viterbi : BOOLEAN, recovery : BOOLEAN]
    /\ W \in Nat \ {0} /\ Walls \subseteq 0 .. W - 1 /\ Ghosts \subseteq Walls
    /\ {0, W - 1} \subseteq Walls \ Ghosts
    /\ LostMinKnown \in Nat \ {0}
    /\ Homes \cup Spots \subseteq [x : MapFree, t : Heads]

-----------------------------------------------------------------------------
(* The map: likelihood field and scans.                                    *)

Off == -1

\* How far the wall beside cell x is in direction d.
SideWall(x, d) == IF d = 1 /\ x \in Alcoves THEN 2 * Side ELSE Side

\* from_grid, known_dist: cells from the end of a beam to the nearest obstacle of the map.
EndDist(x, d, r) ==
    IF Dir(d) # 0
    THEN LET e == x + Dir(d) * r
         IN  IF e \in Cells THEN Min({Abs(e - o) : o \in Walls} \cup {Side}) ELSE Off
    ELSE IF r > SideWall(x, d) THEN Off ELSE SideWall(x, d) - r

\* cast_scan: cells from p to the first obstacle along heading d.
CastScan(p, d) ==
    IF Dir(d) = 0 THEN SideWall(p.x, d)
    ELSE Min({r \in 1 .. W : p.x + Dir(d) * r \notin World})

\* A scan is the ranges ahead (0), left (1), behind (2) and right (3) of the robot.
Scan(p) == [a \in Heads |-> CastScan(p, (p.t + a) % 4)]
Beams(scan) == {a \in Heads : scan[a] <= MaxRange}

Ends(x, t, scan) == [a \in Heads |-> EndDist(x, (t + a) % 4, scan[a])]

\* The observation model of tracking: a beam that ends away from every obstacle, or off the
\* map, costs z_min.
Missed(x, t, scan) ==
    {a \in Beams(scan) : Ends(x, t, scan)[a] \notin 0 .. SensorSigma}
TrackRank(x, t, scan) == BeamMult * ZMin * Cardinality(Missed(x, t, scan))
TrackMean(x, t, scan) == (ZMin * Cardinality(Missed(x, t, scan))) \div Cardinality(Beams(scan))

\* lost_lut: when lost, sigma grows with the range, and by extra for a block of cells;
\* beams that end off the map are left out of the mean.
Known(x, t, scan) == {a \in Beams(scan) : Ends(x, t, scan)[a] # Off}
LostMissed(x, t, scan, extra) ==
    {a \in Known(x, t, scan) :
       Ends(x, t, scan)[a] > SensorSigma + (scan[a] \div LostSlope) + extra}
LostMean(x, t, scan, extra) ==
    IF Cardinality(Known(x, t, scan)) < LostMinKnown THEN UnknownRank
    ELSE (ZMin * Cardinality(LostMissed(x, t, scan, extra)))
           \div Cardinality(Known(x, t, scan))

\* The weight counts a beam off the map as neutral, and hardens with the way driven.
LostRank(x, t, scan, apow) ==
    LET beams == Beams(scan)
        neutral == Cardinality(beams \ Known(x, t, scan))
    IN  (apow * (ZMin * Cardinality(LostMissed(x, t, scan, 0)) + UnknownRank * neutral))
          \div Cardinality(beams)

\* A rank as a likelihood in percent.
Percent(r) == CASE r = 0 -> 100 [] r = 1 -> 69 [] r = 2 -> 47 [] r = 3 -> 32 [] r = 4 -> 22
                [] r = 5 -> 15 [] r = 6 -> 11 [] r = 7 -> 7 [] OTHER -> 5

-----------------------------------------------------------------------------
(* Beliefs: sets of hypotheses, each a cell, a heading and a rank.          *)

Hyp(x, t, r) == [x |-> x, t |-> t, r |-> r]
Mask(s) == MapFree \cup s.opened
FreeHyps(s) == {Hyp(x, t, 0) : x \in Mask(s), t \in Heads}

Least(b) == Min({h.r : h \in b})
Heaviest(b) == {h \in b : h.r = Least(b)}

\* The sum of the weights that arrive at one cell: the heaviest decides.
Merged(b) == {h \in b : \A g \in b : g.x = h.x /\ g.t = h.t => h.r <= g.r}

\* normalize_active
Scaled(b) == IF b = {} THEN {} ELSE {[h EXCEPT !.r = @ - Least(b)] : h \in b}

\* recompute_ess
Ess(b) == Cardinality({h \in b : h.r <= EssRank})

\* Hypotheses from the heaviest on; equal ones as they lie in the buffer.
Ahead(g, h) == \/ g.r < h.r
               \/ g.r = h.r /\ g.t < h.t
               \/ g.r = h.r /\ g.t = h.t /\ g.x < h.x
Foremost(b) == CHOOSE h \in b : \A g \in b \ {h} : Ahead(h, g)

\* mean: the centre of the heaviest hypotheses and their mean direction.
Mean(b) ==
    LET top == Heaviest(b)
        count(t) == Cardinality({h \in top : h.t = t})
        c == count(0) - count(2)
        n == count(1) - count(3)
    IN  [x |-> MapThenSumSet(LAMBDA h : h.x, top) \div Cardinality(top),
         t |-> IF Abs(c) >= Abs(n) THEN IF c >= 0 THEN 0 ELSE 2 ELSE IF n > 0 THEN 1 ELSE 3]

\* top_cells
TopCells(b, k) == {h \in b : Cardinality({g \in b : Ahead(g, h)}) < k}

\* mode_count is one when every hypothesis lies near the first.
OneMode(b) == \A h \in b : Abs(h.x - Foremost(b).x) < ModeSep

\* strong_hyps; too many of them are no modes yet.
StrongHyps(b) ==
    LET strong == {h \in b : h.r <= ModeRank + Least(b)}
    IN  IF b = {} \/ Cardinality(strong) > ModeCap THEN {} ELSE strong

-----------------------------------------------------------------------------
(* Entering a belief.                                                      *)

\* vit_enter: the costs of the min-plus rule start from the belief.
VitEnter(s) == IF kind.viterbi THEN [s EXCEPT !.delta = s.b] ELSE s

Still(s) == [s EXCEPT !.pf = 0, !.pt = 0, !.ticks = 0]

\* seed: a Gaussian around a pose, on free cells only; it clears the lost latch.
Seeded(s, p) ==
    LET turn(t) == Min({(t - p.t) % 4, (p.t - t) % 4})
        rank(h) == 4 * (Abs(h.x - p.x) \div InitSigma) + 8 * turn(h.t)
        b == Scaled({[h EXCEPT !.r = rank(h)] : h \in FreeHyps(s)})
    IN  [Still(VitEnter([s EXCEPT !.b = b])) EXCEPT
           !.init = TRUE, !.qe = 100, !.lost = FALSE, !.prob = 0, !.ess = Ess(b)]

\* The end of enter_uniform_free and of enter_lost_empty.
Latched(s) == [Still(s) EXCEPT !.init = TRUE, !.qe = ResetQuality, !.lost = TRUE, !.prob = 0]

EnterUniformFree(s) ==
    [Latched(VitEnter([s EXCEPT !.b = FreeHyps(s)])) EXCEPT !.ess = Ess(FreeHyps(s))]

EnterLostEmpty(s) ==
    [Latched([s EXCEPT !.b = {}, !.delta = {}]) EXCEPT !.ess = 0]

FailProbation(s) == IF kind.recovery THEN EnterLostEmpty(s) ELSE EnterUniformFree(s)

-----------------------------------------------------------------------------
(* Prediction.                                                             *)

Predict(s, v, w) ==
    IF ~s.init THEN s
    ELSE [s EXCEPT !.pf = @ + v, !.pt = @ + w, !.ticks = @ + 1]

\* The motion that has piled up: ahead first, then the turn.
Moved(h, pf, pt) == Hyp(h.x + Dir(h.t) * pf, (h.t + pt) % 4, h.r)

\* shift_scatter, then diffuse_scatter: what falls on walls is dropped.
Scatter(s, free) ==
    LET shifted == {h \in {Moved(h, s.pf, s.pt) : h \in s.b} : h.x \in free}
        leaked == {Hyp(h.x + d, h.t, h.r + BlurRank) : h \in shifted, d \in {-1, 1}}
                    \cup {Hyp(h.x, (h.t + d) % 4, h.r + BlurRank) : h \in shifted, d \in {1, 3}}
        b == Scaled(Merged(shifted \cup {h \in leaked : h.x \in free}))
    IN  IF s.ticks = 0 THEN s ELSE [s EXCEPT !.b = b, !.ess = Ess(b)]

SumFlush(s) == Scatter(s, Mask(s))

\* minplus_shift goes through scratch and leaves the shifted costs there (a cost that is
\* exactly zero, which only a fresh start of vit_observe writes, is left out here).
MinplusShift(s) ==
    [s EXCEPT !.delta = {h \in {Moved(h, s.pf, s.pt) : h \in s.delta} : h.x \in Cells},
              !.scratch = Cells \X Heads]

\* minplus_relax: a path may leave the commanded one at a cost per cell and heading.
MinplusRelax(delta) ==
    LET turn(t, u) == Min({(t - u) % 4, (u - t) % 4})
        rank(x, t) == Min({h.r + RelaxRank * (Abs(x - h.x) + turn(t, h.t)) : h \in delta})
    IN  IF delta = {} THEN {} ELSE {Hyp(x, t, rank(x, t)) : x \in Cells, t \in Heads}

VitFlush(s) ==
    LET m == IF s.pf # 0 \/ s.pt # 0 THEN MinplusShift(s) ELSE s
    IN  [m EXCEPT !.delta = MinplusRelax(m.delta)]

Flush(s) == Still(IF kind.viterbi THEN VitFlush(s) ELSE SumFlush(s))

-----------------------------------------------------------------------------
(* Correction.                                                             *)

\* anneal_pow
AnnealPow(s) == Min({1 + (s.since \div Anneal), EvidencePow})

\* What one scan costs a hypothesis, and how well it agrees, in percent.
Cost(s, h, scan, lost) ==
    IF lost /\ kind.recovery THEN LostRank(h.x, h.t, scan, AnnealPow(s))
    ELSE TrackRank(h.x, h.t, scan)
Agreement(h, scan, lost) ==
    Percent(IF lost /\ kind.recovery THEN LostMean(h.x, h.t, scan, 0)
            ELSE TrackMean(h.x, h.t, scan))

\* The belief-weighted agreement of the hypotheses that were evaluated.
Quality(b, evaluated, scan, lost) ==
    LET known == {h \in Heaviest(b) : \E g \in evaluated : g.x = h.x /\ g.t = h.t}
    IN  MapThenSumSet(LAMBDA h : Agreement(h, scan, lost), known)
          \div Cardinality(Heaviest(b))

Paid(s, evaluated, scan, lost) ==
    {[h EXCEPT !.r = @ + Cost(s, h, scan, lost)] : h \in evaluated}

\* sum_observe: pay first, then prune against the heaviest.
SumObserve(s, scan, lost) ==
    LET evaluated == {h \in s.b : h.x \in Mask(s)}
        paid == Scaled(Paid(s, evaluated, scan, lost))
    IN  [s EXCEPT !.b = {h \in paid : h.r < Skip}, !.q = Quality(s.b, evaluated, scan, lost)]

\* vit_observe: prune first, the floor of a reset included, then pay; extinction starts over
\* from the free cells.
VitObserve(s, scan, lost) ==
    LET evaluated == {h \in s.delta : h.r - Least(s.delta) <= Max({Skip, MixRank})
                                        /\ h.x \in Mask(s)}
        delta == IF evaluated = {} THEN FreeHyps(s)
                 ELSE Scaled(Paid(s, evaluated, scan, lost))
    IN  [s EXCEPT !.delta = delta, !.b = delta, !.q = Quality(s.b, evaluated, scan, lost)]

\* mix_uniform: the free cells are added below the peak.
MixUniform(s) ==
    LET floor(b) == {[h EXCEPT !.r = Least(b) + MixRank] : h \in FreeHyps(s)}
        delta == Merged(s.delta \cup floor(s.delta))
    IN  IF kind.viterbi
        THEN [s EXCEPT !.delta = delta, !.b = Scaled(delta), !.qe = ResetQuality]
        ELSE [s EXCEPT !.b = Merged(s.b \cup floor(s.b)), !.qe = ResetQuality]

-----------------------------------------------------------------------------
(* The global scan match.                                                  *)

Block(bx) == {x \in Cells : x \in bx .. bx + Stride - 1}
Blocks == {bx \in Cells : bx % Stride = 0}
BlockCentre(bx) == bx + (Stride \div 2)
BlockR == (7 * Stride) \div 10

\* Mutant: only blocks without a wall.
BuildMatchPoolOpen(s) == {bx \in Blocks : Block(bx) \subseteq Mask(s)}

\* build_match_pool, once: the blocks with a free cell.
BuildMatchPool(s) == {bx \in Blocks : Block(bx) \cap Mask(s) # {}}
WithPool(s) == IF s.pool = {} THEN [s EXCEPT !.pool = BuildMatchPool(s)] ELSE s

\* match_candidates: block centres and headings compete with a widened sigma, and every
\* branch that is left sends its best cell.
MatchCandidates(s, scan, blocks) ==
    LET branches == blocks \X Heads
        coarse(k) == LostMean(BlockCentre(k[1]), k[2], scan, BlockR)
        kept == {k \in branches :
                   Cardinality({j \in branches : coarse(j) < coarse(k)}) < Branches}
        cells(k) == {Hyp(x, k[2], LostMean(x, k[2], scan, 0)) : x \in Block(k[1]) \cap Mask(s)}
    IN  {Foremost(cells(k)) : k \in kept}

\* A lump of cells around every candidate, put together in scratch: a cell of scratch that
\* is not zero is not taken for a new one.
Lumps(s, cands) ==
    LET halves(n) == HalfRank * Abs(n)
        lumps == {Hyp(c.x + d, (c.t + e) % 4, c.r + halves(d) + halves(e)) :
                    c \in cands, d \in -1 .. 1, e \in -1 .. 1}
    IN  Merged({h \in lumps : h.x \in Mask(s) /\ <<h.x, h.t>> \notin s.scratch})

\* The end of reseed_with.
Reseeded(s, b, cands) ==
    [VitEnter([s EXCEPT !.b = b]) EXCEPT
       !.init = TRUE, !.lost = TRUE, !.prob = 0, !.since = 0,
       !.q = IF cands = {} THEN 0 ELSE Percent(Least(cands)),
       !.qe = ResetQuality, !.ess = Ess(b)]

\* reseed_with: the survivors are scaled to the heaviest candidate and keep their order.
ReseedWith(s, cands) ==
    LET new == Lumps(s, cands)
        old == IF new = {} THEN s.b ELSE {[h EXCEPT !.r = @ + Least(new)] : h \in Scaled(s.b)}
    IN  Reseeded(s, Scaled(Merged(old \cup new)), cands)

MatchReseed(s, scan) ==
    LET p == WithPool(s) IN ReseedWith(p, MatchCandidates(p, scan, p.pool))

\* The first mismatch of a tracked pose: near candidates are preferred unless the best of the
\* whole map is more than twice as good (LOCAL_REMATCH_ACCEPT).
Rematch(s, scan) ==
    LET p == WithPool(s)
        around == {bx \in p.pool : Abs(BlockCentre(bx) - Mean(p.b).x) <= RematchR + BlockR}
        near == MatchCandidates(p, scan, around)
        all == MatchCandidates(p, scan, p.pool)
        local == near # {} /\ 2 * Percent(Least(near)) >= Percent(Least(all))
    IN  ReseedWith(p, IF local THEN near ELSE all)

-----------------------------------------------------------------------------
(* observe.                                                                *)

\* release_unimodal
Unimodal(s) ==
    IF kind.recovery THEN StrongHyps(s.b) # {} /\ OneMode(StrongHyps(s.b))
    ELSE OneMode(TopCells(s.b, TopK))

\* try_release: with the recovery stack the peak has to stay where it is.
TryRelease(s) ==
    LET peak == Foremost(s.b).x
        held == s.anchor # Off /\ Abs(peak - s.anchor) <= ModeSep
        hold == IF held THEN s.hold + 1 ELSE 1
    IN  IF ~Unimodal(s) THEN [s EXCEPT !.hold = 0]
        ELSE IF ~kind.recovery THEN [s EXCEPT !.lost = FALSE]
        ELSE IF hold < HoldObs THEN [s EXCEPT !.hold = hold, !.anchor = peak]
        ELSE [s EXCEPT !.hold = 0, !.anchor = peak, !.lost = FALSE,
                       !.prob = ProbationObs, !.probMove = 0]

\* One step of the probation of a release.
Probe(s, moved) ==
    LET m == s.probMove + moved
    IN  IF m < MinD THEN [s EXCEPT !.probMove = m]
        ELSE IF s.q < ProbationQuality THEN [FailProbation(s) EXCEPT !.probMove = 0]
        ELSE [s EXCEPT !.probMove = 0, !.prob = @ - 1]

\* The latch, once the belief is settled.
Latch(s0, mismatched, moved) ==
    LET s == [s0 EXCEPT !.ess = Ess(s0.b)]
    IN  IF mismatched \/ s.ess > LostEss
        THEN [s EXCEPT !.lost = TRUE, !.prob = 0, !.hold = 0, !.anchor = Off]
        ELSE IF s.lost THEN TryRelease(s)
        ELSE IF s.prob > 0 THEN Probe(s, moved)
        ELSE s

\* Mutant: a lost belief that is still wide is flattened again.
HoldsBackNever(s) == FALSE

\* A lost belief that is still wide is left to concentrate.
HoldsBack(s) == s.lost /\ s.ess > LostEss

\* What a mismatch does to the belief.
Judge(s, scan, moved) ==
    LET mismatched == s.qe < ResetQuality
        far == s.since >= MatchRetry
    IN  IF ~mismatched \/ HoldsBack(s) THEN Latch(s, mismatched, moved)
        ELSE IF kind.recovery
             THEN IF ~far THEN Latch(s, TRUE, moved)
                  ELSE IF s.lost THEN MatchReseed(s, scan) ELSE Rematch(s, scan)
        ELSE Latch(IF s.lost THEN EnterUniformFree(s) ELSE MixUniform(s), TRUE, moved)

Weigh(s, scan, lost, moved) ==
    LET o == IF kind.viterbi THEN VitObserve(s, scan, lost) ELSE SumObserve(s, scan, lost)
        e == [o EXCEPT !.qe = (70 * s.qe + 30 * o.q) \div 100]
    IN  IF e.b # {} THEN Judge(e, scan, moved)
        ELSE IF kind.recovery THEN MatchReseed(e, scan) ELSE EnterUniformFree(e)

\* An unseeded belief starts from the whole map, or from a match.
Started(s) ==
    IF s.init THEN s ELSE IF kind.recovery THEN EnterLostEmpty(s) ELSE EnterUniformFree(s)

\* With the recovery stack a lost belief drops the scans of a robot that has hardly moved;
\* one turn opens the gate.
Gated(s) == s.lost /\ kind.recovery /\ s.pf < MinD /\ s.pt = 0

SinceCap == Max({MatchRetry, Anneal * EvidencePow})

Corrected(s0, scan) ==
    LET f == Flush(s0)
        s1 == [f EXCEPT !.since = Min({@ + s0.pf, SinceCap})]
        s == IF s1.b = {} /\ ~kind.recovery THEN EnterUniformFree(s1) ELSE s1
    IN  IF Beams(scan) = {} THEN s
        ELSE IF s.b = {} THEN MatchReseed(s, scan)
        ELSE Weigh(s, scan, s0.lost, s0.pf)

Observe(s, scan) ==
    LET s0 == Started(s) IN IF Gated(s0) THEN s0 ELSE Corrected(s0, scan)

\* clear_free_from_scan: cells a beam has passed become free, as seen from the mean; the
\* beam stops one cell short of its end.
ClearFree(s, scan) ==
    LET p == Mean(s.b)
        passed == {p.x + Dir((p.t + a) % 4) * n : a \in Heads, n \in 0 .. W}
        seen(x) == \E a \in Heads : LET d == Dir((p.t + a) % 4)
                                    IN d # 0 /\ d * (x - p.x) \in 1 .. scan[a] - 2
    IN  IF s.b = {} \/ ~MapClear THEN s
        ELSE [s EXCEPT !.opened = @ \cup {x \in passed \cap Walls : seen(x)}]

-----------------------------------------------------------------------------
New == [init |-> FALSE, b |-> {}, delta |-> {}, scratch |-> {},
        opened |-> {}, pf |-> 0, pt |-> 0, ticks |-> 0, q |-> 0, qe |-> 0, ess |-> 0,
        lost |-> FALSE, prob |-> 0, probMove |-> 0, pool |-> {}, since |-> 0,
        hold |-> 0, anchor |-> Off]

Init ==
    /\ kind \in Kinds
    /\ truth \in Homes
    /\ loc = New
    /\ moves = 0 /\ jumps = 0 /\ calm = 0
    /\ heard = TRUE

\* A command of the follow loop, followed by a scan: the robot moves a cell or turns left.
Command(v, w, p) ==
    /\ moves < MaxMoves[kind.recovery] /\ heard
    /\ moves' = moves + 1
    /\ truth' = p
    /\ loc' = Predict(loc, v, w)
    /\ calm' = 0
    /\ heard' = FALSE
    /\ UNCHANGED <<kind, jumps>>

Drive ==
    /\ truth.x + Dir(truth.t) \in World /\ Dir(truth.t) # 0
    /\ Command(1, 0, [truth EXCEPT !.x = @ + Dir(truth.t)])

Turn == Command(0, 1, [truth EXCEPT !.t = (@ + 1) % 4])

\* Mutant: the mass is moved before the scan has opened the walls it disproves.
SenseLate ==
    /\ calm < MaxCalm[kind.recovery]
    /\ calm' = calm + 1
    /\ loc' = ClearFree(Observe(loc, Scan(truth)), Scan(truth))
    /\ heard' = TRUE
    /\ UNCHANGED <<kind, truth, moves, jumps>>

\* A message of scan_topic: Loc::observe.
Sense ==
    /\ calm < MaxCalm[kind.recovery]
    /\ calm' = calm + 1
    /\ loc' = Observe(ClearFree(loc, Scan(truth)), Scan(truth))
    /\ heard' = TRUE
    /\ UNCHANGED <<kind, truth, moves, jumps>>

\* A message of pose_topic, right or wrong.
Seed(p) ==
    /\ jumps < MaxJumps
    /\ jumps' = jumps + 1
    /\ loc' = Seeded(loc, p)
    /\ calm' = 0
    /\ UNCHANGED <<kind, truth, moves, heard>>

\* The robot is picked up and put down elsewhere.
Kidnap(p) ==
    /\ jumps < MaxJumps
    /\ jumps' = jumps + 1
    /\ truth' = p
    /\ calm' = 0
    /\ UNCHANGED <<kind, loc, moves, heard>>

Next ==
    \/ Drive
    \/ Turn
    \/ Sense
    \/ \E p \in Spots : Seed(p)
    \/ \E p \in Spots : Kidnap(p)

Spec == Init /\ [][Next]_vars

-----------------------------------------------------------------------------
\* A pose is among the hypotheses that weigh enough, once the motion piled up is applied.
Holds(s, p) ==
    LET hyps == IF kind.viterbi THEN s.delta ELSE s.b
    IN  \E h \in hyps : /\ h.r - Least(hyps) < Skip
                       /\ Moved(h, s.pf, s.pt) = Hyp(p.x, p.t, h.r)

Fits(h) == Percent(TrackMean(h.x, h.t, Scan(truth))) >= ResetQuality

\* Pruning, mixing and matching never take the true pose out of a belief that holds it, and
\* neither does a wall that the scan has shown to be open; only a failed probation, which
\* empties the belief, does.
TruthSurvives ==
    [][Holds(loc, truth) /\ jumps' = jumps =>
         Holds(loc', truth') \/ loc'.b = {} \/ truth'.x \notin Mask(loc')]_vars

\* A belief whose peak does not explain the scans is not kept: MaxCalm scans after the last
\* command, seed or abduction the heaviest hypotheses agree with the scan, or the pose is
\* withheld and the gate of the recovery stack waits for the robot to move.
WrongPoseIsNoticed ==
    calm = MaxCalm[kind.recovery] =>
      \/ loc.b # {} /\ \A h \in Heaviest(loc.b) : Fits(h)
      \/ kind.recovery /\ loc.lost

\* An empty belief gets hypotheses from the first scan that passes the gate: fail_probation
\* and the start-up of the recovery stack rely on it, nothing else fills the belief again.
EmptyIsReseeded ==
    [][loc.init /\ loc.b = {} /\ ~Gated(loc) /\ calm' = calm + 1 => loc'.b # {}]_vars

=============================================================================
