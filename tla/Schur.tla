-------------------------------- MODULE Schur --------------------------------
(***************************************************************************)
(* The solver with precomputed tiles (vi_lib/src/solvers/schur.rs).  The   *)
(* map is cut into tiles; portals are states on the lines between tiles.   *)
(* For every tile the cost of crossing it from portal to portal is         *)
(* computed once, without a goal.  A query seeds the portals near the goal *)
(* with small solves, runs Dijkstra on the portals, solves every tile by   *)
(* itself from its portals' costs, and makes the result exact with         *)
(* ordinary rounds.  A two-level query solves only the robot's tile, from  *)
(* a coarse set of portals and from a fine one whose Dijkstra is confined  *)
(* to a corridor of tiles.  The crossing costs can also be computed on the *)
(* GPU (solvers/schur_gpu.rs and its kernels).                             *)
(***************************************************************************)
EXTENDS Original

CONSTANTS
    Worlds,              \* [map, start, local]: maps and fields a solve is started on
    Queries,             \* [kind, from, build]: "solve", or "corridor" from a tile;
                         \* built on the "cpu" or the "gpu"
    Configs,             \* SchurConfig, coarse first: [thetas, spacing]
    Tile,                \* SchurConfig::tile, cells along a tile
    PatchR, PatchT,      \* PATCH_R, PATCH_T: a portal stands for the states this near
    TileMaxIter, Tol, Stable,   \* TILE_MAX_ITER, TOL, STABLE
    GpuMaxPasses, JudgeEvery,   \* GPU_MAX_PASSES, JUDGE_EVERY
    Widen,               \* dilate of corridor_tiles
    NThreads,            \* available_parallelism()
    MaxIter, Interval, Flows, ReachThresh   \* as in Solvers

ASSUME SchurAssumption ==
    /\ Tile \in Nat \ {0} /\ PatchR \in Nat /\ PatchT \in Nat /\ Widen \in Nat
    /\ TileMaxIter \in Nat /\ Tol \in Nat /\ Stable \in Nat \ {0}
    /\ GpuMaxPasses \in Nat /\ JudgeEvery \in Nat \ {0} /\ NThreads \in Nat \ {0}
    /\ MaxIter \in Nat \ {0} /\ Interval \in Nat \ {0}
    /\ ReachThresh \in Cost /\ Flows \subseteq {"Continue", "Stop", "Cancel"}

VARIABLES
    world, query,        \* what is solved, with what the original solver makes of it
    val, act,            \* vi.states
    phase,               \* the stage of the query
    art,                 \* per configuration: portals in order, and per tile its
                         \* portals and w, the costs of crossing it
    thr,                 \* tiles each thread still has to do
    diffs,               \* per thread: what its tiles found
    job,                 \* which Dijkstra of the query is under way
    dij,                 \* per job: d, parent and via_tile of every portal
    seeds, heap,         \* goal tiles to solve, labels to pop
    mask,                \* the tiles a confined Dijkstra may use
    front, iters, outcome

vars == <<world, query, val, act, phase, art, thr, diffs, job, dij, seeds, heap, mask, front,
          iters, outcome>>

map == world.map
Field == [val |-> val, act |-> act]

-----------------------------------------------------------------------------
(* Tiles, patches and portals.                                             *)

CeilDiv(a, b) == (a + b - 1) \div b
Tnx == CeilDiv(Width, Tile)
Tny == CeilDiv(Height, Tile)
TileAt(n) == <<n % Tnx, n \div Tnx>>
AllTiles == [n \in 1 .. Tnx * Tny |-> TileAt(n - 1)]

\* Mutant: the halo is the reach alone, without room for a patch.
HaloShort == Max({Reach, 1})

\* halo: a patch on a line must be able to move within either tile's domain.
Halo == Max({Reach, 1}) + PatchR + 1

\* domain_origin, side: the cells a tile's small solve works on.
Domain(t) ==
    {c \in Cell : \A i \in {1, 2} : c[i] \in t[i] * Tile - Halo .. (t[i] + 1) * Tile + Halo - 1}

\* patch_states, in order; headings wrap around, cells off the map are left out.
PatchSeq(p) ==
    LET r == 2 * PatchR + 1
        h == 2 * PatchT + 1
        at(n) == <<<<p[1][1] + ((n \div h) % r) - PatchR, p[1][2] + (n \div (h * r)) - PatchR>>,
                   (p[2] + (n % h) - PatchT) % NumTheta>>
    IN  SelectSeq([n \in 1 .. r * r * h |-> at(n - 1)], LAMBDA s : s[1] \in Cell)

\* patch_local: the part of a patch a tile's domain holds.
PatchLocal(t, p) == {s \in Range(PatchSeq(p)) : map.free[s[1]] /\ s[1] \in Domain(t)}

\* The line between two tiles next to each other: its cells and both tiles.
Vertical(k, ty) ==
    [cells  |-> [n \in 1 .. Min({(ty + 1) * Tile, Height}) - ty * Tile |->
                    <<k * Tile, ty * Tile + n - 1>>],
     owners |-> {<<k - 1, ty>>, <<k, ty>>}]
Horizontal(k, tx) ==
    [cells  |-> [n \in 1 .. Min({(tx + 1) * Tile, Width}) - tx * Tile |->
                    <<tx * Tile + n - 1, k * Tile>>],
     owners |-> {<<tx, k - 1>>, <<tx, k>>}]
Lines ==
    [n \in 1 .. (Tnx - 1) * Tny |-> Vertical(1 + (n - 1) \div Tny, (n - 1) % Tny)] \o
    [n \in 1 .. (Tny - 1) * Tnx |-> Horizontal(1 + (n - 1) \div Tnx, (n - 1) % Tnx)]

\* run_positions: every run of free cells of a line gets at least one place.
Places(cfg, line) ==
    LET n == Len(line.cells)
        isFree(i) == i \in 1 .. n /\ map.free[line.cells[i]]
        runs == {r \in (1 .. n) \X (1 .. n) :
                    /\ r[1] <= r[2] /\ \A i \in r[1] .. r[2] : isFree(i)
                    /\ ~isFree(r[1] - 1) /\ ~isFree(r[2] + 1)}
        spread(a, len) ==
            LET k == Max({1, CeilDiv(len, cfg.spacing)})
            IN  {a + ((2 * i + 1) * len) \div (2 * k) : i \in 0 .. k - 1}
        at == UNION {spread(r[1], r[2] - r[1] + 1) : r \in runs}
    IN  [i \in 1 .. Cardinality(at) |-> line.cells[SetToSortSeq(at, <)[i]]]

\* place_xy: at every place one portal per heading.
Headings(cfg) ==
    LET k == Max({1, Min({cfg.thetas, NumTheta})})
    IN  [i \in 1 .. k |-> ((i - 1) * NumTheta) \div k]
LinePortals(cfg, line) ==
    LET places == Places(cfg, line)
        hs == Headings(cfg)
    IN  FlattenSeq([i \in DOMAIN places |-> [j \in DOMAIN hs |-> <<places[i], hs[j]>>]])

\* place_portals: a portal two lines share is listed once.
PlacePortals(cfg) ==
    LET perLine == [i \in DOMAIN Lines |-> LinePortals(cfg, Lines[i])]
        portals == FoldLeft(LAMBDA seq, p : IF p \in Range(seq) THEN seq ELSE Append(seq, p),
                            <<>>, FlattenSeq(perLine))
        listed(t) == UNION {Range(perLine[i]) : i \in {j \in DOMAIN Lines : t \in Lines[j].owners}}
    IN  [portals |-> portals,
         tiles   |-> [t \in Range(AllTiles) |-> [portals |-> listed(t), w |-> <<>>]]]

-----------------------------------------------------------------------------
(* The small solve of one tile.                                            *)

\* clamp_unreached: from ReachThresh up a cost means "not reached".
Clamp(v) == IF v >= ReachThresh THEN MaxCost ELSE v
Differ(u, v) == IF Clamp(u) < Clamp(v) THEN Clamp(v) - Clamp(u) ELSE Clamp(u) - Clamp(v)

\* hydrate and pin: outside its domain a tile may not go; unpinned states start
\* from TILE_INIT, which no sum wraps around, instead of MaxCost.
TileMap(t, pinned) ==
    [free  |-> [c \in Cell |-> map.free[c] /\ c \in Domain(t)], pen |-> map.pen,
     final |-> pinned]
TileStart(pins) ==
    [val |-> [s \in State |-> IF s \in DOMAIN pins THEN pins[s] ELSE ReachThresh],
     act |-> [s \in State |-> None]]

\* Rows and columns upwards in even passes, downwards in odd ones.
PassOrder(t, pass) ==
    LET cells == Width * Height
        at(n) == <<CellAt(IF pass % 2 = 0 THEN n \div NumTheta
                          ELSE cells - 1 - n \div NumTheta), n % NumTheta>>
    IN  SelectSeq([n \in 1 .. cells * NumTheta |-> at(n - 1)], LAMBDA s : s[1] \in Domain(t))

\* solve_gs: passes until for Stable of them nothing has changed by more than
\* Tol, in the whole domain, or in the watched states if there are any.  A
\* watched state that is not reached yet is not stable.
SolveGs(t, m, f, watch) ==
    LET judged(n, old, g) ==
            LET quiet == \A s \in State : Differ(old.f.val[s], g.val[s]) <= Tol
                moved == {s \in watch : Differ(g.val[s], old.prev[s]) > Tol}
                prev == [s \in watch |-> IF s \in moved THEN Clamp(g.val[s]) ELSE old.prev[s]]
                calm == IF watch = {} THEN quiet
                        ELSE /\ moved = {} /\ n >= 3
                             /\ quiet \/ \E s \in watch : prev[s] < ReachThresh
            IN  [f |-> g, prev |-> prev, stable |-> IF calm THEN old.stable + 1 ELSE 0]
        pass(n, old) == With(SweepOver(m, old.f, PassOrder(t, n - 1)), LAMBDA g : judged(n, old, g))
    IN  Iterate(LAMBDA n, old : IF old.stable >= Stable THEN old ELSE pass(n, old),
                [f |-> f, prev |-> [s \in watch |-> Clamp(f.val[s])], stable |-> 0], TileMaxIter).f

\* polish_decrease_only: only lower costs are written.
Polish(t, m, f) ==
    LET lower(h, s) ==
            LET b == MinActionCost(s, h.val, m.free, m.pen)
            IN  IF Evaluated(m, s) /\ b.cost < h.val[s]
                THEN [val |-> [h.val EXCEPT ![s] = b.cost], act |-> [h.act EXCEPT ![s] = b.action]]
                ELSE h
        pass(n, old) ==
            LET order == PassOrder(t, n - 1)
                g == Iterate(LAMBDA k, h : lower(h, order[k]), old.f, Len(order))
            IN  [f     |-> g, moved |-> \E s \in State : Differ(old.f.val[s], g.val[s]) > Tol]
    IN  Iterate(LAMBDA n, old : IF old.moved THEN pass(n, old) ELSE old,
                [f |-> f, moved |-> TRUE], TileMaxIter).f

\* patch_max: the cost of a portal bounds all of its patch.
PatchMax(t, f, p) ==
    IF PatchLocal(t, p) = {} THEN MaxCost
    ELSE Max({Clamp(f.val[s]) : s \in PatchLocal(t, p)})

\* tile_edges: w[q][p] is the cost of p with q alone pinned.
TileEdges(t, portals) ==
    LET watch == UNION {PatchLocal(t, p) : p \in portals}
        column(q) ==
            LET pins == [s \in PatchLocal(t, q) |-> 0]
                g == SolveGs(t, TileMap(t, DOMAIN pins), TileStart(pins), watch)
            IN  [p \in portals |-> IF p = q THEN 0 ELSE PatchMax(t, g, p)]
    IN  [portals |-> portals, w |-> [q \in portals |-> column(q)]]

\* vi_pass: one thread per state, all in place.  A thread may read what others of
\* its pass have written or not; these are the two ends of it: threads that all
\* read first, and threads that run one after the other.
GpuPass(t, m, f, late) ==
    IF late
    THEN [f EXCEPT !.val = [s \in State |->
             IF Evaluated(m, s) THEN MinActionCost(s, f.val, m.free, m.pen).cost ELSE f.val[s]]]
    ELSE SweepOver(m, f, PassOrder(t, 0))

\* The pass loop of build_gpu: the watched states are judged every JudgeEvery
\* passes, with the largest fall since; a rise is not counted.
SolveGpu(t, m, f, watch, late) ==
    LET fall(u, v) == IF Clamp(u) > Clamp(v) THEN Clamp(u) - Clamp(v) ELSE 0
        judged(n, old, g) ==
            LET quiet == old.quiet /\ \A s \in State : fall(old.f.val[s], g.val[s]) <= Tol
                moved == {s \in watch : Differ(g.val[s], old.prev[s]) > Tol}
                prev == [s \in watch |-> IF s \in moved THEN Clamp(g.val[s]) ELSE old.prev[s]]
                calm == /\ moved = {} /\ n >= 3
                        /\ quiet \/ \E s \in watch : prev[s] < ReachThresh
            IN  IF n % JudgeEvery = 0 \/ n = GpuMaxPasses
                THEN [f |-> g, prev |-> prev, quiet |-> TRUE,
                      stable |-> IF calm THEN old.stable + 1 ELSE 0]
                ELSE [old EXCEPT !.f = g, !.quiet = quiet]
        pass(n, old) == With(GpuPass(t, m, old.f, late), LAMBDA g : judged(n, old, g))
    IN  Iterate(LAMBDA n, old : IF old.stable >= Stable THEN old ELSE pass(n, old),
                [f |-> f, prev |-> [s \in watch |-> Clamp(f.val[s])], quiet |-> TRUE,
                 stable |-> 0], GpuMaxPasses).f

\* build_gpu: one problem per portal of a tile.
TileEdgesGpu(t, portals, late) ==
    LET watch == UNION {PatchLocal(t, p) : p \in portals}
        column(q) ==
            LET pins == [s \in PatchLocal(t, q) |-> 0]
                g == SolveGpu(t, TileMap(t, DOMAIN pins), TileStart(pins), watch, late)
            IN  [p \in portals |-> IF p = q THEN 0 ELSE PatchMax(t, g, p)]
    IN  [portals |-> portals, w |-> [q \in portals |-> column(q)]]

\* The final states a tile's domain holds, pinned at 0.
FinalsIn(t) == {s \in map.final : s[1] \in Domain(t)}

\* The Dijkstra runs of a query: on which configuration, confined to the corridor?
Jobs ==
    IF query.kind = "solve" THEN <<[cfg |-> 1, confined |-> FALSE]>>
    ELSE <<[cfg |-> 1, confined |-> FALSE], [cfg |-> 2, confined |-> FALSE],
           [cfg |-> 2, confined |-> TRUE]>>
PortalsOf(j) == Range(art[Jobs[j].cfg].portals)

\* pin, pin_patch: the costs a state of a tile is pinned at, 0 if it is final and
\* that of every portal whose patch has it; the least of them counts.
Pins(t, known) ==
    LET costs(s) == {0 : f \in FinalsIn(t) \cap {s}} \cup
                    {dij[k[1]].d[k[2]] : k \in {l \in known : s \in PatchLocal(t, l[2])}}
    IN  [s \in FinalsIn(t) \cup UNION {PatchLocal(t, k[2]) : k \in known} |-> Min(costs(s))]

\* solve_tile: pinned are the final states and the patches of the portals of the
\* given jobs.  Then the patches are released and polished.
SolveTile(t, jobs) ==
    LET known == {<<j, p>> \in UNION {{j} \X art[Jobs[j].cfg].tiles[t].portals : j \in jobs} :
                     dij[j].d[p] < MaxCost}
        pins == Pins(t, known)
        polished(g) ==
            IF DOMAIN pins = FinalsIn(t) THEN g ELSE Polish(t, TileMap(t, FinalsIn(t)), g)
    IN  With(SolveGs(t, TileMap(t, DOMAIN pins), TileStart(pins), {}), polished)

\* tile_diffs: what a tile has found, its final states left out.  A tile without
\* any pin is not solved, and finds nothing.
TileDiffs(t, jobs) ==
    LET found(g) == {s \in State : /\ g.val[s] < ReachThresh
                                   /\ s[1] \in Domain(t) /\ s \notin map.final}
    IN  With(SolveTile(t, jobs), LAMBDA g : [s \in found(g) |-> <<g.val[s], g.act[s]>>])

\* Mutant: the lower cost wins, the last action stays.
MergeDiffsApart(f, diff) ==
    LET found == {s \in DOMAIN diff : s \notin map.final}
    IN  [val |-> [s \in State |-> IF s \in found THEN Min({diff[s][1], f.val[s]}) ELSE f.val[s]],
         act |-> [s \in State |-> IF s \in found THEN diff[s][2] ELSE f.act[s]]]

\* merge_diffs: the lower cost wins, with its action.
MergeDiffs(f, diff) ==
    LET better == {s \in DOMAIN diff : s \notin map.final /\ diff[s][1] < f.val[s]}
    IN  [val |-> [s \in State |-> IF s \in better THEN diff[s][1] ELSE f.val[s]],
         act |-> [s \in State |-> IF s \in better THEN diff[s][2] ELSE f.act[s]]]

\* fix_portal_actions: a patch state that has no action gets the best one all of
\* whose outcomes are reached, and keeps its cost if that is lower.
FixPortal(f, s) ==
    LET sound(a) == \A o \in Trans[s[2]][a] :
                        /\ Target(s, o) \in Cell /\ map.free[Target(s, o)]
                        /\ f.val[<<Target(s, o), o.th>>] < ReachThresh
        q(a) == ActionCost(s, a, f.val, map.free, map.pen)
        usable == {a \in Action : sound(a)}
        best == Least({q(a) : a \in usable})
    IN  IF Evaluated(map, s) /\ f.act[s] = None /\ usable # {} /\ best < ReachThresh
        THEN [val |-> [f.val EXCEPT ![s] = Min({best, @})],
              act |-> [f.act EXCEPT ![s] = Least({a \in usable : q(a) = best})]]
        ELSE f

-----------------------------------------------------------------------------
\* is_pristine: otherwise the precomputed costs bound nothing.
Pristine(w) ==
    ~w.local /\ \A s \in State : s \in w.map.final \/ w.start.val[s] = MaxCost

Shares(seq) ==
    LET chunk == Max({1, CeilDiv(Len(seq), NThreads)})
    IN  [w \in 1 .. NThreads |-> SubSeq(seq, (w - 1) * chunk + 1, Min({w * chunk, Len(seq)}))]

Valued(v) == {c \in Cell : \E th \in Theta : v[<<c, th>>] < MaxCost}

\* schur_solve_observed: a field that is not pristine gets ordinary rounds.
Init ==
    /\ \E w \in Worlds :
          /\ world = [map |-> w.map, pristine |-> Pristine(w), oracle |-> Original(w.map, w.start)]
          /\ val = w.start.val /\ act = w.start.act
    /\ query \in {q \in Queries : q.kind = "corridor" => world.pristine}
    /\ phase = IF world.pristine THEN "place" ELSE "round"
    /\ art = <<>> /\ thr = Shares(<<>>) /\ diffs = Shares(<<>>)
    /\ job = 1 /\ dij = <<>> /\ seeds = <<>> /\ heap = {} /\ mask = Range(AllTiles)
    /\ front = IF world.pristine THEN {} ELSE Valued(val)
    /\ iters = 0 /\ outcome = "running"

\* build, once per configuration of the query.
Place ==
    /\ phase = "place"
    /\ art' = Append(art, PlacePortals(Configs[Len(art) + 1]))
    /\ thr' = IF query.build = "cpu" THEN Shares(AllTiles)
              ELSE [Shares(<<>>) EXCEPT ![1] = AllTiles]
    /\ phase' = "build"
    /\ UNCHANGED <<world, query, val, act, diffs, job, dij, seeds, heap, mask, front, iters, outcome>>

BuildTile(w) ==
    /\ phase = "build" /\ query.build = "cpu" /\ thr[w] # <<>>
    /\ LET t == Head(thr[w])
       IN  art' = [art EXCEPT ![Len(art)].tiles[t] = TileEdges(t, @.portals)]
    /\ thr' = [thr EXCEPT ![w] = Tail(@)]
    /\ UNCHANGED <<world, query, val, act, phase, diffs, job, dij, seeds, heap, mask, front, iters,
                   outcome>>

BuildTileGpu ==
    /\ phase = "build" /\ query.build = "gpu" /\ thr[1] # <<>>
    /\ LET t == Head(thr[1])
       IN  \E late \in BOOLEAN :
             art' = [art EXCEPT ![Len(art)].tiles[t] = TileEdgesGpu(t, @.portals, late)]
    /\ thr' = [thr EXCEPT ![1] = Tail(@)]
    /\ UNCHANGED <<world, query, val, act, phase, diffs, job, dij, seeds, heap, mask, front, iters,
                   outcome>>

Idle == \A w \in DOMAIN thr : thr[w] = <<>>

\* The start of a Dijkstra run: the goal tiles that have portals, in order.
StartJob(j, tiles) ==
    /\ job' = j
    /\ dij' = Append(dij, [d      |-> [p \in Range(art[Jobs[j].cfg].portals) |-> MaxCost],
                           parent |-> [p \in Range(art[Jobs[j].cfg].portals) |-> None],
                           via    |-> [p \in Range(art[Jobs[j].cfg].portals) |-> None]])
    /\ seeds' = SelectSeq(AllTiles, LAMBDA t : /\ FinalsIn(t) # {} /\ t \in tiles
                                               /\ art[Jobs[j].cfg].tiles[t].portals # {})
    /\ heap' = {}
    /\ phase' = "seed"

BuildJoin ==
    /\ phase = "build" /\ Idle
    /\ IF query.kind = "corridor" /\ Len(art) < Len(Configs)
       THEN phase' = "place" /\ UNCHANGED <<job, dij, seeds, heap>>
       ELSE StartJob(1, Range(AllTiles))
    /\ UNCHANGED <<world, query, val, act, art, thr, diffs, mask, front, iters, outcome>>

\* portal_costs_masked, seeding: the small solve of a goal tile.
SeedTile ==
    /\ phase = "seed" /\ seeds # <<>>
    /\ LET t == Head(seeds)
           portals == art[Jobs[job].cfg].tiles[t].portals
           pins == [s \in FinalsIn(t) |-> 0]
           g == SolveGs(t, TileMap(t, DOMAIN pins), TileStart(pins),
                        UNION {PatchLocal(t, p) : p \in portals})
           lower == {p \in portals : PatchMax(t, g, p) < dij[job].d[p]}
       IN  dij' = [dij EXCEPT ![job] =
                     [@ EXCEPT !.d = [p \in DOMAIN @ |->
                                         IF p \in lower THEN PatchMax(t, g, p) ELSE @[p]],
                               !.via = [p \in DOMAIN @ |-> IF p \in lower THEN t ELSE @[p]]]]
    /\ seeds' = Tail(seeds)
    /\ UNCHANGED <<world, query, val, act, phase, art, thr, diffs, job, heap, mask, front, iters,
                   outcome>>

SeedsDone ==
    /\ phase = "seed" /\ seeds = <<>>
    /\ heap' = {<<dij[job].d[p], p>> : p \in {q \in PortalsOf(job) : dij[job].d[q] < MaxCost}}
    /\ phase' = "graph"
    /\ UNCHANGED <<world, query, val, act, art, thr, diffs, job, dij, seeds, mask, front, iters,
                   outcome>>

IndexOf(p) == CHOOSE i \in DOMAIN art[Jobs[job].cfg].portals : art[Jobs[job].cfg].portals[i] = p
LeastLabel ==
    CHOOSE l \in heap : \A k \in heap : l[1] < k[1] \/ (l[1] = k[1] /\ IndexOf(l[2]) <= IndexOf(k[2]))

\* One portal popped: every tile that lists it, in the corridor if there is one,
\* offers its other portals the way across.
PopPortal ==
    /\ phase = "graph" /\ heap # {}
    /\ LET l == LeastLabel
           p == l[2]
           d == dij[job].d
           usable == {t \in Range(AllTiles) : /\ p \in art[Jobs[job].cfg].tiles[t].portals
                                              /\ Jobs[job].confined => t \in mask}
           w(t, q) == art[Jobs[job].cfg].tiles[t].w[p][q]
           offers(q) == {t \in usable : /\ q \in art[Jobs[job].cfg].tiles[t].portals
                                        /\ w(t, q) < MaxCost /\ w(t, q) + l[1] < MaxCost
                                        /\ w(t, q) + l[1] < d[q]}
           \* The cheapest crossing, of several the tile that comes first.
           way(q) == CHOOSE t \in offers(q) : \A u \in offers(q) :
                        w(t, q) < w(u, q) \/ (w(t, q) = w(u, q) /\ (t[2] * Tnx + t[1] <= u[2] * Tnx + u[1]))
           lower == {q \in PortalsOf(job) : offers(q) # {}}
       IN  IF l[1] > d[p]
           THEN heap' = heap \ {l} /\ UNCHANGED dij
           ELSE /\ dij' = [dij EXCEPT ![job] =
                     [d      |-> [q \in DOMAIN d |-> IF q \in lower THEN w(way(q), q) + l[1] ELSE d[q]],
                      parent |-> [q \in DOMAIN d |-> IF q \in lower THEN p ELSE dij[job].parent[q]],
                      via    |-> [q \in DOMAIN d |-> IF q \in lower THEN way(q) ELSE dij[job].via[q]]]]
                /\ heap' = (heap \ {l}) \cup
                     {<<w(t, q) + l[1], q>> : <<t, q>> \in {<<way(r), r>> : r \in lower}}
    /\ UNCHANGED <<world, query, val, act, phase, art, thr, diffs, job, seeds, mask, front, iters,
                   outcome>>

\* corridor_tiles: the robot's tile, the tiles by which the coarse tree leads from
\* its portals to the goal, and the tiles around these.
Corridor ==
    LET step[n \in 0 .. Len(art[1].portals)] ==
            IF n = 0 THEN {p \in art[1].tiles[query.from].portals : dij[1].d[p] < MaxCost}
            ELSE step[n - 1] \cup ({dij[1].parent[p] : p \in step[n - 1]} \ {None})
        passed == {query.from} \cup
                  ({dij[1].via[p] : p \in step[Len(art[1].portals)]} \ {None})
    IN  {t \in Range(AllTiles) : \E u \in passed :
            \A i \in {1, 2} : t[i] - u[i] \in -Widen .. Widen}

GraphDone ==
    /\ phase = "graph" /\ heap = {}
    /\ mask' = IF job = 2 THEN Corridor ELSE mask
    /\ IF job < Len(Jobs)
       THEN /\ StartJob(job + 1, mask')
            /\ UNCHANGED thr
       ELSE /\ thr' = Shares(IF query.kind = "solve" THEN AllTiles ELSE <<>>)
            /\ phase' = IF query.kind = "solve" THEN "tiles" ELSE "one"
            /\ UNCHANGED <<job, dij, seeds, heap>>
    /\ UNCHANGED <<world, query, val, act, art, diffs, front, iters, outcome>>

\* materialize_many: the threads solve tiles from vi.states as it is, and only
\* then is what they found merged, thread by thread.
SolveOneTile(w) ==
    /\ phase = "tiles" /\ thr[w] # <<>>
    /\ diffs' = [diffs EXCEPT ![w] = Append(@, TileDiffs(Head(thr[w]), {1}))]
    /\ thr' = [thr EXCEPT ![w] = Tail(@)]
    /\ UNCHANGED <<world, query, val, act, phase, art, job, dij, seeds, heap, mask, front, iters,
                   outcome>>

Merge ==
    /\ phase = "tiles" /\ Idle
    /\ LET f == FoldLeft(MergeDiffs, Field, FlattenSeq(diffs))
       IN  val' = f.val /\ act' = f.act
    /\ diffs' = Shares(<<>>)
    /\ phase' = "fix"
    /\ UNCHANGED <<world, query, art, thr, job, dij, seeds, heap, mask, front, iters, outcome>>

Ending(flow) == IF flow = "Stop" THEN "stopped" ELSE "cancelled"
Due(n) == n % Interval = 0

\* fix_portal_actions, the first boundary, and the seeds of the exact rounds.
FixPortals ==
    /\ phase = "fix"
    /\ LET patches == FlattenSeq([i \in DOMAIN art[1].portals |-> PatchSeq(art[1].portals[i])])
           f == FoldLeft(FixPortal, Field, patches)
       IN  /\ val' = f.val /\ act' = f.act
           /\ front' = Valued(f.val)
    /\ iters' = 1
    /\ \E flow \in IF Due(1) THEN Flows ELSE {"Continue"} :
         IF flow = "Continue"
         THEN phase' = "round" /\ UNCHANGED outcome
         ELSE phase' = "done" /\ outcome' = Ending(flow)
    /\ UNCHANGED <<world, query, art, thr, diffs, job, dij, seeds, heap, mask>>

\* Mutant: the fine portals replace the coarse ones.
SolveRobotTileFine ==
    /\ phase = "one"
    /\ \E f \in {MergeDiffs(Field, d) : d \in {TileDiffs(query.from, {3})}} :
          val' = f.val /\ act' = f.act
    /\ phase' = "done" /\ outcome' = "one_tile"
    /\ UNCHANGED <<world, query, art, thr, diffs, job, dij, seeds, heap, mask, front, iters>>

\* materialize_one_multi: the robot's tile from the coarse and the fine portals.
SolveRobotTile ==
    /\ phase = "one"
    /\ \E f \in {MergeDiffs(Field, d) : d \in {TileDiffs(query.from, {1, 3})}} :
          val' = f.val /\ act' = f.act
    /\ phase' = "done" /\ outcome' = "one_tile"
    /\ UNCHANGED <<world, query, art, thr, diffs, job, dij, seeds, heap, mask, front, iters>>

\* Mutant: only the cells that moved are looked at again.
ExactRoundNarrow ==
    /\ phase = "round" /\ front # {} /\ iters < MaxIter
    /\ LET cells == Enumerate(front)
           states == FlattenSeq([i \in DOMAIN cells |->
                         [n \in 1 .. NumTheta |-> <<cells[i], n - 1>>]])
           f == SweepOver(map, Field, states)
       IN  /\ val' = f.val /\ act' = f.act
           /\ front' = {c \in Cell : \E th \in Theta : f.val[<<c, th>>] # val[<<c, th>>]}
    /\ iters' = iters + 1
    /\ \E flow \in IF front' # {} /\ Due(iters') THEN Flows ELSE {"Continue"} :
         IF flow = "Continue" THEN UNCHANGED <<phase, outcome>>
         ELSE phase' = "done" /\ outcome' = Ending(flow)
    /\ UNCHANGED <<world, query, art, thr, diffs, job, dij, seeds, heap, mask>>

\* exactify, frontier2d_solve_observed: one round.
ExactRound ==
    /\ phase = "round" /\ front # {} /\ iters < MaxIter
    /\ LET cells == Enumerate(Dilate(front))
           states == FlattenSeq([i \in DOMAIN cells |->
                         [n \in 1 .. NumTheta |-> <<cells[i], n - 1>>]])
           f == SweepOver(map, Field, states)
       IN  /\ val' = f.val /\ act' = f.act
           /\ front' = {c \in Cell : \E th \in Theta : f.val[<<c, th>>] # val[<<c, th>>]}
    /\ iters' = iters + 1
    /\ \E flow \in IF front' # {} /\ Due(iters') THEN Flows ELSE {"Continue"} :
         IF flow = "Continue" THEN UNCHANGED <<phase, outcome>>
         ELSE phase' = "done" /\ outcome' = Ending(flow)
    /\ UNCHANGED <<world, query, art, thr, diffs, job, dij, seeds, heap, mask>>

EndRounds ==
    /\ phase = "round" /\ (front = {} \/ iters >= MaxIter)
    /\ phase' = "done" /\ outcome' = IF front = {} THEN "converged" ELSE "exhausted"
    /\ UNCHANGED <<world, query, val, act, art, thr, diffs, job, dij, seeds, heap, mask, front, iters>>

Worker(w) == BuildTile(w) \/ SolveOneTile(w)
Caller ==
    \/ Place \/ BuildTileGpu \/ BuildJoin \/ SeedTile \/ SeedsDone \/ PopPortal \/ GraphDone
    \/ Merge \/ FixPortals \/ SolveRobotTile \/ ExactRound \/ EndRounds

Next == Caller \/ \E w \in 1 .. NThreads : Worker(w)
Spec == Init /\ [][Next]_vars

-----------------------------------------------------------------------------
(* Properties.                                                             *)

\* schur.rs:1287, "the upper bound field": from a pristine field no cost that the
\* tiles, the portals or the rounds produce is below the state's true cost, and
\* no unreachable state gets one.  A portal's cost bounds its whole patch.
UpperBound ==
    world.pristine =>
        /\ \A s \in State : val[s] < ReachThresh => world.oracle.val[s] <= val[s]
        /\ \A j \in DOMAIN dij : \A p \in PortalsOf(j) :
               dij[j].d[p] < MaxCost =>
                   \A s \in Range(PatchSeq(p)) :
                       map.free[s[1]] => world.oracle.val[s] <= dij[j].d[p]

\* solve_with_reaches_reference_fixed_point: the exact rounds, which start from
\* costs that only have to come down, end with the original's costs and actions.
ConvergedIsOriginal ==
    outcome = "converged" =>
        \A s \in State :
            world.oracle.val[s] < ReachThresh =>
                val[s] = world.oracle.val[s] /\ act[s] = world.oracle.act[s]

\* two_level_corridor_query_is_sound: confined to the corridor the fine portals
\* cost no less than on the whole map, and adding them to the coarse ones makes
\* no cost of the robot's tile worse.
CorridorIsSound ==
    outcome = "one_tile" =>
        /\ \A p \in PortalsOf(2) : dij[2].d[p] <= dij[3].d[p]
        /\ LET coarse == TileDiffs(query.from, {1})
           IN  \A s \in DOMAIN coarse : val[s] <= coarse[s][1]

\* schur.rs:1133, "Q(s, a(s)) <= V(s) is kept": in the merged field an action is
\* worth the cost it is stored with, so that following actions leads downhill.
MergedFieldDescends ==
    phase = "fix" =>
        \A s \in State :
            (act[s] # None /\ s \notin map.final) =>
                ActionCost(s, act[s], val, map.free, map.pen) <= val[s]
=============================================================================
