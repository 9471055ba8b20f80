----------------------------- MODULE VramLearn -----------------------------
(***************************************************************************)
(* What the app has learned about the memory engines need: the rows of     *)
(* learned-vram.json for one model, provider, KV quant, split and topology,*)
(* how launches change them, and the three readers of the figures (the     *)
(* card of one configuration, the curve over the contexts, the plan).      *)
(* Every command holds STORE_MUTEX from its load to its save, and the save *)
(* is atomic, so each is one step.                                         *)
(***************************************************************************)
EXTENDS Integers, FiniteSets

CONSTANTS
    RowKeys,      \* fingerprints: records [ctx, ub, par, ram], ram 0: cache_ram off
    BatchSizes,   \* values of --batch, kept out of the key
    Specs,        \* spec/draft identities, kept out of the key; "none" among them
    Measures,     \* measurements: [v, h], MiB on the GPUs and on the host
    MaxMeasures   \* bound: measurements, each with a time stamp of its own

NoHost == -1     \* host_mib: None

(* learned_vram_key: what of a launch's parameters tells the rows apart *)
Fingerprints == [ctx : Nat, ub : Nat \ {0}, par : Nat \ {0}, ram : {0, 1}]
NoMeasure == [v |-> 0, h |-> NoHost, at |-> 0]   \* at 0: none, for deltas too

ASSUME VramLearnAssumption ==
    /\ RowKeys \subseteq Fingerprints /\ "" \notin Specs
    /\ BatchSizes \subseteq Nat \ {0} /\ MaxMeasures \in Nat
    /\ \A m \in Measures : m.v \in Nat /\ m.h \in Nat \cup {NoHost}

VARIABLES
    learned,   \* key -> row, for the keys that have one
    clock,     \* the last time stamp given
    need,      \* history: key -> the measurement the row's figures should show
    last       \* history: the last measurement, if it counted and nothing was pruned since

learnVars == <<learned, clock, need, last>>

HostOr0(h) == IF h = NoHost THEN 0 ELSE h

(* the row or_insert_with makes; batch 0 and spec "": no reference yet *)
NewRow == [base |-> NoMeasure, snap |-> NoMeasure, tried |-> NoMeasure, batch |-> 0, spec |-> "", at |-> 0,
           batches |-> [b \in BatchSizes |-> NoMeasure], specs |-> [s \in Specs |-> NoMeasure],
           joints |-> [p \in BatchSizes \X Specs |-> NoMeasure]]
Row(k) == IF k \in DOMAIN learned THEN learned[k] ELSE NewRow

(* is_spill_downgrade: less on the GPU, more on the host *)
IsSpill(old, new) ==
    old.v > 0 /\ new.v + 1 < old.v /\ HostOr0(new.h) > HostOr0(old.h) + 1

(* paint_vram_mib, paint_host_mib, paint_gpu_breakdown_mib: each asks again *)
(* whether the launch or the primary counts; at stands for the breakdown    *)
Launched(r) == r.snap.at # 0
Paint(r) ==
    LET snap == Launched(r) /\ ~IsSpill(r.base, r.snap) IN
    [v |-> IF snap /\ r.snap.v > 0 THEN r.snap.v ELSE r.base.v,
     h |-> IF snap THEN r.snap.h ELSE r.base.h, at |-> IF snap THEN r.snap.at ELSE r.base.at]

-----------------------------------------------------------------------------
(* Writers *)

LearnInit == learned = <<>> /\ clock = 0 /\ need = <<>> /\ last = NoMeasure

(* batch_reference_matches, spec_reference_matches: the first measurement of *)
(* a row becomes its reference                                               *)
Referenced(r, batch, spec) ==
    [r EXCEPT !.batch = IF @ = 0 THEN batch ELSE @, !.spec = IF @ = "" THEN spec ELSE @]
AtReference(r, batch, spec) == r.batch = batch /\ r.spec = spec

Difference(r, m) ==
    [v |-> m.v - Paint(r).v, h |-> IF m.h = NoHost THEN NoHost ELSE m.h - HostOr0(Paint(r).h), at |-> m.at]

\* variant: a run that differs in both knobs is charged to each of them
WithDeltaTwice(r, batch, spec, m) ==
    [r EXCEPT !.batches = IF r.batch # batch THEN [@ EXCEPT ![batch] = Difference(r, m)] ELSE @,
              !.specs = IF r.spec # spec THEN [@ EXCEPT ![spec] = Difference(r, m)] ELSE @]

(* record_batch_delta, record_spec_delta, record_joint_delta *)
WithDelta(r, batch, spec, m) ==
    IF r.batch # batch /\ r.spec # spec THEN [r EXCEPT !.joints[<<batch, spec>>] = Difference(r, m)]
    ELSE IF r.batch # batch THEN [r EXCEPT !.batches[batch] = Difference(r, m)]
    ELSE [r EXCEPT !.specs[spec] = Difference(r, m)]

(* should_promote_fit_primary *)
MayPromote(r, t) == ~Launched(r) /\ (r.base.v <= 0 \/ t.v + 1 >= r.base.v)

(* a table of append_fit_breakdown_tables; one that repeats the last attempt *)
(* only renews its time                                                      *)
WithTable(r, t) ==
    IF r.tried.at # 0 /\ r.tried.v = t.v /\ r.tried.h = t.h THEN [r EXCEPT !.at = t.at]
    ELSE [r EXCEPT !.tried = t, !.at = t.at, !.base = IF MayPromote(r, t) THEN t ELSE @]

(* record_launch_memory_snapshot *)
WithLaunch(r, m) ==
    [r EXCEPT !.snap = m, !.at = m.at, !.base = IF IsSpill(r.base, m) THEN @ ELSE m]

(* Persist r as the row of k after measurement m of a run with these knobs *)
Save(k, r, batch, spec, m, counts) ==
    /\ learned' = [j \in DOMAIN learned \cup {k} |-> IF j = k THEN r ELSE learned[j]]
    /\ clock' = clock + 1
    /\ last' = IF counts THEN [v |-> m.v, at |-> m.at, key |-> k, batch |-> batch, spec |-> spec] ELSE NoMeasure
Needs(k, m) == need' = [j \in DOMAIN need \cup {k} |-> IF j = k THEN m ELSE need[j]]
NeedOf(k) == IF k \in DOMAIN need THEN need[k] ELSE NoMeasure

Measured(m) == [v |-> m.v, h |-> m.h, at |-> clock + 1]

(* what the log hub hands on: tables that are not empty, inventories with a  *)
(* host figure                                                               *)
IsTable(t) == t.v > 0
IsInventory(m) == m.h # NoHost

(* a breakdown table of a run's --fit search or of its exit; several new     *)
(* tables are as good as several calls                                       *)
AppendTable(k, batch, spec, table) ==
    LET r == Referenced(Row(k), batch, spec)
        m == Measured(table) IN
    /\ clock < MaxMeasures /\ IsTable(table)
    /\ IF AtReference(r, batch, spec)
       THEN LET new == WithTable(r, m) IN
            /\ Save(k, new, batch, spec, m, Paint(new).at = m.at)
            /\ Needs(k, IF Launched(r) THEN NeedOf(k) ELSE Paint(new))
       ELSE Save(k, WithDelta(r, batch, spec, m), batch, spec, m, TRUE) /\ UNCHANGED need

(* the buffer inventory of a run that has loaded *)
RecordLaunch(k, batch, spec, found) ==
    LET r == Referenced(Row(k), batch, spec)
        m == Measured(found) IN
    /\ clock < MaxMeasures /\ IsInventory(m)
    /\ IF AtReference(r, batch, spec)
       THEN LET kept == IsSpill(NeedOf(k), m) IN
            /\ Save(k, WithLaunch(r, m), batch, spec, m, ~kept)
            /\ Needs(k, IF kept THEN NeedOf(k) ELSE m)
       ELSE Save(k, WithDelta(r, batch, spec, m), batch, spec, m, TRUE) /\ UNCHANGED need

(* prune_learned_vram_curve: every row at these contexts *)
Prune(ctxs) ==
    LET keep == {k \in DOMAIN learned : k.ctx \notin ctxs} IN
    /\ keep # DOMAIN learned
    /\ learned' = [k \in keep |-> learned[k]] /\ need' = [k \in keep |-> need[k]]
    /\ last' = NoMeasure /\ UNCHANGED clock

LearnNext ==
    \/ \E k \in RowKeys, batch \in BatchSizes, spec \in Specs, m \in Measures :
          AppendTable(k, batch, spec, m) \/ RecordLaunch(k, batch, spec, m)
    \/ \E c \in {k.ctx : k \in RowKeys} : Prune({c})
LearnSpec == LearnInit /\ [][LearnNext]_learnVars

-----------------------------------------------------------------------------
(* Readers.  An answer is a set of at most one figure unless two rows tie. *)

Newest(S) == {x \in S : \A y \in S : y.at <= x.at}

(* interpolate_spec_delta over points [ctx, d], in whole MiB *)
Between(x, y, part, whole) == x + ((y - x) * part) \div whole
Interpolated(points, ctx) ==
    LET below == {p \in points : p.ctx <= ctx}
        above == {p \in points : p.ctx >= ctx}
        Lowest(S) == CHOOSE p \in S : \A q \in S : p.ctx <= q.ctx
        Highest(S) == CHOOSE p \in S : \A q \in S : p.ctx >= q.ctx
        l == IF below = {} THEN Lowest(above) ELSE Highest(below)
        u == IF above = {} THEN Highest(below) ELSE Lowest(above) IN
    IF points = {} THEN {}
    ELSE IF l.ctx = u.ctx \/ below = {} \/ above = {} THEN {[v |-> l.d.v, h |-> HostOr0(l.d.h)]}
    ELSE {[v |-> Between(l.d.v, u.d.v, ctx - l.ctx, u.ctx - l.ctx),
           h |-> Between(HostOr0(l.d.h), HostOr0(u.d.h), ctx - l.ctx, u.ctx - l.ctx)]}

(* find_batch_delta, find_spec_delta_points, find_joint_delta_points: over  *)
(* the rows of every ubatch and slot count (a pair names its ubatch)        *)
BatchDelta(batch, ub) ==
    Newest({d \in {learned[k].batches[batch] : k \in {j \in DOMAIN learned : j.ub = ub}} : d.at # 0})
NewestPerCtx(points) == {p \in points : \A q \in points : q.ctx = p.ctx => q.d.at <= p.d.at}
SpecPoints(spec) ==
    NewestPerCtx({p \in {[ctx |-> k.ctx, d |-> learned[k].specs[spec]] : k \in DOMAIN learned} : p.d.at # 0})
JointPoints(batch, ub, spec) ==
    NewestPerCtx({p \in {[ctx |-> k.ctx, d |-> learned[k].joints[<<batch, spec>>]] :
                            k \in {j \in DOMAIN learned : j.ub = ub}} : p.d.at # 0})

(* the additions get_learned_vram_curve makes to a row: {} drops the point *)
Additions(k, batch, spec) ==
    LET r == learned[k]
        none == [v |-> 0, h |-> 0]
        own == IF r.batches[batch].at # 0 THEN {r.batches[batch]} ELSE BatchDelta(batch, k.ub)
        forBatch == IF r.batch = batch \/ own = {} THEN {none} ELSE {[v |-> d.v, h |-> HostOr0(d.h)] : d \in own}
        forSpec == IF r.spec = spec THEN {none} ELSE Interpolated(SpecPoints(spec), k.ctx)
        joint == IF r.batch # batch /\ r.spec # spec THEN Interpolated(JointPoints(batch, k.ub, spec), k.ctx) ELSE {} IN
    IF joint # {} THEN joint ELSE {[v |-> b.v + s.v, h |-> b.h + s.h] : b \in forBatch, s \in forSpec}

Plus(h, extra) == IF h # NoHost THEN h + extra ELSE IF extra > 0 THEN extra ELSE NoHost
CurveAt(ctx, batch, ub, par, spec) ==
    LET rows == {k \in DOMAIN learned : k.ctx = ctx /\ k.ub = ub /\ k.par = par}
        points == UNION {{[v |-> Paint(learned[k]).v + a.v, h |-> Plus(Paint(learned[k]).h, a.h), at |-> learned[k].at] :
                            a \in Additions(k, batch, spec)} : k \in rows} IN
    Newest({p \in points : p.v > 0})

(* lookup_learned_vram_fuzzy: the row, the row without cache_ram, then any  *)
(* row of that context and ubatch; the keys carry no spec, so the last      *)
(* search answers only for spec "none".  The any-device fallback asks for a *)
(* mode token that no key has.                                              *)
Lookup(k, spec) ==
    IF k \in DOMAIN learned THEN {learned[k]}
    ELSE IF [k EXCEPT !.ram = 0] \in DOMAIN learned THEN {learned[[k EXCEPT !.ram = 0]]}
    ELSE IF spec # "none" THEN {}
    ELSE Newest({learned[j] : j \in {i \in DOMAIN learned : i.ctx = k.ctx /\ i.ub = k.ub}})

(* get_learned_vram *)
Card(k, spec) ==
    UNION {IF r.spec \in {spec, ""} THEN {[v |-> Paint(r).v, h |-> Paint(r).h]}
           ELSE {[v |-> Paint(r).v + a.v, h |-> Plus(Paint(r).h, a.h)] : a \in Interpolated(SpecPoints(spec), k.ctx)} :
           r \in Lookup(k, spec)}

(* learned_vram_for_model_blocking: the highest exact row, else the two     *)
(* rows around the context, in whole MiB                                    *)
Plan(ctx, ub, par) ==
    LET rows == {k \in DOMAIN learned : learned[k].base.v > 0 /\ k.ub = ub /\ k.par = par}
        exact == {learned[k].base.v : k \in {j \in rows : j.ctx = ctx}}
        below == {k \in rows : k.ctx < ctx}
        above == {k \in rows : k.ctx > ctx} IN
    IF exact # {} THEN {v \in exact : \A w \in exact : w <= v}
    ELSE {Between(learned[l].base.v, learned[u].base.v, ctx - l.ctx, u.ctx - l.ctx) :
            l \in {k \in below : \A j \in below : j.ctx <= k.ctx}, u \in {k \in above : \A j \in above : j.ctx >= k.ctx}}

-----------------------------------------------------------------------------
(* Properties *)

Alone(k) == \A j \in DOMAIN learned : j.ctx = k.ctx /\ j.ub = k.ub /\ j.par = k.par => j = k

LearnTypeOK ==
    /\ DOMAIN learned \subseteq RowKeys /\ DOMAIN need \subseteq RowKeys /\ clock \in 0 .. MaxMeasures
    /\ \A k \in DOMAIN learned : learned[k].batch \in BatchSizes /\ learned[k].spec \in Specs

(* The figures a row shows come from one measurement, the last launch that  *)
(* was no spill, whatever tables, spills and other knobs were measured      *)
(* around it.                                                               *)
PaintIsNeed == \A k \in DOMAIN need : k \in DOMAIN learned => Paint(learned[k]) = need[k]

(* Card, curve and plan show the same figure for a configuration that has a *)
(* row of its own, although each finds and reads the row its own way.       *)
ReadersAgree ==
    \A k \in DOMAIN learned :
        LET r == learned[k]  p == Paint(r) IN
        Alone(k) /\ p.v > 0 =>
            /\ Card(k, r.spec) = {[v |-> p.v, h |-> p.h]} /\ Plan(k.ctx, k.ub, k.par) = {p.v}
            /\ \A c \in CurveAt(k.ctx, r.batch, k.ub, k.par, r.spec) : c.v = p.v /\ c.h = p.h
            /\ CurveAt(k.ctx, r.batch, k.ub, k.par, r.spec) # {}

(* A run that has just been measured is what the curve shows for its knobs, *)
(* also where they differ from the reference of the row in one knob or both.*)
CurveShowsLastRun ==
    last.at # 0 /\ last.v > 0 /\ Alone(last.key) =>
        LET k == last.key IN {c.v : c \in CurveAt(k.ctx, last.batch, k.ub, k.par, last.spec)} = {last.v}

LearnInv == LearnTypeOK /\ PaintIsNeed /\ ReadersAgree /\ CurveShowsLastRun
=============================================================================
