---------------------------- MODULE Configuration ----------------------------
(***************************************************************************)
(* How the proxy reads its configuration (overlaat/queue_proxy.py:         *)
(* load_caps, load_model_info, load_pools, resolve_pool_config,            *)
(* warn_if_self_protection_inert, _parse_weight_tiers, prompt_weight), and *)
(* what the scheduler later charges with it (overlaat/scheduler.py: cost,  *)
(* weighted_cost).                                                         *)
(*                                                                         *)
(* Costs and budgets are whole units, Unit of them for a cost of 1.0, and  *)
(* the caps divide Unit; the margins of 1e-9 are left out.  A knob that is *)
(* absent, of a wrong type or out of range is read as absent: 0, or "" for *)
(* a name.  The knobs that are read like the cost and used elsewhere       *)
(* (abort, prompt ceiling, breaker) are parameters of QueueProxy.          *)
(***************************************************************************)
EXTENDS Integers, Sequences, FiniteSets, FiniteSetsExt, SequencesExt, Sums

CONSTANTS
  Unit,          \* the units of a cost of 1.0
  DefaultCost,   \* OVERLAAT_DEFAULT_COST
  DefaultTiers   \* _DEFAULT_WEIGHT_TIERS

ASSUME ConfigurationAssumption == Unit \in Nat \ {0} /\ DefaultCost \in Nat \ {0}

ASSUME TiersAssumption ==
  /\ DefaultTiers \in Seq(Nat \X Nat)
  /\ DefaultTiers # <<>>
  /\ \A i, j \in DOMAIN DefaultTiers : i < j => DefaultTiers[i][1] < DefaultTiers[j][1]

Values(d) == {d[k] : k \in DOMAIN d}

-----------------------------------------------------------------------------
\* The model list: entries of one name may be repeated, and the last that
\* declares a knob has its way.  declared holds the knob of each entry, by
\* position, that declares it.
LastDeclared(entries, declared) ==
  [m \in {entries[i].name : i \in DOMAIN declared} |->
     declared[Max({i \in DOMAIN declared : entries[i].name = m})]]

LoadCaps(entries) ==
  LastDeclared(entries, [i \in {i \in DOMAIN entries : entries[i].cap > 0} |-> entries[i].cap])
LoadCosts(entries) ==
  LastDeclared(entries, [i \in {i \in DOMAIN entries : entries[i].cost > 0} |-> entries[i].cost])

\* overlaat_pool, or the deprecated overlaat_slot, whose pool is exclusive.
BySlot(e) == e.pool = "" /\ e.slot # ""
LoadPoolOf(entries) ==
  LastDeclared(entries, [i \in {i \in DOMAIN entries : entries[i].pool # "" \/ entries[i].slot # ""} |->
                           IF BySlot(entries[i]) THEN entries[i].slot ELSE entries[i].pool])
NoSeed(entries) == {}                \* mutant: the legacy slot is read as a pool only
ExclusiveSeed(entries) == {e.slot : e \in {e \in ToSet(entries) : BySlot(e)}}

-----------------------------------------------------------------------------
\* Pools: c is what was read, [entries, sections, default]; sections[p] is pool
\* p's [budget, exclusive, heavy] under overlaat.pools, and default OVERLAAT_BUDGET.
DeclaredBudgets(c) ==
  [p \in {p \in DOMAIN c.sections : c.sections[p].budget > 0} |-> c.sections[p].budget]
DeclaredExclusive(c) == {p \in DOMAIN c.sections : c.sections[p].exclusive}
FullPool(c) == {p \in DOMAIN c.sections : c.sections[p].heavy = "full_pool"}

Known(c) == DOMAIN LoadCaps(c.entries) \cup DOMAIN LoadCosts(c.entries) \cup DOMAIN LoadPoolOf(c.entries)

PoolOfModel(c, m) ==
  LET poolOf == LoadPoolOf(c.entries) IN IF m \in DOMAIN poolOf THEN poolOf[m] ELSE "default"

PoolExclusive(c) == DeclaredExclusive(c) \cup ExclusiveSeed(c.entries)

PoolBudget(c) ==
  LET declared == DeclaredBudgets(c)
      pools    == Values(LoadPoolOf(c.entries)) \cup {"default"} \cup DOMAIN declared \cup PoolExclusive(c)
  IN [p \in pools |-> IF p \in DOMAIN declared THEN declared[p] ELSE c.default]

CostFromCap(c, m) ==                 \* mutant: the guard forgets the override
  LET caps == LoadCaps(c.entries) IN IF m \in DOMAIN caps THEN Unit \div caps[m] ELSE 0

\* The cost of a model as far as it is configured, else 0.
EffectiveCost(c, m) ==
  LET costs == LoadCosts(c.entries)
      caps  == LoadCaps(c.entries)
  IN IF m \in DOMAIN costs THEN costs[m] ELSE IF m \in DOMAIN caps THEN Unit \div caps[m] ELSE 0

\* The proxy does not start with a model that could never be admitted.
Offenders(c) == {m \in Known(c) : EffectiveCost(c, m) > PoolBudget(c)[PoolOfModel(c, m)]}
Accepted(c) == Offenders(c) = {}

-----------------------------------------------------------------------------
\* Prompt-size weights: tiers are pairs <<upper bound, multiplier>>, as written.
\* sort is stable: of two equal bounds the one written first stays first.
NotAfter(written, i, j) ==
  written[i][1] < written[j][1] \/ (written[i][1] = written[j][1] /\ i <= j)
Place(written, i) == Cardinality({j \in DOMAIN written : NotAfter(written, j, i)})
SortedTiers(written) ==
  [k \in DOMAIN written |-> written[CHOOSE i \in DOMAIN written : Place(written, i) = k]]

Wellformed(written) == written # <<>> /\ \A i \in DOMAIN written : written[i][2] >= 1
ParseTiers(written) == IF Wellformed(written) THEN SortedTiers(written) ELSE DefaultTiers

Covering(tokens, tiers) == {i \in DOMAIN tiers : tokens <= tiers[i][1]}
PromptWeight(tokens, tiers) ==
  tiers[IF Covering(tokens, tiers) = {} THEN Len(tiers) ELSE Min(Covering(tokens, tiers))][2]

MaxMultiplier(tiers) == Max({tiers[i][2] : i \in DOMAIN tiers})

\* What one request of a model is charged (Scheduler.weighted_cost).
Charge(c, m, weight) ==
  LET base    == IF EffectiveCost(c, m) > 0 THEN EffectiveCost(c, m) ELSE DefaultCost
      budget  == PoolBudget(c)[PoolOfModel(c, m)]
      ceiling == IF PoolOfModel(c, m) \in FullPool(c) THEN budget ELSE budget - base
  IN IF weight <= 1 THEN base ELSE Max({base, Min({base * weight, ceiling})})

-----------------------------------------------------------------------------
\* The startup warning: the pools whose budget can never bind, because the caps
\* of their models are reached first even if every prompt is heavy.
Members(c, p) == {m \in Known(c) : PoolOfModel(c, m) = p}

CommittedUnweighted(c, p, tiers) ==  \* mutant: the multiplier is forgotten
  TotalOf([m \in Members(c, p) |-> LoadCaps(c.entries)[m] * EffectiveCost(c, m)])
Committed(c, p, tiers) ==
  TotalOf([m \in Members(c, p) |-> LoadCaps(c.entries)[m] * EffectiveCost(c, m) * MaxMultiplier(tiers)])

Unbounded(c, tiers) ==
  {p \in {PoolOfModel(c, m) : m \in Known(c)} :
     /\ Members(c, p) \subseteq DOMAIN LoadCaps(c.entries)
     /\ PoolBudget(c)[p] >= Committed(c, p, tiers)}

\* The pools that are named: all that have a member when the tiers are flat.
Flat(tiers) == MaxMultiplier(tiers) <= 1
Inert(c, tiers) ==
  IF Flat(tiers) THEN {PoolOfModel(c, m) : m \in Known(c)} ELSE Unbounded(c, tiers)

-----------------------------------------------------------------------------
Weights(tiers) == {tiers[i][2] : i \in DOMAIN tiers}

\* A configuration that is accepted admits every prompt, of any size, of a model
\* with a cap or a cost: alone in its pool the request fits.  A model with
\* neither is charged the default cost, which the guard does not look at.
AdmitsEveryPrompt(c, tiers) ==
  Accepted(c) =>
    \A m \in DOMAIN LoadCaps(c.entries) \cup DOMAIN LoadCosts(c.entries), w \in Weights(tiers) :
      Charge(c, m, w) <= PoolBudget(c)[PoolOfModel(c, m)]

Using(c, p, models) == {m \in models : PoolOfModel(c, m) = p}

\* Whatever runs of the models that use a pool, up to most requests of each, all
\* at one weight of the tiers and within its cap if it has one, fits the budget.
NeverBinds(c, tiers, p, models, most) ==
  LET pool == Using(c, p, models)
      caps == LoadCaps(c.entries)
  IN \A running \in [pool -> 0..most], weight \in [pool -> Weights(tiers)] :
       (\A m \in pool \cap DOMAIN caps : running[m] <= caps[m])
       => TotalOf([m \in pool |-> running[m] * Charge(c, m, weight[m])]) <= PoolBudget(c)[p]

\* "a giant prompt costs exactly the same as a tiny one"
NothingPricedUp(c, tiers, p, models) ==
  \A m \in Using(c, p, models), w \in Weights(tiers) : Charge(c, m, w) = Charge(c, m, 1)

\* What the startup warning says of the pools it names.  By flat tiers: nothing is
\* priced up in them.  By an unbounded budget ("the admit test can never fail even
\* at the heaviest weighting"): whatever runs fits, except in the pool "default"
\* when a model is asked for that has no knob at all.  That model runs uncapped in
\* "default" and the warning has not counted it: with it the budget does bind.
\* The models are those that may be asked for, with knobs and without; of each it
\* is enough to let one request run for each unit of the budget, and one more.
WarningHolds(c, tiers, models) ==
  \A p \in Inert(c, tiers) :
    /\ Flat(tiers) => NothingPricedUp(c, tiers, p, models)
    /\ p \in Unbounded(c, tiers) =>
         (NeverBinds(c, tiers, p, models, PoolBudget(c)[p] + 1)
           <=> (p = "default" => models \subseteq Known(c)))

\* "old swap-slot configs keep working": a model that is in a pool only by a
\* slot finds that pool exclusive and with a budget.
SlotKeepsMutex(c) ==
  \A m \in Known(c) :
    (\A e \in ToSet(c.entries) : e.name = m => e.pool = "")
    => LET p == PoolOfModel(c, m) IN p = "default" \/ (p \in PoolExclusive(c) /\ PoolBudget(c)[p] > 0)

\* The weight of a prompt is the multiplier of the least bound that covers it,
\* the one written first when two are equal, and of the greatest when none does.
Candidates(tokens, tiers) == IF Covering(tokens, tiers) = {} THEN DOMAIN tiers ELSE Covering(tokens, tiers)
IsBest(tokens, tiers, i) ==
  /\ i \in Candidates(tokens, tiers)
  /\ \A j \in Candidates(tokens, tiers) :
       IF Covering(tokens, tiers) = {} THEN NotAfter(tiers, j, i) ELSE NotAfter(tiers, i, j)

LeastCoveringTier(tokens, written) ==
  LET tiers == IF Wellformed(written) THEN written ELSE DefaultTiers
  IN \E i \in DOMAIN tiers : IsBest(tokens, tiers, i) /\ PromptWeight(tokens, ParseTiers(written)) = tiers[i][2]
=============================================================================
