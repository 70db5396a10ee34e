------------------------ MODULE FunctionsProofs ------------------------
(***************************************************************************)
(* Theorems about Configuration and MetricsViews: what TLC checks of       *)
(* configurations of up to two entries and of tables of up to three events *)
(* holds of every configuration, with any number of entries, repeated and  *)
(* contradictory ones among them, and of every table of events.            *)
(***************************************************************************)
EXTENDS MCFunctions, CollectionFacts

\* What the loaders can have read.  A cap, where there is one, divides the unit,
\* so that 1/cap is a whole number of units; OVERLAAT_BUDGET is positive.
Entry(Names) ==
  {e \in [name : Names, cap : Nat, cost : Nat, pool : Names, slot : Names] :
     e.cap > 0 => e.cap <= Unit /\ Unit % e.cap = 0}
Section(Names) == [budget : Nat, exclusive : BOOLEAN, heavy : Names]

Readable(c) ==
  /\ \E Names : /\ c.entries \in Seq(Entry(Names))
                 /\ \A p \in DOMAIN c.sections : c.sections[p] \in Section(Names)
  /\ c.sections = [p \in DOMAIN c.sections |-> c.sections[p]]
  /\ c.default \in Nat \ {0}

-----------------------------------------------------------------------------
\* The knob that is read for a name is that of an entry of this name which
\* declares it, and no later entry of the name does.
LEMMA ReadFromAnEntry ==
  ASSUME NEW Names, NEW entries \in Seq(Entry(Names)), NEW declared,
         DOMAIN declared \subseteq DOMAIN entries,
         NEW m \in DOMAIN LastDeclared(entries, declared)
  PROVE  \E i \in DOMAIN declared :
           /\ entries[i].name = m
           /\ LastDeclared(entries, declared)[m] = declared[i]
           /\ \A j \in DOMAIN declared : entries[j].name = m => j <= i
<1> DEFINE S == {i \in DOMAIN declared : entries[i].name = m}
<1>1. Len(entries) \in Nat /\ DOMAIN entries = 1 .. Len(entries)
  BY LenProperties
<1>2. m \in {entries[i].name : i \in DOMAIN declared}
  BY DEF LastDeclared
<1>3. S \in SUBSET (1 .. Len(entries)) /\ S # {}
  BY <1>1, <1>2
<1>4. Max(S) \in S /\ \A i \in S : i <= Max(S)
  BY <1>1, <1>3, GreatestPosition
<1>5. LastDeclared(entries, declared)[m] = declared[Max(S)]
  BY <1>2 DEF LastDeclared
<1> QED BY <1>4, <1>5

\* A cap that was read stands for a whole, positive cost.
LEMMA CapsRead ==
  ASSUME NEW Names, NEW entries \in Seq(Entry(Names)), NEW m \in DOMAIN LoadCaps(entries)
  PROVE  /\ LoadCaps(entries)[m] \in 1 .. Unit
         /\ Unit \div LoadCaps(entries)[m] \in 1 .. Unit
<1> DEFINE declared == [i \in {i \in DOMAIN entries : entries[i].cap > 0} |-> entries[i].cap]
<1>1. DOMAIN declared \subseteq DOMAIN entries /\ m \in DOMAIN LastDeclared(entries, declared)
  BY DEF LoadCaps
<1>2. PICK i \in DOMAIN declared : LastDeclared(entries, declared)[m] = declared[i]
  <2> HIDE DEF declared
  <2> QED BY <1>1, ReadFromAnEntry
<1>3. i \in DOMAIN entries /\ entries[i].cap > 0 /\ LoadCaps(entries)[m] = entries[i].cap
  BY <1>2 DEF LoadCaps
<1>4. entries[i] \in Entry(Names)
  BY <1>3, ElementOfSeq, LenProperties
<1>5. /\ Unit \in Nat \ {0}
      /\ entries[i].cap \in Nat
      /\ entries[i].cap > 0
      /\ entries[i].cap <= Unit
  BY <1>3, <1>4, ConfigurationAssumption DEF Entry
<1>6. ASSUME NEW u \in Nat \ {0}, NEW k \in Nat, k > 0, k <= u
      PROVE  u \div k \in 1 .. u
  BY <1>6
<1> QED BY <1>3, <1>5, <1>6

\* So does a cost that was read.
LEMMA CostsRead ==
  ASSUME NEW Names, NEW entries \in Seq(Entry(Names)), NEW m \in DOMAIN LoadCosts(entries)
  PROVE  LoadCosts(entries)[m] \in Nat \ {0}
<1> DEFINE declared == [i \in {i \in DOMAIN entries : entries[i].cost > 0} |-> entries[i].cost]
<1>1. DOMAIN declared \subseteq DOMAIN entries /\ m \in DOMAIN LastDeclared(entries, declared)
  BY DEF LoadCosts
<1>2. PICK i \in DOMAIN declared : LastDeclared(entries, declared)[m] = declared[i]
  <2> HIDE DEF declared
  <2> QED BY <1>1, ReadFromAnEntry
<1>3. i \in DOMAIN entries /\ entries[i].cost > 0 /\ LoadCosts(entries)[m] = entries[i].cost
  BY <1>2 DEF LoadCosts
<1>4. entries[i] \in Entry(Names)
  BY <1>3, ElementOfSeq, LenProperties
<1> QED BY <1>3, <1>4 DEF Entry

\* The cost of a model with a cap or a cost is configured.
LEMMA CostConfigured ==
  ASSUME NEW c, Readable(c),
         NEW m \in DOMAIN LoadCaps(c.entries) \cup DOMAIN LoadCosts(c.entries)
  PROVE  EffectiveCost(c, m) \in Nat \ {0} /\ m \in Known(c)
<1>1. PICK Names : c.entries \in Seq(Entry(Names))
  BY DEF Readable
<1>2. m \in Known(c)
  BY DEF Known
<1>3. CASE m \in DOMAIN LoadCosts(c.entries)
  BY <1>1, <1>2, <1>3, CostsRead DEF EffectiveCost
<1>4. CASE m \notin DOMAIN LoadCosts(c.entries)
  <2>1. Unit \div LoadCaps(c.entries)[m] \in 1 .. Unit
    BY <1>1, <1>4, CapsRead
  <2>2. EffectiveCost(c, m) = Unit \div LoadCaps(c.entries)[m]
    BY <1>4 DEF EffectiveCost
  <2>3. \A x \in 1 .. Unit : x \in Nat \ {0}
    BY ConfigurationAssumption
  <2> QED BY <1>2, <2>1, <2>2, <2>3
<1> QED BY <1>3, <1>4

\* Every pool of a known model has a budget, and every budget is positive.
LEMMA BudgetsPositive ==
  ASSUME NEW c, Readable(c), NEW p \in DOMAIN PoolBudget(c)
  PROVE  PoolBudget(c)[p] \in Nat /\ PoolBudget(c)[p] > 0
<1>1. ASSUME NEW q \in DOMAIN DeclaredBudgets(c) PROVE DeclaredBudgets(c)[q] \in Nat \ {0}
  <2>1. q \in DOMAIN c.sections /\ c.sections[q].budget > 0
        /\ DeclaredBudgets(c)[q] = c.sections[q].budget
    BY <1>1 DEF DeclaredBudgets
  <2>2. PICK Names : c.sections[q] \in Section(Names)
    BY <2>1 DEF Readable
  <2> QED BY <2>1, <2>2 DEF Section
<1>2. c.default \in Nat \ {0}
  BY DEF Readable
<1>3. PoolBudget(c)[p] \in Nat \ {0}
  BY <1>1, <1>2 DEF PoolBudget
<1> QED BY ONLY <1>3

\* Every pool that is read has a budget.
LEMMA PoolsHaveBudgets ==
  ASSUME NEW c, NEW m
  PROVE  PoolOfModel(c, m) \in DOMAIN PoolBudget(c)
<1>1. PoolOfModel(c, m) \in Values(LoadPoolOf(c.entries)) \cup {"default"}
  BY DEF PoolOfModel, Values
<1> QED BY <1>1 DEF PoolBudget

\* What a request is charged lies between its base cost and its pool's budget.
LEMMA ChargeWithinBudget ==
  ASSUME NEW c, NEW m, NEW w \in Nat,
         EffectiveCost(c, m) \in Nat \ {0},
         PoolBudget(c)[PoolOfModel(c, m)] \in Nat,
         EffectiveCost(c, m) <= PoolBudget(c)[PoolOfModel(c, m)]
  PROVE  /\ Charge(c, m, w) \in Nat
         /\ EffectiveCost(c, m) <= Charge(c, m, w)
         /\ Charge(c, m, w) <= PoolBudget(c)[PoolOfModel(c, m)]
<1> DEFINE full == PoolOfModel(c, m) \in FullPool(c)
<1>1. PICK base \in Nat \ {0} : base = EffectiveCost(c, m)
  OBVIOUS
<1>2. PICK budget \in Nat : budget = PoolBudget(c)[PoolOfModel(c, m)]
  OBVIOUS
<1>3. base <= budget
  BY <1>1, <1>2
<1> DEFINE ceiling == IF full THEN budget ELSE budget - base
<1>4. Charge(c, m, w) = IF w <= 1 THEN base ELSE Max({base, Min({base * w, ceiling})})
  <2>1. base > 0
    OBVIOUS
  <2> QED BY ONLY <1>1, <1>2, <2>1 DEF Charge
<1>5. /\ ceiling \in Int
      /\ ceiling <= budget
      /\ base * w \in Int
      /\ base \in Int
  BY <1>3
<1> HIDE DEF ceiling
<1>6. PICK part \in Int : part = Min({base * w, ceiling}) /\ part <= budget
  BY <1>5, LesserOfTwo
<1>7. Max({base, part}) = IF base >= part THEN base ELSE part
  BY <1>5, <1>6, GreaterOfTwo
<1>8. Charge(c, m, w) = IF w <= 1 THEN base ELSE IF base >= part THEN base ELSE part
  BY <1>4, <1>6, <1>7
<1> QED BY ONLY <1>1, <1>2, <1>3, <1>6, <1>8

-----------------------------------------------------------------------------
\* A configuration with which the proxy starts admits every prompt, of any
\* weight, of a model that has a cap or a cost: its charge is at most the budget
\* of its pool (the guard at startup, the clamp of weighted_cost).
THEOREM AcceptedIsServable ==
  ASSUME NEW c, Readable(c), NEW ts, ts \in Seq(Nat \X Nat)
  PROVE  AdmitsEveryPrompt(c, ts)
<1> SUFFICES ASSUME Accepted(c),
                    NEW m \in DOMAIN LoadCaps(c.entries) \cup DOMAIN LoadCosts(c.entries),
                    NEW i \in DOMAIN ts
             PROVE  Charge(c, m, ts[i][2]) <= PoolBudget(c)[PoolOfModel(c, m)]
  BY DEF AdmitsEveryPrompt, Weights
<1>1. EffectiveCost(c, m) \in Nat \ {0} /\ m \in Known(c)
  BY CostConfigured
<1>2. PoolBudget(c)[PoolOfModel(c, m)] \in Nat
  BY BudgetsPositive, PoolsHaveBudgets
<1>3. ~(EffectiveCost(c, m) > PoolBudget(c)[PoolOfModel(c, m)])
  BY <1>1 DEF Accepted, Offenders
<1>4. EffectiveCost(c, m) <= PoolBudget(c)[PoolOfModel(c, m)]
  BY ONLY <1>1, <1>2, <1>3
<1>5. ts[i][2] \in Nat
  BY LenProperties, ElementOfSeq
<1> QED BY <1>1, <1>2, <1>4, <1>5, ChargeWithinBudget

\* A model that is in a pool only by the deprecated slot finds that pool
\* exclusive and with a budget, whatever else is configured ("old swap-slot
\* configs keep working").
THEOREM SlotsStayMutexes ==
  ASSUME NEW c, Readable(c)
  PROVE  SlotKeepsMutex(c)
<1> SUFFICES ASSUME NEW m \in Known(c),
                    \A e \in ToSet(c.entries) : e.name = m => e.pool = "",
                    PoolOfModel(c, m) # "default"
             PROVE  /\ PoolOfModel(c, m) \in PoolExclusive(c)
                    /\ PoolBudget(c)[PoolOfModel(c, m)] > 0
  BY DEF SlotKeepsMutex
<1> DEFINE p == PoolOfModel(c, m)
           entries == c.entries
           declared == [i \in {i \in DOMAIN entries : entries[i].pool # "" \/ entries[i].slot # ""} |->
                          IF BySlot(entries[i]) THEN entries[i].slot ELSE entries[i].pool]
<1>1. m \in DOMAIN LoadPoolOf(entries) /\ p = LoadPoolOf(entries)[m]
  BY DEF PoolOfModel
<1>2. PICK i \in DOMAIN declared : /\ entries[i].name = m
                                   /\ p = declared[i]
  <2>1. PICK Names : entries \in Seq(Entry(Names))
    BY DEF Readable
  <2>2. DOMAIN declared \subseteq DOMAIN entries
    OBVIOUS
  <2>3. LoadPoolOf(entries) = LastDeclared(entries, declared)
    BY DEF LoadPoolOf
  <2>4. m \in DOMAIN LastDeclared(entries, declared) /\ p = LastDeclared(entries, declared)[m]
    BY <1>1, <2>3
  <2> HIDE DEF declared, entries, p
  <2>5. \E i \in DOMAIN declared : /\ entries[i].name = m
                                    /\ LastDeclared(entries, declared)[m] = declared[i]
    BY ONLY <2>1, <2>2, <2>4, ReadFromAnEntry
  <2> QED BY <2>4, <2>5
<1>3. i \in DOMAIN entries /\ entries[i] \in ToSet(entries)
  BY <1>2 DEF ToSet
<1>4. BySlot(entries[i]) /\ p = entries[i].slot
  BY <1>2, <1>3 DEF BySlot
<1>5. p \in PoolExclusive(c)
  BY <1>3, <1>4 DEF PoolExclusive, ExclusiveSeed
<1>6. PoolBudget(c)[PoolOfModel(c, m)] > 0
  BY BudgetsPositive, PoolsHaveBudgets, Zenon
<1> QED BY <1>5, <1>6, Zenon

-----------------------------------------------------------------------------
-----------------------------------------------------------------------------
\* What a request is charged is at most its base cost at the heaviest weight.
LEMMA ChargeAtHeaviest ==
  ASSUME NEW c, NEW m, NEW w \in Nat, NEW heaviest \in Nat, 1 <= heaviest, w <= heaviest,
         EffectiveCost(c, m) \in Nat \ {0},
         PoolBudget(c)[PoolOfModel(c, m)] \in Nat
  PROVE  /\ Charge(c, m, w) \in Nat
         /\ Charge(c, m, w) <= EffectiveCost(c, m) * heaviest
<1> DEFINE full == PoolOfModel(c, m) \in FullPool(c)
<1>1. PICK base \in Nat \ {0} : base = EffectiveCost(c, m)
  OBVIOUS
<1>2. PICK budget \in Nat : budget = PoolBudget(c)[PoolOfModel(c, m)]
  OBVIOUS
<1> DEFINE ceiling == IF full THEN budget ELSE budget - base
<1>4. Charge(c, m, w) = IF w <= 1 THEN base ELSE Max({base, Min({base * w, ceiling})})
  <2>1. base > 0
    OBVIOUS
  <2> QED BY ONLY <1>1, <1>2, <2>1 DEF Charge
<1>5. ceiling \in Int /\ base * w \in Nat /\ base \in Nat /\ base * heaviest \in Nat
      /\ base * w <= base * heaviest /\ base * 1 <= base * heaviest /\ base * 1 = base
  <2>1. /\ base * w \in Nat /\ base * heaviest \in Nat /\ base * w <= base * heaviest
    BY ProductMonotone
  <2>2. base * 1 <= base * heaviest /\ base * 1 = base
    BY ProductMonotone
  <2> QED BY <2>1, <2>2
<1> HIDE DEF ceiling
<1>6. PICK part \in Int : part = Min({base * w, ceiling}) /\ part <= base * w
  BY <1>5, LesserOfTwo
<1>a. base \in Int
  OBVIOUS
<1>7. Max({base, part}) = IF base >= part THEN base ELSE part
  BY ONLY <1>a, part \in Int, GreaterOfTwo
<1>8. Charge(c, m, w) = IF w <= 1 THEN base ELSE IF base >= part THEN base ELSE part
  BY <1>4, <1>6, <1>7
<1>9. PICK weighted \in Nat, most \in Nat : weighted = base * w /\ most = base * heaviest
  BY <1>5
<1>10. base <= most /\ weighted <= most /\ part <= weighted
  BY <1>5, <1>6, <1>9
<1>11. Charge(c, m, w) \in Nat /\ Charge(c, m, w) <= most
  BY ONLY <1>8, <1>10, base \in Nat \ {0}, part \in Int, weighted \in Nat, most \in Nat, w \in Nat
<1> QED BY ONLY <1>1, <1>9, <1>11

\* Only finitely many models are named by a configuration.
LEMMA NamedFew ==
  ASSUME NEW Names, NEW entries \in Seq(Entry(Names)), NEW declared, DOMAIN declared \subseteq DOMAIN entries
  PROVE  IsFiniteSet(DOMAIN LastDeclared(entries, declared))
<1> DEFINE g == [i \in DOMAIN declared |-> entries[i].name]
           T == DOMAIN LastDeclared(entries, declared)
<1>1. T = {entries[i].name : i \in DOMAIN declared}
  BY DEF LastDeclared
<1>2. g \in [DOMAIN declared -> T] /\ \A t \in T : \E i \in DOMAIN declared : g[i] = t
  BY <1>1
<1>3. IsFiniteSet(DOMAIN declared)
  <2>1. IsFiniteSet(1 .. Len(entries)) /\ DOMAIN entries = 1 .. Len(entries)
    BY IntervalSize, LenProperties
  <2> QED BY <2>1, FS_Subset
<1> HIDE DEF g, T
<1>4. g \in Surjection(DOMAIN declared, T)
  BY <1>2, Fun_IsSurj
<1>5. IsFiniteSet(T)
  BY <1>3, <1>4, FS_Surjection
<1> QED BY <1>5 DEF T

\* The models that a list of entries names.
LEMMA KnownFew ==
  ASSUME NEW c, Readable(c)
  PROVE  IsFiniteSet(Known(c))
<1> DEFINE entries == c.entries
<1>1. PICK Names : entries \in Seq(Entry(Names))
  BY DEF Readable
<1>2. IsFiniteSet(DOMAIN LoadCaps(entries))
  <2> DEFINE declared == [i \in {i \in DOMAIN entries : entries[i].cap > 0} |-> entries[i].cap]
  <2>1. DOMAIN declared \subseteq DOMAIN entries /\ LoadCaps(entries) = LastDeclared(entries, declared)
    BY DEF LoadCaps
  <2> HIDE DEF declared, entries
  <2> QED BY <1>1, <2>1, NamedFew
<1>3. IsFiniteSet(DOMAIN LoadCosts(entries))
  <2> DEFINE declared == [i \in {i \in DOMAIN entries : entries[i].cost > 0} |-> entries[i].cost]
  <2>1. DOMAIN declared \subseteq DOMAIN entries /\ LoadCosts(entries) = LastDeclared(entries, declared)
    BY DEF LoadCosts
  <2> HIDE DEF declared, entries
  <2> QED BY <1>1, <2>1, NamedFew
<1>4. IsFiniteSet(DOMAIN LoadPoolOf(entries))
  <2> DEFINE declared == [i \in {i \in DOMAIN entries : entries[i].pool # "" \/ entries[i].slot # ""} |->
                            IF BySlot(entries[i]) THEN entries[i].slot ELSE entries[i].pool]
  <2>1. DOMAIN declared \subseteq DOMAIN entries /\ LoadPoolOf(entries) = LastDeclared(entries, declared)
    BY DEF LoadPoolOf
  <2> HIDE DEF declared, entries
  <2> QED BY <1>1, <2>1, NamedFew
<1> QED BY <1>2, <1>3, <1>4, FS_Union DEF Known

\* The weights of a table that can be parsed: some, each of at least 1 and none
\* above the greatest multiplier.
LEMMA WeightsOfTiers ==
  ASSUME NEW ts \in Seq(Nat \X Nat), Wellformed(ts)
  PROVE  /\ Weights(ts) \in SUBSET Nat /\ Weights(ts) # {}
         /\ MaxMultiplier(ts) \in Nat /\ 1 <= MaxMultiplier(ts)
         /\ \A w \in Weights(ts) : w \in Nat /\ w <= MaxMultiplier(ts)
<1> DEFINE weights  == Weights(ts)
           heaviest == MaxMultiplier(ts)
<1>1. /\ weights \in SUBSET Nat /\ IsFiniteSet(weights) /\ weights # {}
      /\ \A w \in weights : w >= 1
  <2>1. Len(ts) \in Nat /\ DOMAIN ts = 1 .. Len(ts) /\ ts # <<>> /\ \A i \in DOMAIN ts : ts[i] \in Nat \X Nat
    BY LenProperties, ElementOfSeq DEF Wellformed
  <2>2. Len(ts) # 0
    BY <2>1, EmptySeq
  <2>3. 1 \in DOMAIN ts
    BY <2>1, <2>2
  <2>4. IsFiniteSet(DOMAIN ts)
    BY <2>1, IntervalSize
  <2> DEFINE g == [i \in DOMAIN ts |-> ts[i][2]]
  <2>5. IsFiniteSet({g[i] : i \in DOMAIN ts})
    <3>1. DOMAIN g = DOMAIN ts
      OBVIOUS
    <3> HIDE DEF g
    <3> QED BY <2>4, <3>1, ItemsFew
  <2>6. {g[i] : i \in DOMAIN ts} = weights
    BY DEF Weights
  <2>7. \A i \in DOMAIN ts : ts[i][2] >= 1
    BY DEF Wellformed
  <2> QED BY <2>1, <2>3, <2>5, <2>6, <2>7
<1>2. heaviest \in Nat /\ 1 <= heaviest /\ \A w \in weights : w \in Nat /\ w <= heaviest
  <2>1. heaviest = Max(weights)
    BY DEF MaxMultiplier, Weights
  <2> HIDE DEF weights, heaviest
  <2>2. Max(weights) \in weights /\ \A w \in weights : w <= Max(weights)
    BY <1>1, GreatestOf
  <2> QED BY <1>1, <2>1, <2>2
<1> QED BY <1>1, <1>2

\* A pool that the startup warning names for its budget never binds, in any
\* configuration, for any models of which none without a knob is in that pool.
THEOREM WarnedNeverBinds ==
  ASSUME NEW c, Readable(c), NEW ts \in Seq(Nat \X Nat), Wellformed(ts),
         NEW p \in Unbounded(c, ts), NEW models, NEW most \in Nat,
         p = "default" => models \subseteq Known(c)
  PROVE  NeverBinds(c, ts, p, models, most)
<1> DEFINE caps     == LoadCaps(c.entries)
           pool     == Using(c, p, models)
           weights  == Weights(ts)
           heaviest == MaxMultiplier(ts)
<1>2. heaviest \in Nat /\ 1 <= heaviest /\ \A w \in weights : w \in Nat /\ w <= heaviest
  BY WeightsOfTiers
<1>0. pool \in SUBSET Members(c, p)
  <2> SUFFICES ASSUME NEW m \in models, PoolOfModel(c, m) = p PROVE m \in Known(c)
    BY DEF Members, Using
  <2>1. CASE p = "default"
    BY <2>1
  <2>2. CASE p # "default"
    <3>1. m \in DOMAIN LoadPoolOf(c.entries)
      BY <2>2 DEF PoolOfModel
    <3> QED BY <3>1 DEF Known
  <2> QED BY <2>1, <2>2
<1> SUFFICES ASSUME NEW running \in [pool -> 0 .. most],
                    NEW weight \in [pool -> weights],
                    \A m \in pool \cap DOMAIN caps : running[m] <= caps[m]
             PROVE  TotalOf([m \in pool |-> running[m] * Charge(c, m, weight[m])])
                      <= PoolBudget(c)[p]
  BY DEF NeverBinds
<1> HIDE DEF weights, heaviest, pool
<1>3. /\ Members(c, p) \subseteq DOMAIN caps
      /\ PoolBudget(c)[p] >= Committed(c, p, ts)
      /\ \A m \in Members(c, p) : m \in Known(c) /\ PoolOfModel(c, m) = p
      /\ p \in DOMAIN PoolBudget(c)
  <2>1. PICK m \in Known(c) : p = PoolOfModel(c, m)
    BY DEF Unbounded
  <2> QED BY <2>1, PoolsHaveBudgets DEF Unbounded, Members
<1>4. PoolBudget(c)[p] \in Nat
  BY <1>3, BudgetsPositive
<1> DEFINE a == [m \in pool |-> running[m] * Charge(c, m, weight[m])]
           b == [m \in Members(c, p) |-> caps[m] * EffectiveCost(c, m) * heaviest]
<1>5. ASSUME NEW m \in pool
      PROVE  a[m] \in Nat /\ b[m] \in Nat /\ a[m] <= b[m]
  <2>0. m \in Members(c, p) /\ m \in pool \cap DOMAIN caps
    BY <1>0, <1>3
  <2>1. PICK Names : c.entries \in Seq(Entry(Names))
    BY DEF Readable
  <2>2. caps[m] \in Nat
    <3>1. caps[m] \in 1 .. Unit
      BY <1>3, <2>0, <2>1, CapsRead
    <3> QED BY <3>1
  <2>3. EffectiveCost(c, m) \in Nat \ {0}
    BY <1>3, <2>0, CostConfigured
  <2>4. PICK n \in Nat, w \in weights : n = running[m] /\ w = weight[m]
    OBVIOUS
  <2>5. w \in Nat /\ w <= heaviest /\ n <= caps[m]
    BY <1>2, <2>0, <2>4
  <2>6. Charge(c, m, w) \in Nat /\ Charge(c, m, w) <= EffectiveCost(c, m) * heaviest
    BY <1>2, <1>3, <1>4, <2>0, <2>3, <2>5, ChargeAtHeaviest
  <2>7. PICK k \in Nat, cap \in Nat, e \in Nat, h \in Nat :
          k = Charge(c, m, w) /\ cap = caps[m] /\ e = EffectiveCost(c, m) /\ h = heaviest
    BY <1>2, <2>2, <2>3, <2>6
  <2>8. PICK r \in Nat : r = e * h
    OBVIOUS
  <2>a. n <= cap /\ k <= r
    BY <2>5, <2>6, <2>7, <2>8
  <2>9. n * k \in Nat /\ cap * r \in Nat /\ n * k <= cap * r
    BY ONLY <2>a, n \in Nat, k \in Nat, cap \in Nat, r \in Nat, ProductMonotone
  <2>10. cap * r = cap * e * h
    BY <2>8
  <2>11. a[m] = n * k /\ b[m] = cap * e * h
    BY <2>0, <2>4, <2>7
  <2> QED BY ONLY <2>9, <2>10, <2>11
<1>6. IsFiniteSet(Members(c, p))
  BY KnownFew, FS_Subset DEF Members
<1>7. DOMAIN a = pool /\ DOMAIN b = Members(c, p) /\ Committed(c, p, ts) = TotalOf(b)
  BY DEF Committed, heaviest
<1>a. \A m \in Members(c, p) : b[m] \in Nat
  <2> SUFFICES ASSUME NEW m \in Members(c, p) PROVE b[m] \in Nat
    OBVIOUS
  <2>1. PICK Names : c.entries \in Seq(Entry(Names))
    BY DEF Readable
  <2>2. caps[m] \in 1 .. Unit
    BY <1>3, <2>1, CapsRead
  <2>3. EffectiveCost(c, m) \in Nat \ {0}
    BY <1>3, CostConfigured
  <2>4. PICK cap \in Nat, e \in Nat, h \in Nat : cap = caps[m] /\ e = EffectiveCost(c, m) /\ h = heaviest
    BY <1>2, <2>2, <2>3
  <2>5. cap * e * h \in Nat
    OBVIOUS
  <2> QED BY <2>4, <2>5
<1> HIDE DEF a, b
<1>8. TotalOf(a) \in Nat /\ TotalOf(b) \in Nat /\ TotalOf(a) <= TotalOf(b)
  BY <1>0, <1>5, <1>6, <1>7, <1>a, SumMonotone
<1>9. TotalOf(a) <= PoolBudget(c)[p]
  BY <1>3, <1>4, <1>7, <1>8
<1> QED BY <1>9 DEF a

\* What any request is charged: at least 1, the unlisted ones included.
LEMMA ChargePositive ==
  ASSUME NEW c, Readable(c), NEW m, NEW w \in Nat
  PROVE  Charge(c, m, w) \in Nat /\ Charge(c, m, w) >= 1
<1> DEFINE full == PoolOfModel(c, m) \in FullPool(c)
           bas  == IF EffectiveCost(c, m) > 0 THEN EffectiveCost(c, m) ELSE DefaultCost
<1>1. EffectiveCost(c, m) \in Nat
  <2>1. CASE m \in DOMAIN LoadCaps(c.entries) \cup DOMAIN LoadCosts(c.entries)
    BY <2>1, CostConfigured
  <2>2. CASE m \notin DOMAIN LoadCaps(c.entries) \cup DOMAIN LoadCosts(c.entries)
    BY <2>2 DEF EffectiveCost
  <2> QED BY <2>1, <2>2
<1>2. PICK base \in Nat \ {0} : base = bas
  BY <1>1, ConfigurationAssumption
<1>3. PICK budget \in Nat : budget = PoolBudget(c)[PoolOfModel(c, m)]
  BY BudgetsPositive, PoolsHaveBudgets
<1> DEFINE ceiling == IF full THEN budget ELSE budget - base
<1>4. Charge(c, m, w) = IF w <= 1 THEN base ELSE Max({base, Min({base * w, ceiling})})
  BY <1>2, <1>3 DEF Charge
<1>5. ceiling \in Int /\ base * w \in Int /\ base \in Int
  OBVIOUS
<1> HIDE DEF ceiling
<1>6. PICK part \in Int : part = Min({base * w, ceiling})
  BY <1>5, LesserOfTwo
<1>7. Max({base, part}) = IF base >= part THEN base ELSE part
  BY <1>5, <1>6, GreaterOfTwo
<1>8. Charge(c, m, w) = IF w <= 1 THEN base ELSE IF base >= part THEN base ELSE part
  BY <1>4, <1>6, <1>7
<1> QED BY ONLY <1>8, base \in Nat \ {0}, part \in Int, w \in Nat

\* A model without a knob fills the default pool, whatever the warning says of it:
\* it has no cap, and of one request more than the budget has units each costs
\* at least one (OVERLAAT_DEFAULT_COST).
THEOREM UnlistedFillsDefault ==
  ASSUME NEW c, Readable(c), NEW ts \in Seq(Nat \X Nat), Wellformed(ts),
         NEW models, IsFiniteSet(models), NEW u \in models, u \notin Known(c),
         NEW most \in Nat, PoolBudget(c)["default"] < most
  PROVE  ~NeverBinds(c, ts, "default", models, most)
<1> DEFINE pool    == Using(c, "default", models)
           caps    == LoadCaps(c.entries)
           running == [m \in pool |-> IF m = u THEN most ELSE 0]
<1>1. u \in pool /\ u \notin DOMAIN caps /\ PoolOfModel(c, u) = "default"
  BY DEF Using, Known, PoolOfModel
<1>2. PICK w \in Weights(ts) : w \in Nat
  BY WeightsOfTiers
<1> DEFINE weight == [m \in pool |-> w]
           load   == [m \in pool |-> running[m] * Charge(c, m, weight[m])]
<1>3. running \in [pool -> 0 .. most] /\ weight \in [pool -> Weights(ts)]
  BY <1>2
<1>4. \A m \in pool \cap DOMAIN caps : running[m] <= caps[m]
  <2> SUFFICES ASSUME NEW m \in pool \cap DOMAIN caps PROVE running[m] <= caps[m]
    OBVIOUS
  <2>1. PICK Names : c.entries \in Seq(Entry(Names))
    BY DEF Readable
  <2>2. caps[m] \in 1 .. Unit
    BY <2>1, CapsRead
  <2>3. running[m] = 0
    BY <1>1
  <2>4. \A k \in 1 .. Unit : 0 <= k
    BY ConfigurationAssumption
  <2> QED BY <2>2, <2>3, <2>4
<1>5. PoolBudget(c)["default"] \in Nat
  BY <1>1, BudgetsPositive, PoolsHaveBudgets
<1>6. ASSUME NEW m \in pool PROVE load[m] \in Nat /\ (m = u => most <= load[m])
  <2>1. PICK charge \in Nat : charge = Charge(c, m, w) /\ charge >= 1
    BY <1>2, ChargePositive
  <2>2. load[m] = (IF m = u THEN most ELSE 0) * charge
    BY <2>1
  <2>3. CASE m = u
    <3>0. most <= most /\ 1 <= charge
      BY <2>1
    <3>1. most * 1 <= most * charge /\ most * charge \in Nat
      BY ONLY <3>0, most \in Nat, charge \in Nat, 1 \in Nat, ProductMonotone
    <3>2. most * 1 = most
      OBVIOUS
    <3> QED BY <2>2, <2>3, <3>1, <3>2
  <2>4. CASE m # u
    BY <2>2, <2>4
  <2> QED BY <2>3, <2>4
<1>7. IsFiniteSet(pool)
  BY FS_Subset DEF Using
<1>8. DOMAIN load = pool
  OBVIOUS
<1> DEFINE alone == [m \in {u} |-> most]
<1>9. DOMAIN alone = {u} /\ alone[u] = most /\ TotalOf(alone) = most
  BY SumOfOne
<1> HIDE DEF alone, load
<1>10. TotalOf(alone) <= TotalOf(load) /\ TotalOf(load) \in Nat
  BY <1>1, <1>6, <1>7, <1>8, <1>9, SumMonotone
<1>11. ~(TotalOf(load) <= PoolBudget(c)["default"])
  BY <1>5, <1>9, <1>10
<1>12. ~(TotalOf([m \in pool |-> running[m] * Charge(c, m, weight[m])]) <= PoolBudget(c)["default"])
  BY <1>11 DEF load
<1> HIDE DEF running, weight
<1> QED BY <1>3, <1>4, <1>12 DEF NeverBinds

-----------------------------------------------------------------------------
\* NotAfter is a total order of the tiers as written.
LEMMA OrderOfTiers ==
  ASSUME NEW n \in Nat, NEW ts, DOMAIN ts = 1 .. n, \A i \in 1 .. n : ts[i] \in Nat \X Nat
  PROVE  /\ \A i \in 1 .. n : NotAfter(ts, i, i)
         /\ \A i, j \in 1 .. n : NotAfter(ts, i, j) \/ NotAfter(ts, j, i)
         /\ \A i, j \in 1 .. n : NotAfter(ts, i, j) /\ NotAfter(ts, j, i) => i = j
         /\ \A i, j, k \in 1 .. n : NotAfter(ts, i, j) /\ NotAfter(ts, j, k) => NotAfter(ts, i, k)
<1> DEFINE bound == [i \in 1 .. n |-> ts[i][1]]
<1>1. \A i \in 1 .. n : bound[i] \in Nat
  OBVIOUS
<1>2. \A i, j \in 1 .. n : NotAfter(ts, i, j) <=>
                             (bound[i] < bound[j] \/ (bound[i] = bound[j] /\ i <= j))
  BY DEF NotAfter
<1> HIDE DEF bound
<1>3. ASSUME NEW i \in 1 .. n, NEW j \in 1 .. n
      PROVE  /\ NotAfter(ts, i, j) \/ NotAfter(ts, j, i)
             /\ NotAfter(ts, i, j) /\ NotAfter(ts, j, i) => i = j
  <2>1. bound[i] \in Nat /\ bound[j] \in Nat /\ i \in Nat /\ j \in Nat
    BY <1>1
  <2>2. NotAfter(ts, i, j) <=> (bound[i] < bound[j] \/ (bound[i] = bound[j] /\ i <= j))
    BY <1>2
  <2>3. NotAfter(ts, j, i) <=> (bound[j] < bound[i] \/ (bound[j] = bound[i] /\ j <= i))
    BY <1>2
  <2> QED BY ONLY <2>1, <2>2, <2>3
<1>4. ASSUME NEW i \in 1 .. n, NEW j \in 1 .. n, NEW k \in 1 .. n,
             NotAfter(ts, i, j), NotAfter(ts, j, k)
      PROVE  NotAfter(ts, i, k)
  <2>1. /\ bound[i] \in Nat /\ bound[j] \in Nat /\ bound[k] \in Nat
        /\ i \in Nat /\ j \in Nat /\ k \in Nat
    BY <1>1
  <2>2. bound[i] < bound[j] \/ (bound[i] = bound[j] /\ i <= j)
    BY <1>2, <1>4
  <2>3. bound[j] < bound[k] \/ (bound[j] = bound[k] /\ j <= k)
    BY <1>2, <1>4
  <2>4. bound[i] < bound[k] \/ (bound[i] = bound[k] /\ i <= k)
    BY ONLY <2>1, <2>2, <2>3
  <2> QED BY <1>2, <2>4
<1>5. \A i, j \in 1 .. n : NotAfter(ts, i, j) /\ NotAfter(ts, j, i) => i = j
  BY <1>3
<1> QED BY <1>3, <1>4, <1>5

\* The place of a tier in sorted order: a numbering that follows the order.
LEMMA PlacesFollowOrder ==
  ASSUME NEW n \in Nat, NEW ts \in [1 .. n -> Nat \X Nat]
  PROVE  /\ \A i \in 1 .. n : Place(ts, i) \in 1 .. n
         /\ \A i, j \in 1 .. n : NotAfter(ts, i, j) <=> Place(ts, i) <= Place(ts, j)
         /\ \A k \in 1 .. n : \E i \in 1 .. n : Place(ts, i) = k
<1> DEFINE upTo(i) == {j \in 1 .. n : NotAfter(ts, j, i)}
           place == [i \in 1 .. n |-> Place(ts, i)]
<1>1. /\ \A i \in 1 .. n : NotAfter(ts, i, i)
      /\ \A i, j \in 1 .. n : NotAfter(ts, i, j) \/ NotAfter(ts, j, i)
      /\ \A i, j \in 1 .. n : NotAfter(ts, i, j) /\ NotAfter(ts, j, i) => i = j
      /\ \A i, j, k \in 1 .. n : NotAfter(ts, i, j) /\ NotAfter(ts, j, k) => NotAfter(ts, i, k)
  BY OrderOfTiers
<1>2. IsFiniteSet(1 .. n) /\ Cardinality(1 .. n) = n
  BY IntervalSize
<1>3. ASSUME NEW i \in 1 .. n
      PROVE  /\ Place(ts, i) = Cardinality(upTo(i))
             /\ IsFiniteSet(upTo(i))
             /\ Place(ts, i) \in 1 .. n
  <2>1. Place(ts, i) = Cardinality(upTo(i))
    BY DEF Place
  <2>2. upTo(i) \in SUBSET (1 .. n) /\ i \in upTo(i)
    BY <1>1
  <2> HIDE DEF upTo
  <2>3. IsFiniteSet(upTo(i)) /\ Cardinality(upTo(i)) <= n /\ Cardinality(upTo(i)) \in Nat
    BY <1>2, <2>2, FS_Subset, FS_CardinalityType
  <2>4. Cardinality(upTo(i)) # 0
    BY <2>2, <2>3, FS_EmptySet
  <2> QED BY <2>1, <2>3, <2>4
<1>4. ASSUME NEW i \in 1 .. n, NEW j \in 1 .. n, NotAfter(ts, i, j), i # j
      PROVE  Place(ts, i) < Place(ts, j)
  <2>1. upTo(i) \in SUBSET upTo(j) /\ j \in upTo(j) /\ j \notin upTo(i)
    BY <1>1, <1>4
  <2>2. upTo(i) # upTo(j)
    BY <2>1
  <2> HIDE DEF upTo
  <2>3. /\ Cardinality(upTo(i)) <= Cardinality(upTo(j))
        /\ Cardinality(upTo(i)) # Cardinality(upTo(j))
    BY <1>3, <2>1, <2>2, FS_Subset
  <2>4. /\ Place(ts, i) = Cardinality(upTo(i)) /\ Place(ts, i) \in 1 .. n
        /\ Place(ts, j) = Cardinality(upTo(j)) /\ Place(ts, j) \in 1 .. n
    BY <1>3
  <2> QED BY <2>3, <2>4
<1>5. \A i, j \in 1 .. n : NotAfter(ts, i, j) <=> Place(ts, i) <= Place(ts, j)
  <2> SUFFICES ASSUME NEW i \in 1 .. n, NEW j \in 1 .. n
               PROVE  NotAfter(ts, i, j) <=> Place(ts, i) <= Place(ts, j)
    OBVIOUS
  <2>1. Place(ts, i) \in 1 .. n /\ Place(ts, j) \in 1 .. n
    BY <1>3
  <2>2. CASE i = j
    BY <1>1, <2>1, <2>2
  <2>3. CASE i # j /\ NotAfter(ts, i, j)
    <3>1. Place(ts, i) < Place(ts, j)
      BY <1>4, <2>3
    <3> QED BY <2>1, <2>3, <3>1
  <2>4. CASE i # j /\ ~NotAfter(ts, i, j)
    <3>1. NotAfter(ts, j, i)
      BY <1>1, <2>4
    <3>2. Place(ts, j) < Place(ts, i)
      BY <1>4, <2>4, <3>1
    <3> QED BY <2>1, <2>4, <3>2
  <2> QED BY <2>2, <2>3, <2>4
<1>6. place \in [1 .. n -> 1 .. n] /\ \A i, j \in 1 .. n : place[i] = place[j] => i = j
  <2>1. place \in [1 .. n -> 1 .. n]
    BY <1>3
  <2>2. ASSUME NEW i \in 1 .. n, NEW j \in 1 .. n, place[i] = place[j] PROVE i = j
    <3>1. Place(ts, i) = Place(ts, j) /\ Place(ts, i) \in 1 .. n
      BY <2>2, <1>3
    <3>2. NotAfter(ts, i, j) /\ NotAfter(ts, j, i)
      BY <1>5, <3>1
    <3> QED BY <1>1, <3>2
  <2> QED BY <2>1, <2>2
<1>7. \A k \in 1 .. n : \E i \in 1 .. n : place[i] = k
  <2>1. PICK I : I = 1 .. n
    OBVIOUS
  <2> HIDE DEF place
  <2>2. place \in Injection(I, I)
    BY <1>6, <2>1, Fun_IsInj
  <2>3. IsFiniteSet(I)
    BY <1>2, <2>1
  <2>4. place \in Surjection(I, I)
    BY <2>2, <2>3, FS_Injection
  <2>5. \A k \in I : \E i \in I : place[i] = k
    BY <2>4, Fun_SurjectionProperties
  <2> QED BY <2>1, <2>5
<1> QED BY <1>3, <1>5, <1>7

\* An arrangement of n tiers: a numbering that follows their order, its inverse,
\* and the list in which each tier is at its number.
Arranges(n, ws, ts, place, at) ==
  /\ n \in Nat /\ n # 0
  /\ DOMAIN ws = 1 .. n /\ ts \in Seq(Nat \X Nat) /\ Len(ts) = n
  /\ \A i \in 1 .. n : place[i] \in 1 .. n /\ at[place[i]] = i
  /\ \A k \in 1 .. n : at[k] \in 1 .. n /\ place[at[k]] = k /\ ts[k] = ws[at[k]]
  /\ \A i, j \in 1 .. n : NotAfter(ws, i, j) <=> place[i] <= place[j]

\* However an arrangement numbers the tiers in their order, the tier it takes is
\* the least that covers the prompt, or the greatest of all.
LEMMA TierOfArrangement ==
  ASSUME NEW n, NEW ws, NEW ts, NEW place, NEW at, Arranges(n, ws, ts, place, at), NEW tokens \in Nat
  PROVE  \E b \in DOMAIN ws : IsBest(tokens, ws, b) /\ PromptWeight(tokens, ts) = ws[b][2]
<1> /\ n \in Nat /\ n # 0
    /\ DOMAIN ws = 1 .. n /\ ts \in Seq(Nat \X Nat) /\ Len(ts) = n
    /\ \A i \in 1 .. n : place[i] \in 1 .. n /\ at[place[i]] = i
    /\ \A k \in 1 .. n : at[k] \in 1 .. n /\ place[at[k]] = k /\ ts[k] = ws[at[k]]
    /\ \A i, j \in 1 .. n : NotAfter(ws, i, j) <=> place[i] <= place[j]
  BY DEF Arranges
<1> DEFINE covering == Covering(tokens, ws)
           candidate == Candidates(tokens, ws)
           best(i) == IsBest(tokens, ws, i)
           ahead == Covering(tokens, ts)
           last == IF ahead = {} THEN Len(ts) ELSE Min(ahead)
<1>0. /\ covering = {i \in 1 .. n : tokens <= ws[i][1]}
      /\ candidate = IF covering = {} THEN 1 .. n ELSE covering
      /\ ahead = {k \in DOMAIN ts : tokens <= ts[k][1]}
      /\ \A i : best(i) <=> i \in candidate /\ \A j \in candidate :
                              IF covering = {} THEN NotAfter(ws, j, i) ELSE NotAfter(ws, i, j)
  BY DEF Covering, Candidates, IsBest
<1>1. DOMAIN ts = 1 .. n /\ PromptWeight(tokens, ts) = ts[last][2]
  BY LenProperties DEF PromptWeight
<1> HIDE DEF covering, candidate, best, ahead
<1>2. \A k \in 1 .. n : k \in ahead <=> at[k] \in covering
  BY <1>0, <1>1
<1>3. last \in 1 .. n /\ at[last] \in candidate /\ best(at[last])
  <2>1. CASE ahead = {}
    <3>1. covering = {}
      <4> SUFFICES ASSUME NEW i \in covering PROVE FALSE
        OBVIOUS
      <4>1. i \in 1 .. n
        BY <1>0
      <4> QED BY <4>1, <1>2, <2>1
    <3>2. last = n
      BY <2>1
    <3>3. n \in 1 .. n
      OBVIOUS
    <3> HIDE DEF last
    <3>4. at[n] \in 1 .. n /\ place[at[n]] = n
      BY <3>3
    <3>5. ASSUME NEW j \in 1 .. n PROVE NotAfter(ws, j, at[n])
      <4>1. place[j] \in 1 .. n
        OBVIOUS
      <4>2. place[j] <= place[at[n]]
        BY <3>4, <4>1
      <4> QED BY <3>4, <4>2
    <3> QED BY <1>0, <3>1, <3>2, <3>3, <3>4, <3>5
  <2>2. CASE ahead # {}
    <3>1. last \in ahead /\ \A k \in ahead : last <= k
      <4>1. ahead \in SUBSET Nat /\ last = Min(ahead)
        BY <1>0, <1>1, <2>2
      <4> HIDE DEF last
      <4> QED BY <2>2, <4>1, LeastOf
    <3>2. last \in 1 .. n
      BY <1>0, <1>1, <3>1
    <3> HIDE DEF last
    <3>3. at[last] \in covering /\ candidate = covering /\ at[last] \in 1 .. n /\ place[at[last]] = last
      BY <1>0, <1>2, <3>1, <3>2
    <3>4. ASSUME NEW j \in covering PROVE NotAfter(ws, at[last], j)
      <4>1. j \in 1 .. n /\ place[j] \in 1 .. n /\ at[place[j]] = j
        BY <1>0
      <4>2. place[j] \in ahead
        BY <1>2, <4>1
      <4>3. last <= place[j]
        BY <3>1, <4>2
      <4> QED BY <3>3, <4>1, <4>3
    <3> QED BY <1>0, <2>2, <3>2, <3>3, <3>4
  <2> QED BY <2>1, <2>2
<1> HIDE DEF last
<1>4. ts[last] = ws[at[last]]
  BY <1>3
<1>5. candidate \subseteq DOMAIN ws
  BY <1>0
<1> QED BY <1>1, <1>3, <1>4, <1>5 DEF best

\* The weight of a prompt of any length is that of the least tier that covers
\* it, however many tiers were written, in whatever order and with equal bounds.
THEOREM LeastTierCovers ==
  ASSUME NEW written \in Seq(Nat \X Nat), NEW tokens \in Nat
  PROVE  LeastCoveringTier(tokens, written)
<1> DEFINE ws == IF Wellformed(written) THEN written ELSE DefaultTiers
           ts == ParseTiers(written)
           n  == Len(ws)
<1>1. /\ ws \in Seq(Nat \X Nat) /\ n \in Nat /\ n # 0 /\ DOMAIN ws = 1 .. n
      /\ \A i \in 1 .. n : ws[i] \in Nat \X Nat
  <2>1. ws \in Seq(Nat \X Nat) /\ ws # <<>>
    BY TiersAssumption DEF Wellformed
  <2> HIDE DEF ws
  <2> QED BY <2>1, LenProperties, ElementOfSeq, EmptySeq
<1>2. \E place, at :
        /\ \A i \in 1 .. n : place[i] \in 1 .. n /\ at[place[i]] = i
        /\ \A k \in 1 .. n : at[k] \in 1 .. n /\ place[at[k]] = k /\ ts[k] = ws[at[k]]
        /\ \A i, j \in 1 .. n : NotAfter(ws, i, j) <=> place[i] <= place[j]
        /\ DOMAIN ts = 1 .. n
        /\ ts = [k \in 1 .. n |-> ts[k]]
  <2>1. CASE Wellformed(written)
    <3> DEFINE place == [i \in 1 .. n |-> Place(ws, i)]
               at == [k \in 1 .. n |-> CHOOSE i \in 1 .. n : Place(ws, i) = k]
    <3>1. ts = [k \in 1 .. n |-> ws[at[k]]]
      BY <1>1, <2>1 DEF ParseTiers, SortedTiers
    <3> HIDE DEF ws, ts, n
    <3>a. n \in Nat /\ ws \in [1 .. n -> Nat \X Nat]
      BY <1>1, LenProperties
    <3>2. /\ \A i \in 1 .. n : Place(ws, i) \in 1 .. n
          /\ \A i, j \in 1 .. n : NotAfter(ws, i, j) <=> Place(ws, i) <= Place(ws, j)
          /\ \A k \in 1 .. n : \E i \in 1 .. n : Place(ws, i) = k
      BY ONLY <3>a, PlacesFollowOrder
    <3>3. \A k \in 1 .. n : at[k] \in 1 .. n /\ Place(ws, at[k]) = k
      BY <3>2
    <3>4. \A i \in 1 .. n : place[i] = Place(ws, i)
      OBVIOUS
    <3> HIDE DEF at, place
    <3>5. \A i \in 1 .. n : at[place[i]] = i
      <4> SUFFICES ASSUME NEW i \in 1 .. n PROVE at[place[i]] = i
        OBVIOUS
      <4>1. place[i] \in 1 .. n /\ at[place[i]] \in 1 .. n /\ Place(ws, at[place[i]]) = Place(ws, i)
        BY <3>2, <3>3, <3>4
      <4>2. PICK k \in 1 .. n : k = at[place[i]]
        BY <4>1
      <4>3. Place(ws, i) \in 1 .. n /\ Place(ws, k) = Place(ws, i)
        BY <3>2, <4>1, <4>2
      <4>4. NotAfter(ws, i, k) /\ NotAfter(ws, k, i)
        BY <3>2, <4>3
      <4>5. i = k
        BY <1>1, <4>4, OrderOfTiers
      <4> QED BY <4>2, <4>5
    <3>6. /\ DOMAIN ts = 1 .. n
          /\ ts = [k \in 1 .. n |-> ts[k]]
          /\ \A k \in 1 .. n : ts[k] = ws[at[k]]
      BY <3>1
    <3>7. \A i, j \in 1 .. n : NotAfter(ws, i, j) <=> place[i] <= place[j]
      BY <3>2, <3>4
    <3>8. \A i \in 1 .. n : place[i] \in 1 .. n /\ at[place[i]] = i
      BY <3>2, <3>4, <3>5
    <3>9. \A k \in 1 .. n : at[k] \in 1 .. n /\ place[at[k]] = k /\ ts[k] = ws[at[k]]
      BY <3>3, <3>4, <3>6
    <3> QED BY <3>6, <3>7, <3>8, <3>9, Zenon
  <2>2. CASE ~Wellformed(written)
    <3> DEFINE place == [i \in 1 .. n |-> i]
    <3>1. ts = ws /\ ws = DefaultTiers
      BY <2>2 DEF ParseTiers
    <3>2. \A i, j \in 1 .. n : i < j => ws[i][1] < ws[j][1]
      BY <1>1, <3>1, TiersAssumption
    <3> HIDE DEF ws, ts, n
    <3>3. \A i, j \in 1 .. n : NotAfter(ws, i, j) <=> i <= j
      <4> SUFFICES ASSUME NEW i \in 1 .. n, NEW j \in 1 .. n PROVE NotAfter(ws, i, j) <=> i <= j
        OBVIOUS
      <4>1. ws[i][1] \in Nat /\ ws[j][1] \in Nat
        BY <1>1
      <4> QED BY <3>2, <4>1 DEF NotAfter
    <3>4. ts = [k \in 1 .. n |-> ts[k]]
      BY <1>1, <3>1
    <3>5. /\ \A i \in 1 .. n : place[i] \in 1 .. n /\ place[place[i]] = i
          /\ \A i, j \in 1 .. n : NotAfter(ws, i, j) <=> place[i] <= place[j]
      BY <3>3
    <3> HIDE DEF place
    <3>6. DOMAIN ts = 1 .. n /\ \A k \in 1 .. n : ts[k] = ws[place[k]]
      BY <1>1, <3>1 DEF place
    <3> QED BY <3>4, <3>5, <3>6
  <2> QED BY <2>1, <2>2
<1> HIDE DEF ts
<1>3. PICK place, at :
        /\ \A i \in 1 .. n : place[i] \in 1 .. n /\ at[place[i]] = i
        /\ \A k \in 1 .. n : at[k] \in 1 .. n /\ place[at[k]] = k /\ ts[k] = ws[at[k]]
        /\ \A i, j \in 1 .. n : NotAfter(ws, i, j) <=> place[i] <= place[j]
        /\ DOMAIN ts = 1 .. n
        /\ ts = [k \in 1 .. n |-> ts[k]]
  BY <1>2
<1> HIDE DEF ws, n
<1>4. ts \in Seq(Nat \X Nat) /\ Len(ts) = n
  <2>1. ASSUME NEW k \in 1 .. n PROVE ts[k] \in Nat \X Nat
    <3>1. at[k] \in 1 .. n /\ ts[k] = ws[at[k]]
      BY <1>3
    <3> QED BY <1>1, <3>1
  <2>2. ts \in [1 .. n -> Nat \X Nat]
    BY <1>3, <2>1
  <2>3. ts \in Seq(Nat \X Nat)
    BY <1>1, <2>2, SeqDef
  <2> QED BY <1>1, <1>3, <2>3, LenProperties
<1>5. Arranges(n, ws, ts, place, at)
  BY <1>1, <1>3, <1>4 DEF Arranges
<1>6. \E b \in DOMAIN ws : IsBest(tokens, ws, b) /\ PromptWeight(tokens, ts) = ws[b][2]
  BY <1>5, TierOfArrangement
<1> QED BY <1>6 DEF LeastCoveringTier, ws, ts

-----------------------------------------------------------------------------
\* The invariants of the run Functions, which only enumerates small instances,
\* hold of every configuration and every table of tiers: config and tiers are
\* whatever could be read.
THEOREM AllPromptsAdmitted ==
  ASSUME Readable(config), tiers \in Seq(Nat \X Nat)
  PROVE  PromptsAdmitted
<1>1. \A tokens \in 0 .. 5 : LeastCoveringTier(tokens, tiers)
  BY LeastTierCovers
<1>2. AdmitsEveryPrompt(config, tiers)
  BY AcceptedIsServable
<1> QED BY <1>1, <1>2 DEF PromptsAdmitted

\* What the startup warning says of a pool that it names holds in every
\* configuration, but for the default pool when a model without a knob is asked
\* for: then the budget does bind, and the warning names it none the less.
THEOREM WarningIsTrue ==
  ASSUME Readable(config), tiers \in Seq(Nat \X Nat), Wellformed(tiers)
  PROVE  WarningTrue
<1> DEFINE models == {"chat", "bulk"}
<1>1. IsFiniteSet(models)
  <2>1. IsFiniteSet({"chat"}) /\ IsFiniteSet({"bulk"})
    BY FS_Singleton
  <2>2. IsFiniteSet({"chat"} \cup {"bulk"})
    BY <2>1, FS_Union, Zenon
  <2>3. models = {"chat"} \cup {"bulk"}
    OBVIOUS
  <2> HIDE DEF models
  <2> QED BY <2>2, <2>3
<1> HIDE DEF models
<1>2. ASSUME Flat(tiers), NEW p PROVE NothingPricedUp(config, tiers, p, models)
  <2>1. \A w \in Weights(tiers) : w \in Nat /\ w <= 1
    BY <1>2, WeightsOfTiers DEF Flat
  <2>2. \A m : \A w \in Weights(tiers) : Charge(config, m, w) = Charge(config, m, 1)
    BY <2>1 DEF Charge
  <2> QED BY <2>2 DEF NothingPricedUp
<1>3. ASSUME NEW p \in Unbounded(config, tiers)
      PROVE  NeverBinds(config, tiers, p, models, PoolBudget(config)[p] + 1)
               <=> (p = "default" => models \subseteq Known(config))
  <2>1. p \in DOMAIN PoolBudget(config)
    BY PoolsHaveBudgets DEF Unbounded
  <2>2. PICK budget \in Nat : budget = PoolBudget(config)[p]
    BY <2>1, BudgetsPositive
  <2>3. budget + 1 \in Nat /\ budget < budget + 1
    OBVIOUS
  <2>4. CASE p = "default" => models \subseteq Known(config)
    BY <2>2, <2>3, <2>4, WarnedNeverBinds
  <2>5. CASE p = "default" /\ ~(models \subseteq Known(config))
    <3>1. PICK u \in models : u \notin Known(config)
      BY <2>5
    <3> QED BY <1>1, <2>2, <2>3, <2>5, <3>1, UnlistedFillsDefault
  <2> QED BY <2>4, <2>5
<1>4. WarningHolds(config, tiers, models)
  BY <1>2, <1>3 DEF WarningHolds
<1> QED BY <1>4 DEF WarningTrue, models

\* A deprecated slot stays exclusive in every configuration.
THEOREM AllSlotsStayExclusive ==
  ASSUME Readable(config)
  PROVE  SlotsStayExclusive
BY SlotsStayMutexes DEF SlotsStayExclusive

-----------------------------------------------------------------------------
\* Intervals and buckets: what a bucket sees of an interval is the number of its
\* ticks that lie in both.

\* The ticks of a set that lie in an interval, and those of a bucket.
Spanned(s, e, T) == Cardinality({t \in T : s <= t /\ t < e})
Covered(iv, T) == Spanned(iv[1], iv[2], T)
TicksOf(t0, bucket, j) == t0 + j * bucket .. t0 + (j + 1) * bucket - 1

\* What a bucket from a to b sees of an interval clipped to the window from t0 to end.
Clipped(s, e, t0, end, a, b) == Overlap(Max({s, t0}), Min({e, end}), a, b)

\* How much of an interval lies in another one, in numbers and in ticks.
Spans(s, e, a, b, lo, hi) ==
  /\ ((s >= a /\ lo = s) \/ (s < a /\ lo = a))
  /\ ((e <= b /\ hi = e) \/ (e > b /\ hi = b))
  /\ ((hi > lo /\ Overlap(s, e, a, b) = hi - lo) \/ (hi <= lo /\ Overlap(s, e, a, b) = 0))

\* Where two intervals overlap, between which bounds.
LEMMA OverlapValue ==
  ASSUME NEW s \in Int, NEW e \in Int, NEW a \in Int, NEW b \in Int
  PROVE  \E lo, hi \in Int : Spans(s, e, a, b, lo, hi)
<1>1. PICK lo \in Int : lo = Max({s, a}) /\ lo = IF s >= a THEN s ELSE a
  BY GreaterOfTwo
<1>2. PICK hi \in Int : hi = Min({e, b}) /\ hi = IF e <= b THEN e ELSE b
  BY LesserOfTwo
<1>3. Max({0, hi - lo}) = IF 0 >= hi - lo THEN 0 ELSE hi - lo
  BY GreaterOfTwo
<1>4. Overlap(s, e, a, b) = IF hi > lo THEN hi - lo ELSE 0
  BY <1>1, <1>2, <1>3 DEF Overlap
<1> QED BY <1>1, <1>2, <1>4 DEF Spans

\* An overlap is the number of common ticks.
LEMMA OverlapCounts ==
  ASSUME NEW s \in Nat, NEW e \in Nat, NEW a \in Nat, NEW b \in Nat
  PROVE  Overlap(s, e, a, b) \in Nat /\ Overlap(s, e, a, b) = Spanned(s, e, a .. b - 1)
<1>0. s \in Int /\ e \in Int /\ a \in Int /\ b \in Int
  OBVIOUS
<1>1. PICK lo, hi \in Int : Spans(s, e, a, b, lo, hi)
  BY <1>0, OverlapValue, Zenon
<1>2. {t \in a .. b - 1 : s <= t /\ t < e} = lo .. hi - 1
  BY <1>1 DEF Spans
<1>3. Cardinality(lo .. hi - 1) = IF lo > hi - 1 THEN 0 ELSE hi - 1 - lo + 1
  BY FS_Interval
<1>4. PICK c : c = Spanned(s, e, a .. b - 1)
  OBVIOUS
<1>5. c = IF lo > hi - 1 THEN 0 ELSE hi - 1 - lo + 1
  BY <1>2, <1>3, <1>4 DEF Covered, Spanned
<1>6. Overlap(s, e, a, b) \in Nat /\ Overlap(s, e, a, b) = c
  BY ONLY <1>1, <1>5, lo \in Int, hi \in Int DEF Spans
<1> QED BY <1>4, <1>6

\* A bucket in the window sees nothing of the clipping at the ends of the window.
LEMMA ClippedOverlap ==
  ASSUME NEW s \in Nat, NEW e \in Nat, NEW t0 \in Nat, NEW end \in Nat,
         NEW a \in Nat, NEW b \in Nat, t0 <= a, a < b, b <= end
  PROVE  Clipped(s, e, t0, end, a, b) = Overlap(s, e, a, b)
<1>1. PICK s1 \in Int : s1 = Max({s, t0}) /\ s1 = IF s >= t0 THEN s ELSE t0
  BY GreaterOfTwo
<1>2. PICK e1 \in Int : e1 = Min({e, end}) /\ e1 = IF e <= end THEN e ELSE end
  BY LesserOfTwo
<1>0. s \in Int /\ e \in Int /\ a \in Int /\ b \in Int
  OBVIOUS
<1>3. PICK lo, hi \in Int : Spans(s1, e1, a, b, lo, hi)
  BY <1>0, OverlapValue, Zenon
<1>4. PICK lo1, hi1 \in Int : Spans(s, e, a, b, lo1, hi1)
  BY <1>0, OverlapValue, Zenon
<1>5. lo = lo1 /\ hi = hi1
  BY <1>1, <1>2, <1>3, <1>4 DEF Spans
<1>6. Overlap(s1, e1, a, b) = Overlap(s, e, a, b)
  BY <1>3, <1>4, <1>5 DEF Spans
<1> QED BY <1>1, <1>2, <1>6 DEF Clipped

\* An interval that reaches a bucket reaches all buckets from its first one on.
LEMMA ReachedFromFirst ==
  ASSUME NEW s \in Nat, NEW e \in Nat, NEW t0 \in Nat, t0 <= s, NEW bucket \in Nat \ {0},
         NEW j \in Nat, Overlap(s, e, t0 + j * bucket, t0 + (j + 1) * bucket) > 0
  PROVE  /\ (s - t0) \div bucket <= j
         /\ \A k \in (s - t0) \div bucket .. j :
              Overlap(s, e, t0 + k * bucket, t0 + (k + 1) * bucket) > 0
<1>1. PICK d \in Nat : d = s - t0
  OBVIOUS
<1>2. PICK f \in Nat : f = d \div bucket /\ f * bucket <= d /\ d < (f + 1) * bucket
  <2>1. d \div bucket \in Nat /\ d % bucket \in 0 .. bucket - 1 /\ d = bucket * (d \div bucket) + (d % bucket)
    BY d \in Nat, bucket \in Nat \ {0}
  <2>2. PICK f, r \in Nat : f = d \div bucket /\ r = d % bucket
    BY <2>1
  <2>3. d = f * bucket + r /\ r < bucket /\ (f + 1) * bucket = f * bucket + bucket
    BY <2>1, <2>2
  <2> QED BY <2>2, <2>3
<1>3. PICK p, q \in Nat : p = j * bucket /\ q = (j + 1) * bucket
  OBVIOUS
<1>0. s \in Int /\ e \in Int
  OBVIOUS
<1>4. t0 + p \in Int /\ t0 + q \in Int
  OBVIOUS
<1>5. PICK lo, hi \in Int : Spans(s, e, t0 + p, t0 + q, lo, hi)
  BY <1>4, <1>0, OverlapValue, Zenon
<1>6. s < e /\ t0 + p < e /\ s < t0 + q
  BY ONLY <1>5, <1>3, Overlap(s, e, t0 + j * bucket, t0 + (j + 1) * bucket) > 0,
          s \in Nat, e \in Nat, t0 \in Nat, p \in Nat, q \in Nat DEF Spans
<1>7. f <= j
  <2> SUFFICES ASSUME f >= j + 1 PROVE FALSE
    OBVIOUS
  <2>1. PICK w \in Nat : w = f * bucket
    OBVIOUS
  <2>2. q <= w
    BY <1>3, <2>1, ProductMonotone
  <2> QED BY <1>1, <1>2, <1>6, <2>1, <2>2
<1>8. ASSUME NEW k \in f .. j
      PROVE  Overlap(s, e, t0 + k * bucket, t0 + (k + 1) * bucket) > 0
  <2>1. PICK x, y, z \in Nat : x = k * bucket /\ y = (k + 1) * bucket /\ z = (f + 1) * bucket
    OBVIOUS
  <2>2. x <= p
    BY <1>3, <2>1, ProductMonotone
  <2>3. z <= y
    BY <2>1, ProductMonotone, f + 1 <= k + 1
  <2>4. t0 + x \in Int /\ t0 + y \in Int /\ x < y
    BY <2>1
  <2>5. PICK lo1, hi1 \in Int : Spans(s, e, t0 + x, t0 + y, lo1, hi1)
    BY <2>4, <1>0, OverlapValue, Zenon
  <2>6. s < t0 + y
    BY <1>1, <1>2, <2>1, <2>3
  <2>7. Overlap(s, e, t0 + x, t0 + y) > 0
    BY ONLY <2>2, <2>4, <2>5, <2>6, <1>6, s \in Nat, e \in Nat, t0 \in Nat, p \in Nat, x \in Nat, y \in Nat DEF Spans
  <2> QED BY <2>1, <2>7
<1> QED BY <1>1, <1>2, <1>7, <1>8

Spanning(ivs) == \A i \in DOMAIN ivs : ivs[i][1] \in Nat /\ ivs[i][2] \in Nat

\* A number of ticks, and the ticks of a bucket.
LEMMA CoveredType ==
  ASSUME NEW iv, NEW T, IsFiniteSet(T)
  PROVE  Covered(iv, T) \in Nat
<1>1. IsFiniteSet({t \in T : iv[1] <= t /\ t < iv[2]})
  BY FS_Subset
<1> QED BY <1>1, FS_CardinalityType DEF Covered, Spanned

\* The ticks of a bucket are finitely many.
LEMMA TicksFinite ==
  ASSUME NEW t0 \in Nat, NEW bucket \in Nat, NEW j \in Nat
  PROVE  IsFiniteSet(TicksOf(t0, bucket, j)) /\ TicksOf(t0, bucket, j) \subseteq Nat
<1>1. PICK a, b \in Nat : a = t0 + j * bucket /\ b = t0 + (j + 1) * bucket
  OBVIOUS
<1>2. IsFiniteSet(a .. b - 1) /\ a .. b - 1 \subseteq Nat
  BY FS_Interval
<1> QED BY <1>1, <1>2 DEF TicksOf

RatesCovered(ivs, rate, T) == TotalOf([i \in DOMAIN ivs |-> rate[i] * Covered(ivs[i], T)])

\* A bucket holds the rates over the ticks that its intervals cover.
LEMMA BucketValue ==
  ASSUME NEW ivs, Spanning(ivs), NEW rate, \A i \in DOMAIN ivs : rate[i] \in Nat,
         NEW t0 \in Nat, NEW bucket \in Nat \ {0}, NEW n \in Nat, NEW j \in 0 .. n - 1
  PROVE  BucketSums(ivs, rate, t0, bucket, n)[j]
           = RatesCovered(ivs, rate, TicksOf(t0, bucket, j))
<1> DEFINE start(i) == Max({ivs[i][1], t0})
           overlap(i, k) == Overlap(start(i), Min({ivs[i][2], t0 + n * bucket}),
                               t0 + k * bucket, t0 + (k + 1) * bucket)
           first(i)      == (start(i) - t0) \div bucket
           reached == {i \in DOMAIN ivs : first(i) <= j /\ \A k \in first(i) .. j : overlap(i, k) > 0}
           small == [i \in reached |-> rate[i] * overlap(i, j)]
           all   == [i \in DOMAIN ivs |-> rate[i] * Covered(ivs[i], TicksOf(t0, bucket, j))]
<1>1. BucketSums(ivs, rate, t0, bucket, n)[j] = TotalOf(small)
  BY DEF BucketSums
<1>2. ASSUME NEW i \in DOMAIN ivs
      PROVE  /\ overlap(i, j) \in Nat
             /\ overlap(i, j) = Covered(ivs[i], TicksOf(t0, bucket, j))
             /\ overlap(i, j) > 0 => i \in reached
             /\ first(i) \in Int
  <2>1. PICK s, e \in Nat : s = ivs[i][1] /\ e = ivs[i][2]
    BY DEF Spanning
  <2>2. PICK a, b, w \in Nat : a = t0 + j * bucket /\ b = t0 + (j + 1) * bucket /\ w = t0 + n * bucket
    OBVIOUS
  <2>3. PICK s1 \in Nat : s1 = start(i) /\ t0 <= s1
    BY <2>1, GreaterOfTwo
  <2>4. PICK e1 \in Nat : e1 = Min({e, w})
    BY LesserOfTwo
  <2>c. t0 <= a /\ a < b /\ b <= w
    <3>1. PICK x, y, z \in Nat : x = j * bucket /\ y = (j + 1) * bucket /\ z = n * bucket
      OBVIOUS
    <3>2. y <= z
      BY <3>1, ProductMonotone, j + 1 <= n
    <3>3. y = x + bucket
      BY <3>1
    <3> QED BY <2>2, <3>1, <3>2, <3>3
  <2>d. Clipped(s, e, t0, w, a, b) = Overlap(s, e, a, b)
    BY ONLY <2>c, ClippedOverlap, s \in Nat, e \in Nat, t0 \in Nat, a \in Nat, b \in Nat, w \in Nat
  <2>5. Overlap(s1, e1, a, b) = Overlap(s, e, a, b)
    BY <2>1, <2>3, <2>4, <2>d DEF Clipped
  <2>6. Overlap(s, e, a, b) \in Nat /\ Overlap(s, e, a, b) = Covered(ivs[i], a .. b - 1)
    <3>1. Overlap(s, e, a, b) \in Nat /\ Overlap(s, e, a, b) = Spanned(s, e, a .. b - 1)
      BY ONLY OverlapCounts, s \in Nat, e \in Nat, a \in Nat, b \in Nat
    <3>2. \A T : Spanned(s, e, T) = Covered(ivs[i], T)
      BY ONLY <2>1 DEF Covered, Spanned
    <3> QED BY ONLY <3>1, <3>2
  <2>7. overlap(i, j) = Overlap(s, e, a, b)
    BY <2>1, <2>2, <2>3, <2>4, <2>5
  <2>8. overlap(i, j) = Covered(ivs[i], TicksOf(t0, bucket, j))
    BY <2>2, <2>6, <2>7 DEF TicksOf
  <2>9. ASSUME overlap(i, j) > 0 PROVE i \in reached
    <3>1. Overlap(s1, e1, t0 + j * bucket, t0 + (j + 1) * bucket) > 0
      BY <2>1, <2>2, <2>3, <2>4, <2>9
    <3>2. /\ (s1 - t0) \div bucket <= j
          /\ \A k \in (s1 - t0) \div bucket .. j : Overlap(s1, e1, t0 + k * bucket, t0 + (k + 1) * bucket) > 0
      BY ONLY ReachedFromFirst, <3>1, <2>3, e1 \in Nat, s1 \in Nat, t0 \in Nat, bucket \in Nat \ {0}, j \in Nat
    <3>3. first(i) = (s1 - t0) \div bucket /\ \A k : overlap(i, k) = Overlap(s1, e1, t0 + k * bucket, t0 + (k + 1) * bucket)
      BY <2>1, <2>2, <2>3, <2>4
    <3> HIDE DEF first, overlap
    <3> QED BY <3>2, <3>3
  <2>10. first(i) \in Int
    BY <2>3
  <2> HIDE DEF first, overlap, reached, start
  <2> QED BY <2>6, <2>7, <2>8, <2>9, <2>10
<1>3. \A i \in reached : first(i) <= j /\ overlap(i, j) > 0 /\ i \in DOMAIN ivs
  <2> HIDE DEF first, overlap
  <2> SUFFICES ASSUME NEW i \in reached PROVE overlap(i, j) > 0
    OBVIOUS
  <2>1. i \in DOMAIN ivs /\ first(i) <= j /\ \A k \in first(i) .. j : overlap(i, k) > 0
    OBVIOUS
  <2>2. first(i) \in Int
    BY <1>2, <2>1
  <2>3. j \in first(i) .. j
    BY <2>1, <2>2
  <2> QED BY <2>1, <2>3
<1>4. /\ DOMAIN small \subseteq DOMAIN all
      /\ \A i \in DOMAIN small : small[i] = all[i]
  <2> HIDE DEF first, overlap, reached
  <2> QED BY <1>2, <1>3
<1>5. ASSUME NEW i \in DOMAIN all, i \notin DOMAIN small
      PROVE  all[i] = 0
  <2> HIDE DEF first, overlap, reached
  <2>1. i \in DOMAIN ivs /\ ~(i \in reached)
    BY <1>5
  <2>2. overlap(i, j) = 0
    BY <1>2, <2>1
  <2>3. all[i] = rate[i] * 0
    BY <1>2, <2>1, <2>2
  <2> QED BY <2>1, <2>3
<1> HIDE DEF small, all
<1>6. TotalOf(small) = TotalOf(all)
  BY <1>4, <1>5, SumWithoutZeros
<1> QED BY <1>1, <1>6 DEF all, RatesCovered

\* The ticks of a set that the intervals cover, interval by interval and tick by tick.
CountAt(ivs, t)      == Cardinality({i \in DOMAIN ivs : ivs[i][1] <= t /\ t < ivs[i][2]})
AllCovered(ivs, T)   == TotalOf([i \in DOMAIN ivs |-> Covered(ivs[i], T)])
AllCounted(ivs, T)   == TotalOf([t \in T |-> CountAt(ivs, t)])

\* The ticks of all intervals, by interval and by tick.
LEMMA CoveredIsCounted ==
  ASSUME NEW ivs, IsFiniteSet(DOMAIN ivs), NEW T, IsFiniteSet(T)
  PROVE  AllCovered(ivs, T) = AllCounted(ivs, T)
<1>d. PICK D : D = DOMAIN ivs
  OBVIOUS
<1> DEFINE R == {p \in D \X T : ivs[p[1]][1] <= p[2] /\ p[2] < ivs[p[1]][2]}
<1>7. ByFirst(D, T, R) = BySecond(D, T, R)
  BY <1>d, PairsBothWays
<1>a. \A i \in D, t \in T : <<i, t>> \in R <=> ivs[i][1] <= t /\ t < ivs[i][2]
  <2> SUFFICES ASSUME NEW i \in D, NEW t \in T
               PROVE  <<i, t>> \in R <=> ivs[i][1] <= t /\ t < ivs[i][2]
    OBVIOUS
  <2>1. <<i, t>> \in D \X T /\ <<i, t>>[1] = i /\ <<i, t>>[2] = t
    OBVIOUS
  <2> QED BY <2>1
<1>8. /\ \A i \in D : {t \in T : <<i, t>> \in R} = {t \in T : ivs[i][1] <= t /\ t < ivs[i][2]}
      /\ \A t \in T : {i \in D : <<i, t>> \in R} = {i \in D : ivs[i][1] <= t /\ t < ivs[i][2]}
  <2> HIDE DEF R
  <2> QED BY ONLY <1>a
<1>9. [i \in D |-> Cardinality({t \in T : <<i, t>> \in R})] = [i \in D |-> Covered(ivs[i], T)]
  BY <1>8 DEF Covered, Spanned
<1>10. [t \in T |-> Cardinality({i \in D : <<i, t>> \in R})]
         = [t \in T |-> Cardinality({i \in D : ivs[i][1] <= t /\ t < ivs[i][2]})]
  BY <1>8
<1> QED BY <1>d, <1>7, <1>9, <1>10 DEF AllCovered, AllCounted, CountAt, ByFirst, BySecond

\* A bucket of a concurrency curve is the number of calls, summed over its ticks.
LEMMA CurveValue ==
  ASSUME NEW ivs, IsFiniteSet(DOMAIN ivs), Spanning(ivs),
         NEW t0 \in Nat, NEW bucket \in Nat \ {0}, NEW n \in Nat, NEW j \in 0 .. n - 1
  PROVE  /\ BucketConcurrency(ivs, t0, bucket, n)[j] = AllCovered(ivs, TicksOf(t0, bucket, j))
         /\ BucketConcurrency(ivs, t0, bucket, n)[j] = AllCounted(ivs, TicksOf(t0, bucket, j))
<1>d. PICK D : D = DOMAIN ivs
  OBVIOUS
<1> DEFINE one == [i \in D |-> 1]
           T == TicksOf(t0, bucket, j)
<1>1. IsFiniteSet(T)
  BY TicksFinite
<1>2. \A i \in D : one[i] \in Nat /\ one[i] = 1
  OBVIOUS
<1>e. DOMAIN one = D
  OBVIOUS
<1>3. BucketConcurrency(ivs, t0, bucket, n) = BucketSums(ivs, one, t0, bucket, n)
  BY <1>d DEF BucketConcurrency
<1> HIDE DEF one, T
<1>4. BucketSums(ivs, one, t0, bucket, n)[j] = RatesCovered(ivs, one, T)
  <2>1. \A i \in DOMAIN ivs : one[i] \in Nat
    BY <1>2, <1>d
  <2> QED BY <2>1, BucketValue DEF T
<1>5. \A i \in D : one[i] * Covered(ivs[i], T) = Covered(ivs[i], T)
  BY <1>1, <1>2, CoveredType
<1>6. [i \in D |-> one[i] * Covered(ivs[i], T)] = [i \in D |-> Covered(ivs[i], T)]
  BY <1>5
<1>7. AllCovered(ivs, T) = AllCounted(ivs, T)
  BY <1>1, CoveredIsCounted
<1> QED BY <1>d, <1>3, <1>4, <1>6, <1>7 DEF AllCovered, RatesCovered, T

-----------------------------------------------------------------------------
\* Tables of events, and the curves of build_timeline.

\* A table that the writer can have left behind: finitely many calls, each put in
\* the queue before it got its slot, and that before it ended.
EventTable(rows) ==
  /\ IsFiniteSet(DOMAIN rows)
  /\ \A i \in DOMAIN rows :
       /\ rows[i].enq \in Nat \ {0} /\ rows[i].acq \in Nat /\ rows[i].done \in Nat
       /\ rows[i].prompt \in Nat /\ rows[i].tokens \in Nat
       /\ rows[i].enq <= rows[i].done
       /\ rows[i].acq # 0 => rows[i].enq <= rows[i].acq /\ rows[i].acq <= rows[i].done

ByModel(events) == Groups(events, [i \in DOMAIN events |-> events[i].model])

\* What the lists hold that the views make of a table.
LEMMA FetchFacts ==
  ASSUME NEW rows, NEW since, NEW until
  PROVE  /\ \A i : i \in DOMAIN FetchEvents(rows, since, until)
                   <=> i \in DOMAIN rows /\ rows[i].done >= since /\ rows[i].enq <= until
         /\ \A i \in DOMAIN FetchEvents(rows, since, until) : FetchEvents(rows, since, until)[i] = rows[i]
BY DEF FetchEvents, Having, Restrict

\* What a fetch finds is a table.
LEMMA FetchedTable ==
  ASSUME NEW rows, EventTable(rows), NEW since, NEW until
  PROVE  EventTable(FetchEvents(rows, since, until))
<1>1. DOMAIN FetchEvents(rows, since, until) \subseteq DOMAIN rows
  BY FetchFacts
<1>2. IsFiniteSet(DOMAIN FetchEvents(rows, since, until))
  BY <1>1, FS_Subset DEF EventTable
<1> QED BY <1>1, <1>2, FetchFacts DEF EventTable

\* A group holds the rows of its name.
LEMMA GroupFacts ==
  ASSUME NEW rows, NEW nameOf
  PROVE  /\ \A x : x \in DOMAIN Groups(rows, nameOf) <=> \E i \in DOMAIN rows : nameOf[i] = x
         /\ \A x \in DOMAIN Groups(rows, nameOf) :
              /\ \A i : i \in DOMAIN Groups(rows, nameOf)[x] <=> i \in DOMAIN rows /\ nameOf[i] = x
              /\ \A i \in DOMAIN Groups(rows, nameOf)[x] : Groups(rows, nameOf)[x][i] = rows[i]
BY DEF Groups, Restrict

\* A group is a table.
LEMMA GroupTable ==
  ASSUME NEW rows, EventTable(rows), NEW nameOf, NEW x \in DOMAIN Groups(rows, nameOf)
  PROVE  EventTable(Groups(rows, nameOf)[x])
<1>1. DOMAIN Groups(rows, nameOf)[x] \subseteq DOMAIN rows
  BY GroupFacts
<1>2. IsFiniteSet(DOMAIN Groups(rows, nameOf)[x])
  BY <1>1, FS_Subset DEF EventTable
<1> QED BY <1>1, <1>2, GroupFacts DEF EventTable

\* The interval of a call from the queue to its end.
LEMMA OfferedFacts ==
  ASSUME NEW events
  PROVE  /\ DOMAIN Offered(events) = DOMAIN events
         /\ \A i \in DOMAIN events : Offered(events)[i][1] = events[i].enq /\ Offered(events)[i][2] = events[i].done
BY DEF Offered

\* The calls that held a slot.
LEMMA HeldFacts ==
  ASSUME NEW events
  PROVE  /\ \A i : i \in DOMAIN HeldSlot(events) <=> i \in DOMAIN events /\ events[i].acq # 0
         /\ \A i \in DOMAIN HeldSlot(events) : HeldSlot(events)[i] = events[i]
BY DEF HeldSlot, Having, Restrict

\* The interval of a call that held a slot.
LEMMA ActiveFacts ==
  ASSUME NEW events
  PROVE  /\ \A i : i \in DOMAIN Active(events) <=> i \in DOMAIN events /\ events[i].acq # 0
         /\ \A i \in DOMAIN Active(events) : Active(events)[i][1] = events[i].acq /\ Active(events)[i][2] = events[i].done
BY HeldFacts DEF Active

\* Both kinds of intervals are of whole ticks, and finitely many.
LEMMA IntervalsOfEvents ==
  ASSUME NEW events, EventTable(events)
  PROVE  /\ Spanning(Offered(events)) /\ IsFiniteSet(DOMAIN Offered(events))
         /\ Spanning(Active(events)) /\ IsFiniteSet(DOMAIN Active(events))
<1>1. Spanning(Offered(events)) /\ IsFiniteSet(DOMAIN Offered(events))
  BY OfferedFacts DEF EventTable, Spanning
<1>2. Spanning(Active(events))
  BY ActiveFacts DEF EventTable, Spanning
<1>3. IsFiniteSet(DOMAIN Active(events))
  BY ActiveFacts, FS_Subset DEF EventTable
<1> QED BY <1>1, <1>2, <1>3

\* The calls of a model that began up to now.
LEMMA BegunFacts ==
  ASSUME NEW rows, NEW m, NEW now
  PROVE  /\ \A i : i \in DOMAIN Begun(rows, m, now) <=> i \in DOMAIN rows /\ rows[i].model = m /\ rows[i].enq <= now
         /\ \A i \in DOMAIN Begun(rows, m, now) : Begun(rows, m, now)[i] = rows[i]
BY DEF Begun, Having, Restrict

BucketsOf(since, now, bucket) == Max({1, (now - since) \div bucket + 1})

\* The number of buckets of a timeline.
LEMMA BucketsFacts ==
  ASSUME NEW since \in Nat, NEW now \in Nat, since <= now, NEW bucket \in Nat \ {0}
  PROVE  BucketsOf(since, now, bucket) \in Nat /\ BucketsOf(since, now, bucket) = (now - since) \div bucket + 1
<1>1. PICK d \in Nat : d = now - since
  OBVIOUS
<1>2. PICK q \in Nat : q = d \div bucket
  OBVIOUS
<1>3. q + 1 \in Int /\ 1 \in Int
  OBVIOUS
<1>4. Max({1, q + 1}) = IF 1 >= q + 1 THEN 1 ELSE q + 1
  BY <1>3, GreaterOfTwo
<1>5. Max({1, q + 1}) = q + 1
  BY <1>4
<1> QED BY <1>1, <1>2, <1>5 DEF BucketsOf

\* The curves of a timeline are those of the calls of each model.
LEMMA TimelineCurves ==
  ASSUME NEW rows, NEW since, NEW now, NEW bucket, NEW aliases, NEW events, events = FetchEvents(rows, since - 1, now)
  PROVE  /\ DOMAIN Timeline(rows, since, now, bucket, aliases).offered = DOMAIN ByModel(events)
         /\ DOMAIN Timeline(rows, since, now, bucket, aliases).active = DOMAIN ByModel(events)
         /\ \A m \in DOMAIN ByModel(events) :
              /\ Timeline(rows, since, now, bucket, aliases).offered[m]
                   = BucketConcurrency(Offered(ByModel(events)[m]), since, bucket, BucketsOf(since, now, bucket))
              /\ Timeline(rows, since, now, bucket, aliases).active[m]
                   = BucketConcurrency(Active(ByModel(events)[m]), since, bucket, BucketsOf(since, now, bucket))
BY DEF Timeline, ByModel, BucketsOf

\* The calls of a model that a fetch found are, from its lower bound on, those in the table.
LEMMA FetchedCalls ==
  ASSUME NEW rows, EventTable(rows), NEW low \in Int, NEW now \in Nat, NEW m,
         m \in DOMAIN ByModel(FetchEvents(rows, low, now)), NEW t \in Nat, low <= t
  PROVE  LET group == ByModel(FetchEvents(rows, low, now))[m]
         IN /\ \A i : /\ i \in DOMAIN group /\ group[i].enq <= t /\ t < group[i].done
                       <=> /\ i \in DOMAIN Begun(rows, m, now)
                           /\ Begun(rows, m, now)[i].enq <= t /\ t < Begun(rows, m, now)[i].done
            /\ \A i : /\ i \in DOMAIN group /\ group[i].acq # 0 /\ group[i].acq <= t /\ t < group[i].done
                       <=> /\ i \in DOMAIN Begun(rows, m, now) /\ Begun(rows, m, now)[i].acq # 0
                           /\ Begun(rows, m, now)[i].acq <= t /\ t < Begun(rows, m, now)[i].done
<1> DEFINE events == FetchEvents(rows, low, now)
           group  == ByModel(events)[m]
<1>1. /\ \A i : i \in DOMAIN events <=> i \in DOMAIN rows /\ rows[i].done >= low /\ rows[i].enq <= now
      /\ \A i \in DOMAIN events : events[i] = rows[i]
  BY FetchFacts
<1>2. /\ \A i : i \in DOMAIN group <=> i \in DOMAIN events /\ events[i].model = m
      /\ \A i \in DOMAIN group : group[i] = events[i]
  <2> DEFINE names == [i \in DOMAIN events |-> events[i].model]
  <2>1. \A i \in DOMAIN events : names[i] = events[i].model
    OBVIOUS
  <2>2. ByModel(events) = Groups(events, names)
    BY DEF ByModel
  <2> HIDE DEF names, events
  <2>3. m \in DOMAIN Groups(events, names)
    BY <2>2 DEF events
  <2>4. /\ \A i : i \in DOMAIN Groups(events, names)[m] <=> i \in DOMAIN events /\ names[i] = m
        /\ \A i \in DOMAIN Groups(events, names)[m] : Groups(events, names)[m][i] = events[i]
    BY <2>3, GroupFacts
  <2> QED BY <2>1, <2>2, <2>4
<1> HIDE DEF events, group
<1>3. \A i : i \in DOMAIN group => group[i] = rows[i] /\ rows[i].done \in Nat
  BY <1>1, <1>2 DEF EventTable
<1>4. \A i : i \in DOMAIN rows => rows[i].done \in Nat
  BY DEF EventTable
<1>5. \A i : i \in DOMAIN group <=> i \in DOMAIN rows /\ rows[i].model = m /\ rows[i].done >= low /\ rows[i].enq <= now
  BY <1>1, <1>2
<1>6. \A i \in DOMAIN rows : t < rows[i].done => rows[i].done >= low
  BY <1>4
<1>7. \A i : i \in DOMAIN group /\ t < rows[i].done <=> i \in DOMAIN Begun(rows, m, now) /\ t < rows[i].done
  BY <1>5, <1>6, BegunFacts
<1>8. \A i \in DOMAIN Begun(rows, m, now) : Begun(rows, m, now)[i] = rows[i]
  BY BegunFacts
<1>9. /\ \A i : /\ i \in DOMAIN group /\ group[i].enq <= t /\ t < group[i].done
                       <=> /\ i \in DOMAIN Begun(rows, m, now)
                           /\ Begun(rows, m, now)[i].enq <= t /\ t < Begun(rows, m, now)[i].done
      /\ \A i : /\ i \in DOMAIN group /\ group[i].acq # 0 /\ group[i].acq <= t /\ t < group[i].done
                       <=> /\ i \in DOMAIN Begun(rows, m, now) /\ Begun(rows, m, now)[i].acq # 0
                           /\ Begun(rows, m, now)[i].acq <= t /\ t < Begun(rows, m, now)[i].done
  BY <1>3, <1>7, <1>8
<1> QED BY <1>9 DEF events, group

\* Each bucket of a curve is the sum over its ticks of the calls waiting or running,
\* and running, at that tick.
THEOREM CurvesCount ==
  ASSUME NEW rows, EventTable(rows), NEW since \in Nat, NEW now \in Nat, since <= now,
         NEW bucket \in Nat \ {0}
  PROVE  CurvesCountCalls(rows, since, now, bucket)
<1> DEFINE timeline == Timeline(rows, since, now, bucket, <<>>)
           events == FetchEvents(rows, since - 1, now)
           n == BucketsOf(since, now, bucket)
           ticks(j) == since + j * bucket .. since + (j + 1) * bucket - 1
<1>1. PICK low \in Int : low = since - 1
  OBVIOUS
<1>2. n \in Nat /\ n = (now - since) \div bucket + 1
  BY BucketsFacts
<1>3. /\ DOMAIN timeline.active = DOMAIN ByModel(events)
      /\ \A m \in DOMAIN ByModel(events) :
           /\ timeline.offered[m] = BucketConcurrency(Offered(ByModel(events)[m]), since, bucket, n)
           /\ timeline.active[m] = BucketConcurrency(Active(ByModel(events)[m]), since, bucket, n)
  BY TimelineCurves
<1>4. ASSUME NEW m \in DOMAIN timeline.active, NEW j \in 0 .. (now - since) \div bucket
      PROVE  /\ timeline.offered[m][j] = TotalOf([t \in ticks(j) |-> OfferedAt(Begun(rows, m, now), t)])
             /\ timeline.active[m][j]  = TotalOf([t \in ticks(j) |-> ActiveAt(Begun(rows, m, now), t)])
  <2> DEFINE group == ByModel(events)[m]
             off == Offered(group)
             act == Active(group)
             T == TicksOf(since, bucket, j)
  <2>1. m \in DOMAIN ByModel(events) /\ m \in DOMAIN ByModel(FetchEvents(rows, low, now))
    BY <1>1, <1>3, <1>4
  <2>2. EventTable(group)
    BY <2>1, FetchedTable, GroupTable DEF ByModel
  <2>3. /\ Spanning(off) /\ IsFiniteSet(DOMAIN off) /\ Spanning(act) /\ IsFiniteSet(DOMAIN act)
    BY <2>2, IntervalsOfEvents
  <2>4. j \in 0 .. n - 1 /\ j \in Nat
    BY <1>2
  <2>5. /\ DOMAIN off = DOMAIN group
        /\ \A i \in DOMAIN group : off[i][1] = group[i].enq /\ off[i][2] = group[i].done
    BY OfferedFacts
  <2>6. /\ \A i : i \in DOMAIN act <=> i \in DOMAIN group /\ group[i].acq # 0
        /\ \A i \in DOMAIN act : act[i][1] = group[i].acq /\ act[i][2] = group[i].done
    BY ActiveFacts
  <2>7. T = ticks(j)
    BY DEF TicksOf
  <2>8. \A t \in T : t \in Nat /\ low <= t
    <3>1. PICK p \in Nat : p = j * bucket
      BY <2>4
    <3> QED BY <1>1, <2>4, <3>1 DEF TicksOf
  <2>9. /\ timeline.offered[m] = BucketConcurrency(off, since, bucket, n)
        /\ timeline.active[m] = BucketConcurrency(act, since, bucket, n)
    BY <1>3, <2>1
  <2>10. group = ByModel(FetchEvents(rows, low, now))[m]
    BY <1>1
  <2> HIDE DEF n, off, act, T, timeline, events, group
  <2>11. /\ BucketConcurrency(off, since, bucket, n)[j] = AllCounted(off, T)
         /\ BucketConcurrency(act, since, bucket, n)[j] = AllCounted(act, T)
    BY <1>2, <2>3, <2>4, CurveValue DEF T
  <2>12. ASSUME NEW t \in T
         PROVE  /\ CountAt(off, t) = OfferedAt(Begun(rows, m, now), t)
                /\ CountAt(act, t) = ActiveAt(Begun(rows, m, now), t)
    <3>1. t \in Nat /\ low <= t
      BY <2>8
    <3>2. /\ \A i : /\ i \in DOMAIN group /\ group[i].enq <= t /\ t < group[i].done
                       <=> /\ i \in DOMAIN Begun(rows, m, now)
                           /\ Begun(rows, m, now)[i].enq <= t /\ t < Begun(rows, m, now)[i].done
          /\ \A i : /\ i \in DOMAIN group /\ group[i].acq # 0 /\ group[i].acq <= t /\ t < group[i].done
                       <=> /\ i \in DOMAIN Begun(rows, m, now) /\ Begun(rows, m, now)[i].acq # 0
                           /\ Begun(rows, m, now)[i].acq <= t /\ t < Begun(rows, m, now)[i].done
      BY <2>1, <2>10, <3>1, FetchedCalls
    <3>3. {i \in DOMAIN off : off[i][1] <= t /\ t < off[i][2]}
            = {i \in DOMAIN Begun(rows, m, now) : Begun(rows, m, now)[i].enq <= t /\ t < Begun(rows, m, now)[i].done}
      BY <2>5, <3>2
    <3>4. {i \in DOMAIN act : act[i][1] <= t /\ t < act[i][2]}
            = {i \in DOMAIN Begun(rows, m, now) : /\ Begun(rows, m, now)[i].acq # 0
                                                  /\ Begun(rows, m, now)[i].acq <= t /\ t < Begun(rows, m, now)[i].done}
      BY <2>6, <3>2
    <3> QED BY <3>3, <3>4 DEF CountAt, OfferedAt, ActiveAt
  <2>13. /\ [t \in T |-> CountAt(off, t)]
              = [t \in T |-> OfferedAt(Begun(rows, m, now), t)]
         /\ [t \in T |-> CountAt(act, t)]
              = [t \in T |-> ActiveAt(Begun(rows, m, now), t)]
    BY <2>12
  <2> QED BY <2>7, <2>9, <2>11, <2>13 DEF AllCounted
<1> QED BY <1>4 DEF CurvesCountCalls

-----------------------------------------------------------------------------
\* The tokens of a call over the buckets.

WindowOf(t0, bucket, n) == t0 .. t0 + n * bucket - 1

\* The window has finitely many ticks.
LEMMA WindowFinite ==
  ASSUME NEW t0 \in Nat, NEW bucket \in Nat, NEW n \in Nat
  PROVE  IsFiniteSet(WindowOf(t0, bucket, n)) /\ WindowOf(t0, bucket, n) \subseteq Nat
<1>1. PICK b \in Nat : b = t0 + n * bucket
  OBVIOUS
<1>2. IsFiniteSet(t0 .. b - 1) /\ t0 .. b - 1 \subseteq Nat
  BY FS_Interval
<1> QED BY <1>1, <1>2 DEF WindowOf

\* A multiple is divided by its factor.
LEMMA ExactQuotient ==
  ASSUME NEW q \in Nat, NEW d \in Nat, d > 0
  PROVE  (q * d) \div d = q
<1>1. PICK m \in Nat : m = q * d
  OBVIOUS
<1>2. m = d * q
  BY <1>1
<1>3. m \div d = q
  BY <1>2
<1> QED BY <1>1, <1>3

\* The buckets part the window.
LEMMA BucketsPartWindow ==
  ASSUME NEW t0 \in Nat, NEW bucket \in Nat \ {0}, NEW n \in Nat
  PROVE  /\ \A j \in 0 .. n - 1 : TicksOf(t0, bucket, j) \subseteq WindowOf(t0, bucket, n)
         /\ \A j, k \in 0 .. n - 1 : j # k => TicksOf(t0, bucket, j) \cap TicksOf(t0, bucket, k) = {}
         /\ \A t \in WindowOf(t0, bucket, n) : \E j \in 0 .. n - 1 : t \in TicksOf(t0, bucket, j)
<1>1. ASSUME NEW j \in 0 .. n - 1 PROVE TicksOf(t0, bucket, j) \subseteq WindowOf(t0, bucket, n)
  <2>1. PICK x, y, z \in Nat : x = j * bucket /\ y = (j + 1) * bucket /\ z = n * bucket
    OBVIOUS
  <2>2. y <= z
    BY <2>1, ProductMonotone, j + 1 <= n
  <2> QED BY <2>1, <2>2 DEF TicksOf, WindowOf
<1>2. ASSUME NEW j \in 0 .. n - 1, NEW k \in 0 .. n - 1, j < k
      PROVE  TicksOf(t0, bucket, j) \cap TicksOf(t0, bucket, k) = {}
  <2>1. PICK x, y \in Nat : x = (j + 1) * bucket /\ y = k * bucket
    OBVIOUS
  <2>2. x <= y
    BY <1>2, <2>1, ProductMonotone, j + 1 <= k
  <2>3. (t0 + x - 1) < t0 + y
    BY <2>2
  <2> QED BY <2>1, <2>3 DEF TicksOf
<1>3. ASSUME NEW t \in WindowOf(t0, bucket, n)
      PROVE  \E j \in 0 .. n - 1 : t \in TicksOf(t0, bucket, j)
  <2>1. PICK z \in Nat : z = n * bucket
    OBVIOUS
  <2>2. PICK d \in Nat : d = t - t0 /\ d < z /\ t = t0 + d
    BY <2>1 DEF WindowOf
  <2>3. PICK j \in Nat, r \in Nat : d = bucket * j + r /\ r < bucket
    <3>1. d \div bucket \in Nat /\ d % bucket \in 0 .. bucket - 1 /\ d = bucket * (d \div bucket) + (d % bucket)
      OBVIOUS
    <3>2. PICK q, r : q = d \div bucket /\ r = d % bucket
      OBVIOUS
    <3>3. q \in Nat /\ r \in Nat /\ d = bucket * q + r /\ r < bucket
      BY <3>1, <3>2
    <3> QED BY <3>3
  <2>4. PICK x, y \in Nat : x = j * bucket /\ y = (j + 1) * bucket /\ y = x + bucket /\ x <= d /\ d < y
    BY <2>3
  <2>5. j <= n - 1
    <3> SUFFICES ASSUME n <= j PROVE FALSE
      OBVIOUS
    <3>1. z <= x
      BY <2>1, <2>4, ProductMonotone
    <3> QED BY <2>2, <2>4, <3>1
  <2>6. t \in t0 + x .. t0 + y - 1
    BY <2>2, <2>4
  <2>7. TicksOf(t0, bucket, j) = t0 + x .. t0 + y - 1
    BY <2>4 DEF TicksOf
  <2>8. j \in 0 .. n - 1
    BY <2>5
  <2> QED BY <2>6, <2>7, <2>8
<1> QED
  <2>1. \A j, k \in 0 .. n - 1 : j # k => j < k \/ k < j
    OBVIOUS
  <2> QED BY <1>1, <1>2, <1>3, <2>1

BucketCover(iv, t0, bucket, n) == [j \in 0 .. n - 1 |-> Covered(iv, TicksOf(t0, bucket, j))]

\* What the window covers of an interval, bucket by bucket.
LEMMA CoveredInBuckets ==
  ASSUME NEW iv, NEW t0 \in Nat, NEW bucket \in Nat \ {0}, NEW n \in Nat
  PROVE  Covered(iv, WindowOf(t0, bucket, n)) = TotalOf(BucketCover(iv, t0, bucket, n))
<1> DEFINE In(T) == {t \in T : iv[1] <= t /\ t < iv[2]}
           W == WindowOf(t0, bucket, n)
           N == 0 .. n - 1
           P == [j \in N |-> In(TicksOf(t0, bucket, j))]
<1>1. IsFiniteSet(W) /\ IsFiniteSet(N)
  BY WindowFinite, FS_Interval
<1>2. IsFiniteSet(In(W))
  BY <1>1, FS_Subset
<1>3. /\ \A j \in N : P[j] = In(TicksOf(t0, bucket, j))
      /\ P = [j \in N |-> P[j]]
  OBVIOUS
<1>4. /\ \A j \in N : TicksOf(t0, bucket, j) \subseteq W
      /\ \A j, k \in N : j # k => TicksOf(t0, bucket, j) \cap TicksOf(t0, bucket, k) = {}
      /\ \A t \in W : \E j \in N : t \in TicksOf(t0, bucket, j)
  BY BucketsPartWindow
<1>5. \A T : Cardinality(In(T)) = Covered(iv, T)
  BY DEF Covered, Spanned
<1>6. \A T, t : t \in In(T) <=> t \in T /\ iv[1] <= t /\ t < iv[2]
  OBVIOUS
<1> HIDE DEF W, N, P, In
<1>7. /\ \A j \in N : P[j] \subseteq In(W)
      /\ \A j, k \in N : j # k => P[j] \cap P[k] = {}
      /\ \A t \in In(W) : \E j \in N : t \in P[j]
  BY <1>3, <1>4, <1>6
<1>8. Cardinality(In(W)) = TotalOf([j \in N |-> Cardinality(P[j])])
  BY <1>1, <1>2, <1>3, <1>7, PartSizes DEF Parts, SizeByParts
<1>9. [j \in N |-> Cardinality(P[j])] = [j \in N |-> Covered(iv, TicksOf(t0, bucket, j))]
  BY <1>3, <1>5
<1> QED BY <1>5, <1>8, <1>9 DEF W, N, BucketCover

\* What all buckets together hold.
LEMMA BucketsTotal ==
  ASSUME NEW ivs, IsFiniteSet(DOMAIN ivs), Spanning(ivs), NEW rate, \A i \in DOMAIN ivs : rate[i] \in Nat,
         NEW t0 \in Nat, NEW bucket \in Nat \ {0}, NEW n \in Nat
  PROVE  TotalOf(BucketSums(ivs, rate, t0, bucket, n))
           = RatesCovered(ivs, rate, WindowOf(t0, bucket, n))
<1>d. PICK D : D = DOMAIN ivs
  OBVIOUS
<1> DEFINE N == 0 .. n - 1
           c == [i \in D |-> [j \in N |-> Covered(ivs[i], TicksOf(t0, bucket, j))]]
           m == [i \in D |-> [j \in N |-> rate[i] * c[i][j]]]
<1>1. IsFiniteSet(N) /\ N \subseteq Nat
  BY FS_Interval
<1>2. \A i \in D, j \in N : c[i][j] = Covered(ivs[i], TicksOf(t0, bucket, j)) /\ c[i][j] \in Nat
  BY <1>1, TicksFinite, CoveredType
<1>3. \A i \in D, j \in N : m[i][j] = rate[i] * c[i][j] /\ m[i][j] \in Nat
  <2> SUFFICES ASSUME NEW i \in D, NEW j \in N PROVE m[i][j] = rate[i] * c[i][j] /\ m[i][j] \in Nat
    OBVIOUS
  <2>1. c[i][j] \in Nat /\ rate[i] \in Nat
    BY <1>2, <1>d
  <2>2. m[i][j] = rate[i] * c[i][j]
    OBVIOUS
  <2> HIDE DEF c, m
  <2> QED BY <2>1, <2>2
<1>4. \A i \in D : c[i] = [j \in N |-> Covered(ivs[i], TicksOf(t0, bucket, j))] /\ DOMAIN c[i] = N
  OBVIOUS
<1>5. DOMAIN BucketSums(ivs, rate, t0, bucket, n) = N /\ BucketSums(ivs, rate, t0, bucket, n) = [j \in N |-> BucketSums(ivs, rate, t0, bucket, n)[j]]
  BY DEF BucketSums
<1> HIDE DEF c, m
<1>6. RowsFirst(D, N, m) = ColumnsFirst(D, N, m)
  <2> HIDE DEF N
  <2> QED BY <1>1, <1>3, <1>d, SumsCommute
<1>7. ASSUME NEW j \in N
      PROVE  BucketSums(ivs, rate, t0, bucket, n)[j] = TotalOf([i \in D |-> m[i][j]])
  <2>1. BucketSums(ivs, rate, t0, bucket, n)[j]
          = RatesCovered(ivs, rate, TicksOf(t0, bucket, j))
    BY BucketValue
  <2>2. [i \in D |-> m[i][j]] = [i \in D |-> rate[i] * Covered(ivs[i], TicksOf(t0, bucket, j))]
    <3> HIDE DEF N
    <3> QED BY <1>2, <1>3
  <2> QED BY <2>1, <2>2, <1>d DEF RatesCovered
<1>8. ASSUME NEW i \in D
      PROVE  TotalOf([j \in N |-> m[i][j]]) = rate[i] * Covered(ivs[i], WindowOf(t0, bucket, n))
  <2>0. c[i] = BucketCover(ivs[i], t0, bucket, n)
    BY <1>4 DEF BucketCover
  <2>1. Covered(ivs[i], WindowOf(t0, bucket, n)) = TotalOf(c[i])
    BY <2>0, CoveredInBuckets
  <2> HIDE DEF N
  <2>2. PICK a, r : a = c[i] /\ r = rate[i]
    OBVIOUS
  <2>3. r \in Nat /\ DOMAIN a = N /\ \A j \in DOMAIN a : a[j] \in Nat
    BY <2>2, <1>2, <1>4, <1>d
  <2>4. TotalOf([j \in DOMAIN a |-> r * a[j]]) = r * TotalOf(a)
    BY ONLY <1>1, <2>3, SumScaled
  <2>5. [j \in N |-> m[i][j]] = [j \in N |-> r * a[j]]
    BY <1>3, <2>2
  <2> QED BY <2>1, <2>2, <2>3, <2>4, <2>5
<1>9. [j \in N |-> BucketSums(ivs, rate, t0, bucket, n)[j]] = [j \in N |-> TotalOf([i \in D |-> m[i][j]])]
  BY <1>7
<1>10. [i \in D |-> TotalOf([j \in N |-> m[i][j]])]
         = [i \in D |-> rate[i] * Covered(ivs[i], WindowOf(t0, bucket, n))]
  BY <1>8
<1> QED BY <1>5, <1>6, <1>9, <1>10, <1>d DEF RatesCovered, RowsFirst, ColumnsFirst

\* Scale is a multiple of the length of every call, so that every rate is a whole number.
Divisible(rows) ==
  \A i \in DOMAIN rows :
    rows[i].acq # 0 /\ rows[i].done > rows[i].acq => \E k \in Nat : Scale = k * (rows[i].done - rows[i].acq)

\* The calls whose tokens a timeline spreads over its buckets, and the share that it must keep.
ServedUpTo(rows, now) ==
  Having(rows, LAMBDA e : /\ e.outcome = "completed" /\ e.acq # 0 /\ e.done > e.acq
                          /\ e.enq <= now)
Inside(e, since, end) == (Scale * Cardinality({t \in e.acq .. e.done - 1 : since <= t /\ t < end})) \div (e.done - e.acq)
TokensInside(rows, weight, since, end, now) ==
  TotalOf([i \in DOMAIN ServedUpTo(rows, now) |-> weight[i] * Inside(ServedUpTo(rows, now)[i], since, end)])
\* The intervals of those calls that a fetch found and that have tokens.
WeightOf(rows, weight) == \A i \in DOMAIN rows : weight[i] \in Nat
Weighted(rows, weight, low, now, ivs) ==
  /\ \A i : i \in DOMAIN ivs <=> /\ i \in DOMAIN ServedUpTo(rows, now) /\ rows[i].done >= low /\ weight[i] > 0
  /\ \A i \in DOMAIN ivs : ivs[i][1] = rows[i].acq /\ ivs[i][2] = rows[i].done /\ ivs[i][3] = weight[i]

\* The calls whose tokens are spread.
LEMMA ServedFacts ==
  ASSUME NEW rows, NEW now
  PROVE  /\ \A i : i \in DOMAIN ServedUpTo(rows, now)
                     <=> /\ i \in DOMAIN rows /\ rows[i].outcome = "completed" /\ rows[i].acq # 0
                         /\ rows[i].done > rows[i].acq /\ rows[i].enq <= now
         /\ \A i \in DOMAIN ServedUpTo(rows, now) : ServedUpTo(rows, now)[i] = rows[i]
BY DEF ServedUpTo, Having, Restrict

\* The intervals of positive length.
LEMMA ProperFacts ==
  ASSUME NEW ivs
  PROVE  /\ \A i : i \in DOMAIN Proper(ivs) <=> i \in DOMAIN ivs /\ ivs[i][2] > ivs[i][1]
         /\ \A i \in DOMAIN Proper(ivs) : Proper(ivs)[i] = ivs[i]
BY DEF Proper, Having, Restrict

\* The rate of a call times the ticks of it in the window is its weight times its share.
Share(d, w) == (Scale * w) \div d
Divides(d)  == \E k \in Nat : Scale = k * d

\* The rate of a call times its ticks inside is its share of Scale.
LEMMA ShareOfCall ==
  ASSUME NEW d \in Nat, d > 0, Divides(d), NEW w \in Nat, NEW c \in Nat
  PROVE  /\ Share(d, w) \in Nat /\ Share(d, c) \in Nat
         /\ Share(d, w) * c = w * Share(d, c)
<1>1. PICK k \in Nat : Scale = k * d
  BY DEF Divides
<1>2. PICK x, y \in Nat : x = k * w /\ y = k * c
  OBVIOUS
<1>3. (x * d) \div d = x /\ (y * d) \div d = y
  BY ExactQuotient
<1>4. Scale * w = x * d /\ Scale * c = y * d
  BY <1>1, <1>2
<1>5. x * c = w * y
  BY <1>2
<1>6. Share(d, w) = x /\ Share(d, c) = y
  BY <1>3, <1>4 DEF Share
<1> QED BY <1>5, <1>6

EndOf(t0, bucket, n) == t0 + n * bucket

\* The tokens of weighted intervals over all buckets.
LEMMA TokensSpread ==
  ASSUME NEW rows, EventTable(rows), Divisible(rows), NEW weight, WeightOf(rows, weight),
         NEW since \in Nat, NEW low \in Int, low <= since, NEW now \in Nat,
         NEW bucket \in Nat \ {0}, NEW n \in Nat, NEW ivs, Weighted(rows, weight, low, now, ivs)
  PROVE  TotalOf(BucketWeighted(ivs, since, bucket, n)) = TokensInside(rows, weight, since, EndOf(since, bucket, n), now)
<1>e. PICK end \in Nat : end = since + n * bucket
  OBVIOUS
<1> DEFINE D == DOMAIN Proper(ivs)
           rate == [i \in D |-> (Scale * ivs[i][3]) \div (ivs[i][2] - ivs[i][1])]
           W == WindowOf(since, bucket, n)
           served == ServedUpTo(rows, now)
           a == [i \in D |-> rate[i] * Covered(Proper(ivs)[i], W)]
           b == [i \in DOMAIN served |-> weight[i] * Inside(served[i], since, end)]
<1>1. /\ \A i : i \in DOMAIN ivs <=> i \in DOMAIN served /\ rows[i].done >= low /\ weight[i] > 0
      /\ \A i \in DOMAIN ivs : ivs[i][1] = rows[i].acq /\ ivs[i][2] = rows[i].done /\ ivs[i][3] = weight[i]
  BY DEF Weighted
<1>2. /\ \A i : i \in DOMAIN served
                  <=> /\ i \in DOMAIN rows /\ rows[i].outcome = "completed" /\ rows[i].acq # 0
                      /\ rows[i].done > rows[i].acq /\ rows[i].enq <= now
      /\ \A i \in DOMAIN served : served[i] = rows[i]
  BY ServedFacts
<1>3. \A i \in DOMAIN served : rows[i].acq \in Nat /\ rows[i].done \in Nat /\ weight[i] \in Nat
                                /\ rows[i].done > rows[i].acq
  BY <1>2 DEF EventTable, WeightOf
<1>4. /\ D = DOMAIN ivs
      /\ \A i \in D : Proper(ivs)[i] = ivs[i]
  BY <1>1, <1>3, ProperFacts, ZenonT(40)
<1> HIDE DEF served, D
<1>5. IsFiniteSet(D) /\ D \subseteq DOMAIN served
  <2>1. D \subseteq DOMAIN rows /\ D \subseteq DOMAIN served
    BY <1>1, <1>2, <1>4
  <2> QED BY <2>1, FS_Subset DEF EventTable
<1>6. ASSUME NEW i \in DOMAIN served
      PROVE  \E k \in Nat : Scale = k * (rows[i].done - rows[i].acq)
  BY <1>2 DEF Divisible
<1>7. ASSUME NEW i \in DOMAIN served
      PROVE  /\ (Scale * weight[i]) \div (rows[i].done - rows[i].acq) \in Nat
             /\ \A c \in Nat : /\ (Scale * c) \div (rows[i].done - rows[i].acq) \in Nat
                               /\ ((Scale * weight[i]) \div (rows[i].done - rows[i].acq)) * c
                                    = weight[i] * ((Scale * c) \div (rows[i].done - rows[i].acq))
  <2>1. PICK s, e, w \in Nat : s = rows[i].acq /\ e = rows[i].done /\ e > s /\ w = weight[i]
    BY <1>3
  <2>2. PICK d \in Nat : d = e - s /\ d > 0
    BY <2>1
  <2>a. Divides(d)
    BY <1>6, <2>1, <2>2 DEF Divides
  <2>3. \A c \in Nat : Share(d, w) \in Nat /\ Share(d, c) \in Nat /\ Share(d, w) * c = w * Share(d, c)
    BY <2>2, <2>a, ShareOfCall
  <2>4. 0 \in Nat
    OBVIOUS
  <2> QED BY <2>1, <2>2, <2>3, <2>4 DEF Share
<1>8. ASSUME NEW i \in DOMAIN served
      PROVE  Cardinality({t \in served[i].acq .. served[i].done - 1 : since <= t /\ t < end})
               = Spanned(rows[i].acq, rows[i].done, W)
  <2>1. PICK s, e \in Nat : s = rows[i].acq /\ e = rows[i].done
    BY <1>3
  <2>2. {t \in s .. e - 1 : since <= t /\ t < end} = {t \in since .. end - 1 : s <= t /\ t < e}
    OBVIOUS
  <2>3. served[i].acq = s /\ served[i].done = e
    BY <1>2, <2>1
  <2>4. W = since .. end - 1
    BY <1>e DEF WindowOf
  <2> QED BY <2>1, <2>2, <2>3, <2>4 DEF Spanned
<1>9. IsFiniteSet(W)
  BY WindowFinite
<1>10. ASSUME NEW i \in DOMAIN served
       PROVE  /\ b[i] = weight[i] * ((Scale * Spanned(rows[i].acq, rows[i].done, W)) \div (rows[i].done - rows[i].acq))
              /\ Spanned(rows[i].acq, rows[i].done, W) \in Nat
  <2>1. b[i] = weight[i] * Inside(served[i], since, end) /\ served[i] = rows[i]
    BY <1>2
  <2>2. Covered(<<rows[i].acq, rows[i].done>>, W) \in Nat
    BY <1>9, CoveredType
  <2> HIDE DEF W, b
  <2> QED BY <1>8, <2>1, <2>2 DEF Inside, Covered
<1>11. ASSUME NEW i \in D
       PROVE  /\ rate[i] = (Scale * weight[i]) \div (rows[i].done - rows[i].acq)
              /\ Covered(Proper(ivs)[i], W) = Spanned(rows[i].acq, rows[i].done, W)
              /\ a[i] = rate[i] * Covered(Proper(ivs)[i], W)
  BY <1>1, <1>4 DEF Covered
<1>12. DOMAIN a = D /\ DOMAIN b = DOMAIN served
  OBVIOUS
<1> HIDE DEF a, b, rate, W
<1>13. \A i \in D : a[i] = b[i]
  BY <1>5, <1>7, <1>10, <1>11
<1>14. ASSUME NEW i \in DOMAIN served, i \notin D
       PROVE  b[i] = 0
  <2>1. weight[i] = 0 \/ rows[i].done < low
    <3>1. rows[i].done \in Nat /\ weight[i] \in Nat
      BY <1>3
    <3> QED BY <1>1, <1>4, <1>14, <3>1
  <2>2. CASE weight[i] = 0
    <3>1. PICK q : q = (Scale * Spanned(rows[i].acq, rows[i].done, W)) \div (rows[i].done - rows[i].acq)
      OBVIOUS
    <3>2. b[i] = 0 * q /\ q \in Nat
      BY <1>7, <1>10, <2>2, <3>1
    <3> QED BY <3>2
  <2>3. CASE rows[i].done < low
    <3>1. PICK s, e \in Nat : s = rows[i].acq /\ e = rows[i].done /\ e > s
      BY <1>3
    <3>2. {t \in W : s <= t /\ t < e} = {}
      <4>1. \A t \in W : t \in Nat /\ t >= since
        BY WindowFinite DEF W, WindowOf
      <4> QED BY <2>3, <3>1, <4>1
    <3>3. Spanned(s, e, W) = 0
      BY <3>2, FS_EmptySet DEF Spanned
    <3>4. PICK k \in Nat : Scale = k * (e - s)
      BY <1>6, <3>1
    <3>5. (Scale * 0) \div (e - s) = 0
      <4>1. PICK d \in Nat : d = e - s /\ d > 0
        BY <3>1
      <4>2. 0 \div d = 0
        BY <4>1
      <4> QED BY <4>1, <4>2, ViewsAssumption
    <3>6. b[i] = weight[i] * 0 /\ weight[i] \in Nat
      BY <1>3, <1>10, <3>1, <3>3, <3>5
    <3> QED BY <3>6
  <2> QED BY <2>1, <2>2, <2>3
<1>15. TotalOf(a) = TotalOf(b)
  BY <1>5, <1>12, <1>13, <1>14, SumWithoutZeros
<1>16. /\ Spanning(Proper(ivs)) /\ \A i \in DOMAIN Proper(ivs) : rate[i] \in Nat
  <2>1. \A i \in D : rate[i] \in Nat
    BY <1>5, <1>7, <1>11
  <2>2. \A i \in D : Proper(ivs)[i][1] \in Nat /\ Proper(ivs)[i][2] \in Nat
    BY <1>1, <1>3, <1>4, <1>5
  <2> QED BY <2>1, <2>2 DEF Spanning, D
<1>17. TotalOf(BucketSums(Proper(ivs), rate, since, bucket, n)) = TotalOf(a)
  <2>1. PICK pr : pr = Proper(ivs)
    OBVIOUS
  <2>2. DOMAIN pr = D
    BY <2>1 DEF D
  <2>3. a = [i \in DOMAIN pr |-> rate[i] * Covered(pr[i], W)]
    BY <2>1, <2>2 DEF a
  <2>4. TotalOf(BucketSums(pr, rate, since, bucket, n)) = RatesCovered(pr, rate, WindowOf(since, bucket, n))
    BY <1>5, <1>16, <2>1, <2>2, BucketsTotal
  <2> QED BY <2>1, <2>3, <2>4 DEF W, RatesCovered
<1>18. BucketWeighted(ivs, since, bucket, n) = BucketSums(Proper(ivs), rate, since, bucket, n)
  <2>1. [i \in DOMAIN Proper(ivs) |-> (Scale * Proper(ivs)[i][3]) \div (Proper(ivs)[i][2] - Proper(ivs)[i][1])] = rate
    BY <1>4 DEF rate, D
  <2> QED BY <2>1 DEF BucketWeighted
<1>19. TokensInside(rows, weight, since, end, now) = TotalOf(b)
  BY DEF TokensInside, b, served
<1> QED BY <1>e, <1>15, <1>17, <1>18, <1>19 DEF EndOf

\* The intervals that a timeline makes of the completed calls.
ServedOf(events) == Having(HeldSlot(events), LAMBDA e : e.outcome = "completed" /\ e.done > e.acq)
SizedOf(events)  == Having(ServedOf(events), LAMBDA e : e.tokens > 0)
AskedOf(events)  == Having(ServedOf(events), LAMBDA e : e.prompt > 0)
OutputOf(events) ==
  [i \in DOMAIN SizedOf(events) |-> <<SizedOf(events)[i].acq, SizedOf(events)[i].done, SizedOf(events)[i].tokens>>]
InputOf(events)  ==
  [i \in DOMAIN AskedOf(events) |-> <<AskedOf(events)[i].acq, AskedOf(events)[i].done, AskedOf(events)[i].prompt>>]

\* The fetched calls whose tokens are spread, and their two lists of intervals.
LEMMA ServedOfFacts ==
  ASSUME NEW events
  PROVE  /\ \A i : i \in DOMAIN ServedOf(events)
                     <=> /\ i \in DOMAIN events /\ events[i].acq # 0
                         /\ events[i].outcome = "completed" /\ events[i].done > events[i].acq
         /\ \A i \in DOMAIN ServedOf(events) : ServedOf(events)[i] = events[i]
BY HeldFacts DEF ServedOf, Having, Restrict

\* The intervals weighted by the tokens generated.
LEMMA OutputFacts ==
  ASSUME NEW events
  PROVE  /\ \A i : i \in DOMAIN SizedOf(events) <=> i \in DOMAIN ServedOf(events) /\ events[i].tokens > 0
         /\ \A i : i \in DOMAIN OutputOf(events) <=> i \in DOMAIN ServedOf(events) /\ events[i].tokens > 0
         /\ \A i \in DOMAIN SizedOf(events) : SizedOf(events)[i] = events[i]
         /\ \A i \in DOMAIN OutputOf(events) :
              /\ OutputOf(events)[i][1] = events[i].acq /\ OutputOf(events)[i][2] = events[i].done
              /\ OutputOf(events)[i][3] = events[i].tokens
<1>1. /\ \A i : i \in DOMAIN SizedOf(events) <=> i \in DOMAIN ServedOf(events) /\ events[i].tokens > 0
      /\ \A i \in DOMAIN SizedOf(events) : SizedOf(events)[i] = events[i]
  BY ServedOfFacts DEF SizedOf, Having, Restrict
<1> QED BY <1>1 DEF OutputOf

\* The intervals weighted by the tokens of the prompt.
LEMMA InputFacts ==
  ASSUME NEW events
  PROVE  /\ \A i : i \in DOMAIN InputOf(events) <=> i \in DOMAIN ServedOf(events) /\ events[i].prompt > 0
         /\ \A i \in DOMAIN InputOf(events) :
              /\ InputOf(events)[i][1] = events[i].acq /\ InputOf(events)[i][2] = events[i].done
              /\ InputOf(events)[i][3] = events[i].prompt
<1>1. /\ \A i : i \in DOMAIN AskedOf(events) <=> i \in DOMAIN ServedOf(events) /\ events[i].prompt > 0
      /\ \A i \in DOMAIN AskedOf(events) : AskedOf(events)[i] = events[i]
  BY ServedOfFacts DEF AskedOf, Having, Restrict
<1> QED BY <1>1 DEF InputOf

\* The token rates of a timeline are those of its two lists.
LEMMA TimelineTokens ==
  ASSUME NEW rows, NEW since, NEW now, NEW bucket, NEW aliases, NEW events, events = FetchEvents(rows, since - 1, now)
  PROVE  /\ Timeline(rows, since, now, bucket, aliases).out_tok
              = BucketWeighted(OutputOf(events), since, bucket, BucketsOf(since, now, bucket))
         /\ Timeline(rows, since, now, bucket, aliases).in_tok
              = BucketWeighted(InputOf(events), since, bucket, BucketsOf(since, now, bucket))
BY DEF Timeline, OutputOf, InputOf, SizedOf, AskedOf, ServedOf, BucketsOf

\* All tokens of a completed call in the window are in its buckets.
THEOREM TokensAreConserved ==
  ASSUME NEW rows, EventTable(rows), Divisible(rows), NEW since \in Nat, NEW now \in Nat, since <= now,
         NEW bucket \in Nat \ {0}
  PROVE  TokensConserved(rows, since, now, bucket)
<1> DEFINE timeline == Timeline(rows, since, now, bucket, <<>>)
           events == FetchEvents(rows, since - 1, now)
           n == BucketsOf(since, now, bucket)
           tokens == [i \in DOMAIN rows |-> rows[i].tokens]
           prompt == [i \in DOMAIN rows |-> rows[i].prompt]
           served == ServedUpTo(rows, now)
<1>1. PICK low \in Int : low = since - 1 /\ low <= since
  OBVIOUS
<1>2. n \in Nat /\ n = (now - since) \div bucket + 1
  BY BucketsFacts
<1>3. PICK end \in Nat : end = since + n * bucket
  BY <1>2
<1>4. /\ timeline.out_tok = BucketWeighted(OutputOf(events), since, bucket, n)
      /\ timeline.in_tok = BucketWeighted(InputOf(events), since, bucket, n)
  BY TimelineTokens
<1>5. /\ \A i : i \in DOMAIN events <=> i \in DOMAIN rows /\ rows[i].done >= low /\ rows[i].enq <= now
      /\ \A i \in DOMAIN events : events[i] = rows[i]
  BY <1>1, FetchFacts
<1>6. /\ \A i \in DOMAIN rows : tokens[i] = rows[i].tokens /\ prompt[i] = rows[i].prompt
      /\ \A i \in DOMAIN rows : tokens[i] \in Nat /\ prompt[i] \in Nat
  BY DEF EventTable
<1> HIDE DEF timeline, events, n, tokens, prompt, served
<1>7. /\ \A i : i \in DOMAIN served
                  <=> /\ i \in DOMAIN rows /\ rows[i].outcome = "completed" /\ rows[i].acq # 0
                      /\ rows[i].done > rows[i].acq /\ rows[i].enq <= now
      /\ \A i \in DOMAIN served : served[i] = rows[i]
  BY ServedFacts DEF served
<1>8. \A i : i \in DOMAIN ServedOf(events) <=> i \in DOMAIN served /\ rows[i].done >= low
  BY <1>5, <1>7, ServedOfFacts
<1>9. \A i \in DOMAIN ServedOf(events) : i \in DOMAIN rows /\ events[i] = rows[i]
  BY <1>5, ServedOfFacts
<1>10. Weighted(rows, tokens, low, now, OutputOf(events))
  <2>1. \A i : i \in DOMAIN OutputOf(events) <=> i \in DOMAIN served /\ rows[i].done >= low /\ tokens[i] > 0
    BY <1>6, <1>8, <1>9, OutputFacts
  <2>2. \A i \in DOMAIN OutputOf(events) :
          /\ OutputOf(events)[i][1] = rows[i].acq /\ OutputOf(events)[i][2] = rows[i].done
          /\ OutputOf(events)[i][3] = tokens[i]
    BY <1>6, <1>9, OutputFacts
  <2> QED BY <2>1, <2>2 DEF Weighted, served
<1>11. Weighted(rows, prompt, low, now, InputOf(events))
  <2>1. \A i : i \in DOMAIN InputOf(events) <=> i \in DOMAIN served /\ rows[i].done >= low /\ prompt[i] > 0
    BY <1>6, <1>8, <1>9, InputFacts
  <2>2. \A i \in DOMAIN InputOf(events) :
          /\ InputOf(events)[i][1] = rows[i].acq /\ InputOf(events)[i][2] = rows[i].done
          /\ InputOf(events)[i][3] = prompt[i]
    BY <1>6, <1>9, InputFacts
  <2> QED BY <2>1, <2>2 DEF Weighted, served
<1>12. /\ TotalOf(timeline.out_tok) = TokensInside(rows, tokens, since, end, now)
       /\ TotalOf(timeline.in_tok) = TokensInside(rows, prompt, since, end, now)
  <2>1. n \in Nat
    BY <1>2
  <2>2. ASSUME NEW weight, WeightOf(rows, weight), NEW ivs, Weighted(rows, weight, low, now, ivs)
        PROVE  TotalOf(BucketWeighted(ivs, since, bucket, n)) = TokensInside(rows, weight, since, EndOf(since, bucket, n), now)
    BY ONLY <1>1, <2>1, <2>2, TokensSpread, EventTable(rows), Divisible(rows), since \in Nat, now \in Nat,
            bucket \in Nat \ {0}, end \in Nat, low \in Int
  <2>3. WeightOf(rows, tokens) /\ WeightOf(rows, prompt)
    BY <1>6 DEF WeightOf
  <2> QED BY <1>3, <1>4, <1>10, <1>11, <2>2, <2>3 DEF EndOf
<1>13. /\ [i \in DOMAIN served |-> tokens[i] * Inside(served[i], since, end)]
            = [i \in DOMAIN served |-> served[i].tokens * Inside(served[i], since, end)]
       /\ [i \in DOMAIN served |-> prompt[i] * Inside(served[i], since, end)]
            = [i \in DOMAIN served |-> served[i].prompt * Inside(served[i], since, end)]
  BY <1>6, <1>7
<1>14. /\ TotalOf(timeline.out_tok) = TotalOf([i \in DOMAIN served |-> served[i].tokens * Inside(served[i], since, end)])
       /\ TotalOf(timeline.in_tok) = TotalOf([i \in DOMAIN served |-> served[i].prompt * Inside(served[i], since, end)])
  BY <1>12, <1>13 DEF TokensInside, served
<1>15. end = since + ((now - since) \div bucket + 1) * bucket
  BY <1>2, <1>3
<1> QED BY <1>14, <1>15 DEF TokensConserved, Inside, ServedUpTo, served, timeline

-----------------------------------------------------------------------------
\* Stacked charts.

\* The labels of a stacked chart part the calls: none is lost, none counted twice.
LEMMA StackedParts ==
  ASSUME NEW events, NEW nameOf, IsFiniteSet(DOMAIN nameOf),
         \A i \in DOMAIN nameOf : nameOf[i] # "<other>", NEW weight
  PROVE  Parts(Stacked(events, nameOf, weight), DOMAIN Stacked(events, nameOf, weight), DOMAIN nameOf)
<1> DEFINE names == {nameOf[i] : i \in DOMAIN nameOf}
           rest == Rest(events, nameOf, weight)
           top  == names \ rest
           labels == top \cup (IF rest = {} THEN {} ELSE {"<other>"})
           parts == [label \in labels |-> {i \in DOMAIN nameOf : nameOf[i] \in IF label \in top THEN {label} ELSE rest}]
<1>1. rest \subseteq names
  BY DEF Rest
<1>2. Stacked(events, nameOf, weight) = parts
  BY DEF Stacked
<1>3. IsFiniteSet(names)
  BY FiniteImage
<1>4. IsFiniteSet(top)
  BY <1>3, FS_Subset
<1>5. IsFiniteSet(labels)
  <2>1. IsFiniteSet({"<other>"}) /\ IsFiniteSet({})
    BY FS_Singleton, FS_EmptySet
  <2>2. CASE rest = {}
    BY <1>4, <2>2
  <2>3. CASE rest # {}
    <3>1. labels = top \cup {"<other>"}
      BY <2>3
    <3> HIDE DEF labels, top
    <3> QED BY <1>4, <2>1, <3>1, FS_Union
  <2> QED BY <2>2, <2>3
<1>6. "<other>" \notin names
  OBVIOUS
<1>7. \A i \in DOMAIN nameOf : nameOf[i] \in names
  OBVIOUS
<1>8. /\ DOMAIN parts = labels /\ parts = [y \in labels |-> parts[y]]
      /\ \A y \in labels : \A i : i \in parts[y] <=> i \in DOMAIN nameOf /\ nameOf[i] \in IF y \in top THEN {y} ELSE rest
  OBVIOUS
<1>9. /\ \A y \in labels : y \in top \/ (y = "<other>" /\ y \notin top)
      /\ \A y \in top : y \in labels /\ y \in names /\ y \notin rest
      /\ \A y \in rest : "<other>" \in labels
      /\ \A y \in names : y \in top \/ y \in rest
      /\ "<other>" \notin top
  BY <1>6
<1> HIDE DEF names, rest, top, labels, parts
<1>10. \A y \in labels : parts[y] \subseteq DOMAIN nameOf
  BY <1>8
<1>11. \A y, z \in labels : y # z => parts[y] \cap parts[z] = {}
  <2> SUFFICES ASSUME NEW y \in labels, NEW z \in labels, NEW i \in parts[y], i \in parts[z]
               PROVE  y = z
    OBVIOUS
  <2>1. /\ nameOf[i] \in IF y \in top THEN {y} ELSE rest
        /\ nameOf[i] \in IF z \in top THEN {z} ELSE rest
    BY <1>8
  <2>2. CASE y \in top
    BY <1>9, <2>1, <2>2
  <2>3. CASE y \notin top
    BY <1>9, <2>1, <2>3
  <2> QED BY <2>2, <2>3
<1>12. ASSUME NEW i \in DOMAIN nameOf PROVE \E y \in labels : i \in parts[y]
  <2>1. CASE nameOf[i] \in top
    BY <1>8, <1>9, <2>1
  <2>2. CASE nameOf[i] \in rest
    BY <1>8, <1>9, <2>2
  <2> QED BY <1>7, <1>9, <2>1, <2>2
<1> QED BY <1>2, <1>5, <1>8, <1>10, <1>11, <1>12 DEF Parts

\* The curves of the parts add up to the curve of the whole.
CurveSum(ivs, P, N, t0, bucket, n, j) ==
  TotalOf([y \in N |-> BucketConcurrency(Restrict(ivs, P[y]), t0, bucket, n)[j]])

\* The curves of the parts of a list add up to its curve.
LEMMA CurveParts ==
  ASSUME NEW ivs, IsFiniteSet(DOMAIN ivs), Spanning(ivs), NEW N, NEW P, Parts(P, N, DOMAIN ivs),
         NEW t0 \in Nat, NEW bucket \in Nat \ {0}, NEW n \in Nat, NEW j \in 0 .. n - 1
  PROVE  CurveSum(ivs, P, N, t0, bucket, n, j) = AllCovered(ivs, TicksOf(t0, bucket, j))
<1> DEFINE T == TicksOf(t0, bucket, j)
           a == [i \in DOMAIN ivs |-> Covered(ivs[i], T)]
<1>1. Amounts(a) /\ DOMAIN a = DOMAIN ivs
  <2>1. \A i \in DOMAIN ivs : Covered(ivs[i], T) \in Nat
    BY TicksFinite, CoveredType
  <2> QED BY <2>1 DEF Amounts
<1>2. TotalOf(a) = AllCovered(ivs, T)
  BY DEF AllCovered
<1>3. \A i \in DOMAIN ivs : a[i] = Covered(ivs[i], T)
  OBVIOUS
<1> HIDE DEF a
<1>4. TotalOf(a) = SumByParts(a, P, N)
  BY <1>1, PartSums
<1>5. ASSUME NEW y \in N
      PROVE  BucketConcurrency(Restrict(ivs, P[y]), t0, bucket, n)[j] = TotalOf([i \in P[y] |-> a[i]])
  <2> DEFINE part == Restrict(ivs, P[y])
  <2>1. /\ DOMAIN part = P[y] /\ P[y] \subseteq DOMAIN ivs
        /\ \A i \in P[y] : part[i] = ivs[i]
    BY DEF Restrict, Parts
  <2> HIDE DEF part
  <2>2. IsFiniteSet(DOMAIN part) /\ Spanning(part)
    BY <2>1, FS_Subset DEF Spanning
  <2>3. BucketConcurrency(part, t0, bucket, n)[j] = AllCovered(part, T)
    BY <2>2, CurveValue
  <2>4. [i \in DOMAIN part |-> Covered(part[i], T)] = [i \in P[y] |-> a[i]]
    BY <1>3, <2>1
  <2> QED BY <2>3, <2>4 DEF AllCovered, part
<1>6. [y \in N |-> BucketConcurrency(Restrict(ivs, P[y]), t0, bucket, n)[j]] = [y \in N |-> TotalOf([i \in P[y] |-> a[i]])]
  BY <1>5
<1> QED BY <1>2, <1>4, <1>6 DEF CurveSum, SumByParts

\* So do the rates.
RateOf(iv) == (Scale * iv[3]) \div (iv[2] - iv[1])
RateSum(ivs, P, N, t0, bucket, n, j) ==
  TotalOf([y \in N |-> BucketWeighted(Restrict(ivs, P[y]), t0, bucket, n)[j]])
RatesOver(ivs, T) == TotalOf([i \in DOMAIN ivs |-> RateOf(ivs[i]) * Covered(ivs[i], T)])
\* Calls of positive length with a weight.
Loads(ivs) == /\ IsFiniteSet(DOMAIN ivs)
              /\ \A i \in DOMAIN ivs : ivs[i][1] \in Nat /\ ivs[i][2] \in Nat /\ ivs[i][3] \in Nat /\ ivs[i][2] > ivs[i][1]

\* A bucket of a rate is the sum over the weighted intervals.
LEMMA RateValue ==
  ASSUME NEW ivs, Loads(ivs), NEW t0 \in Nat, NEW bucket \in Nat \ {0}, NEW n \in Nat, NEW j \in 0 .. n - 1
  PROVE  /\ BucketWeighted(ivs, t0, bucket, n)[j] = RatesOver(ivs, TicksOf(t0, bucket, j))
         /\ \A i \in DOMAIN ivs : RateOf(ivs[i]) \in Nat
<1> DEFINE pr == Proper(ivs)
           rate == [i \in DOMAIN pr |-> (Scale * pr[i][3]) \div (pr[i][2] - pr[i][1])]
<1>1. \A i : i \in DOMAIN pr <=> i \in DOMAIN ivs
  BY ProperFacts DEF Loads
<1>2. DOMAIN pr = DOMAIN ivs /\ \A i \in DOMAIN ivs : pr[i] = ivs[i]
  BY <1>1, ProperFacts
<1>3. BucketWeighted(ivs, t0, bucket, n) = BucketSums(pr, rate, t0, bucket, n)
  BY DEF BucketWeighted
<1> HIDE DEF pr
<1>4. \A i \in DOMAIN pr : rate[i] = RateOf(ivs[i])
  BY <1>2 DEF RateOf
<1>5. \A i \in DOMAIN ivs : RateOf(ivs[i]) \in Nat
  <2> SUFFICES ASSUME NEW i \in DOMAIN ivs PROVE RateOf(ivs[i]) \in Nat
    OBVIOUS
  <2>1. PICK s, e, w \in Nat : s = ivs[i][1] /\ e = ivs[i][2] /\ w = ivs[i][3] /\ e > s
    BY DEF Loads
  <2>2. PICK d, x \in Nat : d = e - s /\ d > 0 /\ x = Scale * w
    BY <2>1, ViewsAssumption
  <2>3. x \div d \in Nat
    BY <2>2
  <2> QED BY <2>1, <2>2, <2>3 DEF RateOf
<1>6. Spanning(pr) /\ \A i \in DOMAIN pr : rate[i] \in Nat
  BY <1>2, <1>4, <1>5 DEF Spanning, Loads
<1> HIDE DEF rate
<1>7. BucketSums(pr, rate, t0, bucket, n)[j] = RatesCovered(pr, rate, TicksOf(t0, bucket, j))
  BY ONLY <1>6, t0 \in Nat, bucket \in Nat \ {0}, n \in Nat, j \in 0 .. n - 1, BucketValue
<1>8. [i \in DOMAIN pr |-> rate[i] * Covered(pr[i], TicksOf(t0, bucket, j))]
        = [i \in DOMAIN ivs |-> RateOf(ivs[i]) * Covered(ivs[i], TicksOf(t0, bucket, j))]
  BY <1>2, <1>4
<1> QED BY <1>3, <1>5, <1>7, <1>8 DEF RatesOver, RatesCovered

\* The rates of the parts of a list add up to its rate.
LEMMA RateParts ==
  ASSUME NEW ivs, Loads(ivs), NEW N, NEW P, Parts(P, N, DOMAIN ivs),
         NEW t0 \in Nat, NEW bucket \in Nat \ {0}, NEW n \in Nat, NEW j \in 0 .. n - 1
  PROVE  RateSum(ivs, P, N, t0, bucket, n, j) = BucketWeighted(ivs, t0, bucket, n)[j]
<1> DEFINE T == TicksOf(t0, bucket, j)
           a == [i \in DOMAIN ivs |-> RateOf(ivs[i]) * Covered(ivs[i], T)]
<1>0. /\ BucketWeighted(ivs, t0, bucket, n)[j] = RatesOver(ivs, T)
      /\ \A i \in DOMAIN ivs : RateOf(ivs[i]) \in Nat
  BY RateValue
<1>1. Amounts(a) /\ DOMAIN a = DOMAIN ivs
  <2>1. \A i \in DOMAIN ivs : Covered(ivs[i], T) \in Nat
    BY TicksFinite, CoveredType
  <2>2. \A i \in DOMAIN ivs : RateOf(ivs[i]) * Covered(ivs[i], T) \in Nat
    BY <1>0, <2>1
  <2> QED BY <2>2 DEF Amounts, Loads
<1>2. TotalOf(a) = RatesOver(ivs, T)
  BY DEF RatesOver
<1>3. \A i \in DOMAIN ivs : a[i] = RateOf(ivs[i]) * Covered(ivs[i], T)
  OBVIOUS
<1> HIDE DEF a
<1>4. TotalOf(a) = SumByParts(a, P, N)
  BY <1>1, PartSums
<1>5. ASSUME NEW y \in N
      PROVE  BucketWeighted(Restrict(ivs, P[y]), t0, bucket, n)[j] = TotalOf([i \in P[y] |-> a[i]])
  <2> DEFINE part == Restrict(ivs, P[y])
  <2>1. /\ DOMAIN part = P[y] /\ P[y] \subseteq DOMAIN ivs
        /\ \A i \in P[y] : part[i] = ivs[i]
    BY DEF Restrict, Parts
  <2> HIDE DEF part
  <2>2. Loads(part)
    BY <2>1, FS_Subset DEF Loads
  <2>3. BucketWeighted(part, t0, bucket, n)[j] = RatesOver(part, T)
    BY <2>2, RateValue
  <2>4. [i \in DOMAIN part |-> RateOf(part[i]) * Covered(part[i], T)] = [i \in P[y] |-> a[i]]
    BY <1>3, <2>1
  <2> QED BY <2>3, <2>4 DEF RatesOver, part
<1>6. [y \in N |-> BucketWeighted(Restrict(ivs, P[y]), t0, bucket, n)[j]] = [y \in N |-> TotalOf([i \in P[y] |-> a[i]])]
  BY <1>5
<1> QED BY <1>0, <1>2, <1>4, <1>6 DEF RateSum, SumByParts

\* The names that a chart stacks, and what it stacks them by.
KeysOf(events, aliases) == [i \in DOMAIN HeldSlot(events) |-> Alias(aliases, HeldSlot(events)[i].key)]
HoldsOf(events)         == [i \in DOMAIN HeldSlot(events) |-> HeldSlot(events)[i].done - HeldSlot(events)[i].acq]
ModelsOf(events)        == [i \in DOMAIN SizedOf(events) |-> SizedOf(events)[i].model]
SizesOf(events)         == [i \in DOMAIN SizedOf(events) |-> SizedOf(events)[i].tokens]
StackByKey(events, aliases) == Stacked(events, KeysOf(events, aliases), HoldsOf(events))
StackByModel(events)        == Stacked(events, ModelsOf(events), SizesOf(events))

\* "<other>" is not the name of a model nor, after the aliases, of a key.
NoOther(rows, aliases) ==
  \A i \in DOMAIN rows : rows[i].model # "<other>" /\ Alias(aliases, rows[i].key) # "<other>"

\* The stacked charts of a timeline are those of its rows behind each label.
LEMMA TimelineStacks ==
  ASSUME NEW rows, NEW since, NEW now, NEW bucket, NEW aliases, NEW events, events = FetchEvents(rows, since - 1, now)
  PROVE  /\ DOMAIN Timeline(rows, since, now, bucket, aliases).by_key = DOMAIN StackByKey(events, aliases)
         /\ \A k \in DOMAIN StackByKey(events, aliases) :
              Timeline(rows, since, now, bucket, aliases).by_key[k]
                = BucketConcurrency(Restrict(Active(events), StackByKey(events, aliases)[k]), since, bucket,
                                    BucketsOf(since, now, bucket))
         /\ DOMAIN Timeline(rows, since, now, bucket, aliases).by_out = DOMAIN StackByModel(events)
         /\ \A m \in DOMAIN StackByModel(events) :
              Timeline(rows, since, now, bucket, aliases).by_out[m]
                = BucketWeighted(Restrict(OutputOf(events), StackByModel(events)[m]), since, bucket,
                                 BucketsOf(since, now, bucket))
BY DEF Timeline, StackByKey, StackByModel, KeysOf, HoldsOf, ModelsOf, SizesOf, OutputOf, SizedOf, ServedOf, BucketsOf

\* The running calls by model.
ActiveOf(events) == [m \in DOMAIN ByModel(events) |-> DOMAIN Active(ByModel(events)[m])]

\* The calls that held a slot, by model.
LEMMA ActiveByModel ==
  ASSUME NEW events, EventTable(events)
  PROVE  /\ Parts(ActiveOf(events), DOMAIN ByModel(events), DOMAIN Active(events))
         /\ \A m \in DOMAIN ByModel(events) : Active(ByModel(events)[m]) = Restrict(Active(events), ActiveOf(events)[m])
<1> DEFINE names == [i \in DOMAIN events |-> events[i].model]
           group == Groups(events, names)
<1>1. ByModel(events) = group
  BY DEF ByModel
<1>2. DOMAIN names = DOMAIN events /\ \A i \in DOMAIN events : names[i] = events[i].model
  OBVIOUS
<1>3. DOMAIN group = {names[i] : i \in DOMAIN events}
  BY DEF Groups
<1>4. IsFiniteSet(DOMAIN group)
  <2> HIDE DEF names, group
  <2>1. DOMAIN group = {names[i] : i \in DOMAIN names}
    BY <1>2, <1>3
  <2> QED BY <1>2, <2>1, FiniteImage DEF EventTable
<1> HIDE DEF names
<1>5. /\ \A x : x \in DOMAIN group <=> \E i \in DOMAIN events : names[i] = x
      /\ \A x \in DOMAIN group :
           /\ \A i : i \in DOMAIN group[x] <=> i \in DOMAIN events /\ names[i] = x
           /\ \A i \in DOMAIN group[x] : group[x][i] = events[i]
  BY GroupFacts
<1> HIDE DEF group
<1>6. /\ \A i : i \in DOMAIN Active(events) <=> i \in DOMAIN events /\ events[i].acq # 0
      /\ Active(events) = [i \in DOMAIN Active(events) |-> <<events[i].acq, events[i].done>>]
  BY HeldFacts DEF Active
<1>7. ASSUME NEW m \in DOMAIN group
      PROVE  /\ \A i : i \in DOMAIN Active(group[m]) <=> i \in DOMAIN group[m] /\ group[m][i].acq # 0
             /\ Active(group[m]) = [i \in DOMAIN Active(group[m]) |-> <<group[m][i].acq, group[m][i].done>>]
  BY HeldFacts DEF Active
<1>8. ASSUME NEW m \in DOMAIN group
      PROVE  /\ \A i : i \in DOMAIN Active(group[m]) <=> i \in DOMAIN Active(events) /\ names[i] = m
             /\ Active(group[m]) = Restrict(Active(events), DOMAIN Active(group[m]))
  <2>1. \A i : i \in DOMAIN Active(group[m]) <=> i \in DOMAIN Active(events) /\ names[i] = m
    BY <1>5, <1>6, <1>7
  <2>2. \A i \in DOMAIN Active(group[m]) : group[m][i] = events[i]
    BY <1>5, <1>7
  <2>3. \A i \in DOMAIN Active(group[m]) : Active(events)[i] = <<group[m][i].acq, group[m][i].done>>
    BY <1>6, <2>1, <2>2
  <2>4. [i \in DOMAIN Active(group[m]) |-> <<group[m][i].acq, group[m][i].done>>]
          = [i \in DOMAIN Active(group[m]) |-> Active(events)[i]]
    BY <2>3
  <2> QED BY <1>7, <2>1, <2>4 DEF Restrict
<1>9. ActiveOf(events) = [m \in DOMAIN group |-> DOMAIN Active(group[m])]
  BY <1>1 DEF ActiveOf
<1>10. \A m \in DOMAIN group : ActiveOf(events)[m] = DOMAIN Active(group[m])
  BY <1>9
<1>11. ActiveOf(events) = [m \in DOMAIN group |-> ActiveOf(events)[m]]
  BY <1>9
<1>12. /\ \A m \in DOMAIN group : ActiveOf(events)[m] \subseteq DOMAIN Active(events)
       /\ \A m, k \in DOMAIN group : m # k => ActiveOf(events)[m] \cap ActiveOf(events)[k] = {}
       /\ \A i \in DOMAIN Active(events) : \E m \in DOMAIN group : i \in ActiveOf(events)[m]
  <2>1. \A m \in DOMAIN group : \A i : i \in ActiveOf(events)[m] <=> i \in DOMAIN Active(events) /\ names[i] = m
    BY <1>8, <1>10
  <2>2. \A i \in DOMAIN Active(events) : names[i] \in DOMAIN group
    BY <1>5, <1>6
  <2> QED BY ONLY <2>1, <2>2
<1> QED BY <1>1, <1>4, <1>8, <1>10, <1>11, <1>12 DEF Parts

\* The curves by key add up to the load of all models, and those by model to the
\* output of all models (StacksAddUp), with any number of keys cut to the top.
THEOREM StacksAdd ==
  ASSUME NEW rows, EventTable(rows), NEW aliases, NoOther(rows, aliases),
         NEW since \in Nat, NEW now \in Nat, since <= now, NEW bucket \in Nat \ {0}
  PROVE  StacksAddUp(rows, since, now, bucket, aliases)
<1> DEFINE timeline == Timeline(rows, since, now, bucket, aliases)
           events == FetchEvents(rows, since - 1, now)
           n == BucketsOf(since, now, bucket)
<1>1. n \in Nat
  BY BucketsFacts
<1>2. EventTable(events)
  BY FetchedTable
<1>3. /\ \A i : i \in DOMAIN events => i \in DOMAIN rows
      /\ \A i \in DOMAIN events : events[i] = rows[i]
  BY FetchFacts
<1>4. /\ DOMAIN timeline.active = DOMAIN ByModel(events)
      /\ \A m \in DOMAIN ByModel(events) :
           timeline.active[m] = BucketConcurrency(Active(ByModel(events)[m]), since, bucket, n)
  BY TimelineCurves
<1>5. /\ DOMAIN timeline.by_key = DOMAIN StackByKey(events, aliases)
      /\ \A k \in DOMAIN StackByKey(events, aliases) :
           timeline.by_key[k] = BucketConcurrency(Restrict(Active(events), StackByKey(events, aliases)[k]), since, bucket, n)
      /\ DOMAIN timeline.by_out = DOMAIN StackByModel(events)
      /\ \A m \in DOMAIN StackByModel(events) :
           timeline.by_out[m] = BucketWeighted(Restrict(OutputOf(events), StackByModel(events)[m]), since, bucket, n)
  BY TimelineStacks
<1>6. timeline.out_tok = BucketWeighted(OutputOf(events), since, bucket, n)
  BY TimelineTokens
<1>7. DOMAIN timeline.out_tok = 0 .. n - 1
  BY <1>6 DEF BucketWeighted, BucketSums
<1> HIDE DEF timeline, events, n
<1>8. Spanning(Active(events)) /\ IsFiniteSet(DOMAIN Active(events))
  BY <1>2, IntervalsOfEvents
<1>9. Parts(StackByKey(events, aliases), DOMAIN StackByKey(events, aliases), DOMAIN Active(events))
  <2>1. DOMAIN KeysOf(events, aliases) = DOMAIN Active(events)
    BY DEF KeysOf, Active
  <2>2. \A i \in DOMAIN KeysOf(events, aliases) : KeysOf(events, aliases)[i] # "<other>"
    <3> SUFFICES ASSUME NEW i \in DOMAIN HeldSlot(events) PROVE Alias(aliases, HeldSlot(events)[i].key) # "<other>"
      BY DEF KeysOf
    <3>1. i \in DOMAIN rows /\ HeldSlot(events)[i] = rows[i]
      BY <1>3, HeldFacts
    <3> QED BY <3>1 DEF NoOther
  <2> QED BY <1>8, <2>1, <2>2, StackedParts DEF StackByKey
<1>10. Loads(OutputOf(events))
  <2>1. \A i \in DOMAIN OutputOf(events) :
          /\ i \in DOMAIN events /\ events[i].acq # 0 /\ events[i].done > events[i].acq
          /\ OutputOf(events)[i][1] = events[i].acq /\ OutputOf(events)[i][2] = events[i].done
          /\ OutputOf(events)[i][3] = events[i].tokens
    BY OutputFacts, ServedOfFacts
  <2>2. IsFiniteSet(DOMAIN OutputOf(events))
    BY <1>2, <2>1, FS_Subset DEF EventTable
  <2> QED BY <1>2, <2>1, <2>2 DEF Loads, EventTable
<1>11. Parts(StackByModel(events), DOMAIN StackByModel(events), DOMAIN OutputOf(events))
  <2>1. DOMAIN ModelsOf(events) = DOMAIN OutputOf(events)
    BY DEF ModelsOf, OutputOf
  <2>2. \A i \in DOMAIN ModelsOf(events) : ModelsOf(events)[i] # "<other>"
    <3> SUFFICES ASSUME NEW i \in DOMAIN SizedOf(events) PROVE SizedOf(events)[i].model # "<other>"
      BY DEF ModelsOf
    <3>1. i \in DOMAIN rows /\ SizedOf(events)[i] = rows[i]
      BY <1>3, OutputFacts, ServedOfFacts
    <3> QED BY <3>1 DEF NoOther
  <2>3. IsFiniteSet(DOMAIN OutputOf(events))
    BY <1>10 DEF Loads
  <2> QED BY <2>1, <2>2, <2>3, StackedParts DEF StackByModel
<1>12. ASSUME NEW j \in 0 .. n - 1
       PROVE  /\ TotalOf([k \in DOMAIN timeline.by_key |-> timeline.by_key[k][j]])
                   = TotalOf([m \in DOMAIN timeline.active |-> timeline.active[m][j]])
              /\ TotalOf([m \in DOMAIN timeline.by_out |-> timeline.by_out[m][j]]) = timeline.out_tok[j]
  <2> DEFINE K == StackByKey(events, aliases)
             M == StackByModel(events)
             A == ActiveOf(events)
  <2>1. CurveSum(Active(events), K, DOMAIN K, since, bucket, n, j) = AllCovered(Active(events), TicksOf(since, bucket, j))
    BY <1>1, <1>8, <1>9, CurveParts
  <2>2. CurveSum(Active(events), A, DOMAIN ByModel(events), since, bucket, n, j)
          = AllCovered(Active(events), TicksOf(since, bucket, j))
    BY <1>1, <1>2, <1>8, ActiveByModel, CurveParts
  <2>3. RateSum(OutputOf(events), M, DOMAIN M, since, bucket, n, j) = timeline.out_tok[j]
    BY <1>1, <1>6, <1>10, <1>11, RateParts
  <2>4. \A m \in DOMAIN ByModel(events) : Active(ByModel(events)[m]) = Restrict(Active(events), A[m])
    BY <1>2, ActiveByModel
  <2> HIDE DEF K, M, A
  <2>5. TotalOf([k \in DOMAIN timeline.by_key |-> timeline.by_key[k][j]])
          = CurveSum(Active(events), K, DOMAIN K, since, bucket, n, j)
    <3>1. [k \in DOMAIN timeline.by_key |-> timeline.by_key[k][j]]
            = [k \in DOMAIN K |-> BucketConcurrency(Restrict(Active(events), K[k]), since, bucket, n)[j]]
      BY <1>5 DEF K
    <3> QED BY <3>1 DEF CurveSum
  <2>6. TotalOf([m \in DOMAIN timeline.active |-> timeline.active[m][j]])
          = CurveSum(Active(events), A, DOMAIN ByModel(events), since, bucket, n, j)
    <3>1. [m \in DOMAIN timeline.active |-> timeline.active[m][j]]
            = [m \in DOMAIN ByModel(events) |-> BucketConcurrency(Restrict(Active(events), A[m]), since, bucket, n)[j]]
      BY <1>4, <2>4
    <3> QED BY <3>1 DEF CurveSum
  <2>7. TotalOf([m \in DOMAIN timeline.by_out |-> timeline.by_out[m][j]])
          = RateSum(OutputOf(events), M, DOMAIN M, since, bucket, n, j)
    <3>1. [m \in DOMAIN timeline.by_out |-> timeline.by_out[m][j]]
            = [m \in DOMAIN M |-> BucketWeighted(Restrict(OutputOf(events), M[m]), since, bucket, n)[j]]
      BY <1>5 DEF M
    <3> QED BY <3>1 DEF RateSum
  <2> QED BY <2>1, <2>2, <2>3, <2>5, <2>6, <2>7
<1> QED BY <1>7, <1>12 DEF StacksAddUp, timeline

-----------------------------------------------------------------------------
\* The tables of models, consumers and workloads.

\* Some of the rows, by the group that they are in.
Within(rows, nameOf, S) == [x \in DOMAIN Groups(rows, nameOf) |-> {i \in S : nameOf[i] = x}]

\* There are finitely many groups.
LEMMA GroupsFinite ==
  ASSUME NEW rows, IsFiniteSet(DOMAIN rows), NEW nameOf, DOMAIN nameOf = DOMAIN rows
  PROVE  IsFiniteSet(DOMAIN Groups(rows, nameOf))
<1>1. DOMAIN Groups(rows, nameOf) = {nameOf[i] : i \in DOMAIN nameOf}
  BY DEF Groups
<1> QED BY <1>1, FiniteImage

\* The groups part the rows.
LEMMA GroupParts ==
  ASSUME NEW rows, IsFiniteSet(DOMAIN rows), NEW nameOf, DOMAIN nameOf = DOMAIN rows,
         NEW S \in SUBSET DOMAIN rows
  PROVE  Parts(Within(rows, nameOf, S), DOMAIN Groups(rows, nameOf), S)
<1> DEFINE N == DOMAIN Groups(rows, nameOf)
           P == Within(rows, nameOf, S)
<1>1. IsFiniteSet(N)
  BY GroupsFinite
<1>2. \A i \in S : nameOf[i] \in N
  BY GroupFacts
<1>3. P = [x \in N |-> {i \in S : nameOf[i] = x}]
  BY DEF Within
<1> HIDE DEF N, P
<1>4. P = [x \in N |-> P[x]] /\ \A x \in N : P[x] = {i \in S : nameOf[i] = x}
  BY <1>3
<1>5. \A x \in N : \A i : i \in P[x] <=> i \in S /\ nameOf[i] = x
  BY <1>4
<1>6. /\ \A x \in N : P[x] \subseteq S
      /\ \A x, y \in N : x # y => P[x] \cap P[y] = {}
      /\ \A i \in S : \E x \in N : i \in P[x]
  BY ONLY <1>2, <1>5
<1> QED BY <1>1, <1>4, <1>6 DEF Parts, N, P

\* The calls of an outcome.
LEMMA WithFacts ==
  ASSUME NEW events, NEW o
  PROVE  /\ \A i : i \in DOMAIN With(events, o) <=> i \in DOMAIN events /\ events[i].outcome = o
         /\ \A i \in DOMAIN With(events, o) : With(events, o)[i] = events[i]
BY DEF With, Having, Restrict

\* What the rows of the three tables should count.
Tally(events) ==
  [requests  |-> Count(events),
   completed |-> Count(With(events, "completed")),
   abandoned |-> Count(With(events, "client_abandoned")),
   errored   |-> Count(With(events, "upstream_error")),
   cancelled |-> Count(With(events, "cancelled_queued"))]

\* The dictionary of outcomes holds the number of each, and none that is 0.
LEMMA OutcomesCounted ==
  ASSUME NEW events, NEW o
  PROVE  (IF o \in DOMAIN Outcomes(events) THEN Outcomes(events)[o] ELSE 0) = Count(With(events, o))
<1> DEFINE by == Groups(events, [i \in DOMAIN events |-> events[i].outcome])
<1>1. /\ DOMAIN by = {events[i].outcome : i \in DOMAIN events}
      /\ \A x \in DOMAIN by : by[x] = Restrict(events, {i \in DOMAIN events : events[i].outcome = x})
  <2> DEFINE nameOf == [i \in DOMAIN events |-> events[i].outcome]
  <2>1. DOMAIN nameOf = DOMAIN events /\ \A i \in DOMAIN events : nameOf[i] = events[i].outcome
    OBVIOUS
  <2>2. {i \in DOMAIN events : nameOf[i] = events[i].outcome} = DOMAIN events
    BY <2>1
  <2>3. \A x : {i \in DOMAIN events : nameOf[i] = x} = {i \in DOMAIN events : events[i].outcome = x}
    BY <2>1
  <2>4. {nameOf[i] : i \in DOMAIN nameOf} = {events[i].outcome : i \in DOMAIN events}
    BY <2>1
  <2> HIDE DEF nameOf
  <2> QED BY <2>3, <2>4 DEF by, Groups, nameOf
<1>2. DOMAIN Outcomes(events) = DOMAIN by /\ \A x \in DOMAIN by : Outcomes(events)[x] = Count(by[x])
  BY DEF Outcomes
<1>3. With(events, o) = Restrict(events, {i \in DOMAIN events : events[i].outcome = o})
  BY DEF With, Having
<1> HIDE DEF by
<1>4. CASE o \in DOMAIN by
  BY <1>1, <1>2, <1>3, <1>4
<1>5. CASE o \notin DOMAIN by
  <2>1. {i \in DOMAIN events : events[i].outcome = o} = {}
    BY <1>1, <1>5
  <2>2. DOMAIN With(events, o) = {}
    BY <1>3, <2>1 DEF Restrict
  <2> QED BY <1>2, <1>5, <2>2, FS_EmptySet DEF Count
<1> QED BY <1>4, <1>5

\* Each of the three loops counts so.
LEMMA CountsAreTally ==
  ASSUME NEW events
  PROVE  /\ ModelCounts(events) = Tally(events)
         /\ ConsumerCounts(events) = Tally(events)
         /\ WorkloadCounts(events) = Tally(events)
<1>1. ModelCounts(events) = Tally(events)
  BY OutcomesCounted DEF ModelCounts, Tally
<1> QED BY <1>1 DEF ConsumerCounts, WorkloadCounts, Tally

\* The groups of the rows have together as many rows of each kind as the whole.
GroupsCount(rows, nameOf)     == TotalOf([x \in DOMAIN Groups(rows, nameOf) |-> Count(Groups(rows, nameOf)[x])])
GroupsWith(rows, nameOf, o)   == TotalOf([x \in DOMAIN Groups(rows, nameOf) |-> Count(With(Groups(rows, nameOf)[x], o))])
GroupsTally(rows, nameOf, f)  == TotalOf([x \in DOMAIN Groups(rows, nameOf) |-> Tally(Groups(rows, nameOf)[x])[f]])

\* The groups have together as many rows, and as many of an outcome, as the whole.
LEMMA CountsAdd ==
  ASSUME NEW rows, IsFiniteSet(DOMAIN rows), NEW nameOf, DOMAIN nameOf = DOMAIN rows
  PROVE  /\ GroupsCount(rows, nameOf) = Count(rows)
         /\ \A o : GroupsWith(rows, nameOf, o) = Count(With(rows, o))
<1> DEFINE group == Groups(rows, nameOf)
           N == DOMAIN group
<1>1. \A x \in N : /\ \A i : i \in DOMAIN group[x] <=> i \in DOMAIN rows /\ nameOf[i] = x
                   /\ \A i \in DOMAIN group[x] : group[x][i] = rows[i]
  BY GroupFacts
<1>2. ASSUME NEW S \in SUBSET DOMAIN rows
      PROVE  Cardinality(S) = SizeByParts(Within(rows, nameOf, S), N)
  <2>1. Parts(Within(rows, nameOf, S), N, S)
    BY GroupParts
  <2>2. IsFiniteSet(S)
    BY FS_Subset
  <2> QED BY <2>1, <2>2, PartSizes
<1>3. \A S, x : x \in N => Within(rows, nameOf, S)[x] = {i \in S : nameOf[i] = x}
  BY DEF Within
<1> HIDE DEF group, N
<1>4. GroupsCount(rows, nameOf) = Count(rows)
  <2> DEFINE P == Within(rows, nameOf, DOMAIN rows)
  <2>1. \A x \in N : DOMAIN group[x] = {i \in DOMAIN rows : nameOf[i] = x}
    BY <1>1
  <2>2. \A x \in N : P[x] = {i \in DOMAIN rows : nameOf[i] = x}
    BY <1>3
  <2>3. [x \in N |-> Cardinality(P[x])] = [x \in N |-> Count(group[x])]
    BY <2>1, <2>2 DEF Count
  <2>4. Cardinality(DOMAIN rows) = TotalOf([x \in N |-> Cardinality(P[x])])
    BY <1>2 DEF SizeByParts
  <2> QED BY <2>3, <2>4 DEF GroupsCount, Count, N, group
<1>5. ASSUME NEW o
      PROVE  GroupsWith(rows, nameOf, o) = Count(With(rows, o))
  <2> DEFINE S == DOMAIN With(rows, o)
             P == Within(rows, nameOf, S)
  <2>0. S \in SUBSET DOMAIN rows /\ \A i : i \in S <=> i \in DOMAIN rows /\ rows[i].outcome = o
    BY WithFacts
  <2> HIDE DEF S
  <2>1. \A x \in N : DOMAIN With(group[x], o) = {i \in S : nameOf[i] = x}
    <3> SUFFICES ASSUME NEW x \in N PROVE DOMAIN With(group[x], o) = {i \in S : nameOf[i] = x}
      OBVIOUS
    <3>1. \A i : i \in DOMAIN With(group[x], o) <=> i \in DOMAIN group[x] /\ group[x][i].outcome = o
      BY WithFacts
    <3>2. \A i : i \in DOMAIN With(group[x], o) <=> i \in S /\ nameOf[i] = x
      BY <1>1, <2>0, <3>1
    <3>3. \A i \in DOMAIN With(group[x], o) : i \in {k \in S : nameOf[k] = x}
      BY <3>2
    <3>4. \A i \in {k \in S : nameOf[k] = x} : i \in DOMAIN With(group[x], o)
      BY <3>2
    <3> QED BY <3>3, <3>4
  <2>2. \A x \in N : P[x] = {i \in S : nameOf[i] = x}
    BY <1>3
  <2>3. [x \in N |-> Cardinality(P[x])] = [x \in N |-> Count(With(group[x], o))]
    BY <2>1, <2>2 DEF Count
  <2>4. Cardinality(S) = TotalOf([x \in N |-> Cardinality(P[x])])
    BY <1>2, <2>0 DEF SizeByParts
  <2> QED BY <2>3, <2>4 DEF GroupsWith, Count, N, group, S
<1> QED BY <1>4, <1>5

\* The groups have together the tally of the whole.
LEMMA TalliesAdd ==
  ASSUME NEW rows, IsFiniteSet(DOMAIN rows), NEW nameOf, DOMAIN nameOf = DOMAIN rows,
         NEW f \in {"requests", "completed", "abandoned", "errored", "cancelled"}
  PROVE  GroupsTally(rows, nameOf, f) = Tally(rows)[f]
<1> DEFINE group == Groups(rows, nameOf)
<1>0. /\ GroupsCount(rows, nameOf) = Count(rows)
      /\ \A o : GroupsWith(rows, nameOf, o) = Count(With(rows, o))
  BY CountsAdd
<1>1. /\ \A e : Tally(e)["requests"] = Count(e)
      /\ \A e : Tally(e)["completed"] = Count(With(e, "completed"))
      /\ \A e : Tally(e)["abandoned"] = Count(With(e, "client_abandoned"))
      /\ \A e : Tally(e)["errored"] = Count(With(e, "upstream_error"))
      /\ \A e : Tally(e)["cancelled"] = Count(With(e, "cancelled_queued"))
  BY DEF Tally
<1>2. CASE f = "requests"
  BY <1>0, <1>1, <1>2 DEF GroupsTally, GroupsCount
<1>3. CASE f = "completed"
  BY <1>0, <1>1, <1>3 DEF GroupsTally, GroupsWith
<1>4. CASE f = "abandoned"
  BY <1>0, <1>1, <1>4 DEF GroupsTally, GroupsWith
<1>5. CASE f = "errored"
  BY <1>0, <1>1, <1>5 DEF GroupsTally, GroupsWith
<1>6. CASE f = "cancelled"
  BY <1>0, <1>1, <1>6 DEF GroupsTally, GroupsWith
<1> QED BY <1>2, <1>3, <1>4, <1>5, <1>6

\* The groups have together the amounts of the whole.
GroupsAmount(rows, nameOf, f) ==
  TotalOf([x \in DOMAIN Groups(rows, nameOf) |->
             TotalOf([i \in DOMAIN Groups(rows, nameOf)[x] |-> Groups(rows, nameOf)[x][i][f]])])
GroupsService(rows, nameOf) == TotalOf([x \in DOMAIN Groups(rows, nameOf) |-> ServiceOf(Groups(rows, nameOf)[x])])

\* The groups have together the tokens of the whole.
LEMMA TokensAdd ==
  ASSUME NEW rows, EventTable(rows), NEW nameOf, DOMAIN nameOf = DOMAIN rows
  PROVE  GroupsAmount(rows, nameOf, "tokens") = TotalOf([i \in DOMAIN rows |-> rows[i].tokens])
<1> DEFINE group == Groups(rows, nameOf)
           N == DOMAIN group
           a == [i \in DOMAIN rows |-> rows[i].tokens]
           P == Within(rows, nameOf, DOMAIN rows)
<1>1. \A x \in N : /\ \A i : i \in DOMAIN group[x] <=> i \in DOMAIN rows /\ nameOf[i] = x
                   /\ \A i \in DOMAIN group[x] : group[x][i] = rows[i]
  BY GroupFacts
<1>2. Amounts(a) /\ DOMAIN a = DOMAIN rows /\ \A i \in DOMAIN rows : a[i] = rows[i].tokens
  BY DEF Amounts, EventTable
<1>3. Parts(P, N, DOMAIN rows)
  BY GroupParts DEF EventTable
<1>4. \A x \in N : P[x] = {i \in DOMAIN rows : nameOf[i] = x}
  BY DEF Within
<1> HIDE DEF group, N, a, P
<1>5. TotalOf(a) = SumByParts(a, P, N)
  BY <1>2, <1>3, PartSums
<1>6. ASSUME NEW x \in N
      PROVE  TotalOf([i \in P[x] |-> a[i]]) = TotalOf([i \in DOMAIN group[x] |-> group[x][i].tokens])
  <2>1. P[x] = DOMAIN group[x]
    <3>1. P[x] = {i \in DOMAIN rows : nameOf[i] = x}
      BY <1>4
    <3>2. \A i : i \in DOMAIN group[x] <=> i \in DOMAIN rows /\ nameOf[i] = x
      BY <1>1
    <3> QED BY ONLY <3>1, <3>2
  <2>2. \A i \in DOMAIN group[x] : a[i] = group[x][i].tokens
    BY <1>1, <1>2
  <2>3. [i \in P[x] |-> a[i]] = [i \in DOMAIN group[x] |-> group[x][i].tokens]
    BY <2>1, <2>2
  <2> QED BY <2>3
<1>7. [x \in N |-> TotalOf([i \in P[x] |-> a[i]])] = [x \in N |-> TotalOf([i \in DOMAIN group[x] |-> group[x][i].tokens])]
  BY <1>6
<1> QED BY <1>5, <1>7 DEF SumByParts, GroupsAmount, group, N, a

\* The time that the slots were held, by call and by tick.
LEMMA ServiceIsHeldTime ==
  ASSUME NEW rows, EventTable(rows), NEW M \in Nat, \A i \in DOMAIN rows : rows[i].done <= M
  PROVE  ServiceOf(rows) = TotalOf([t \in 1 .. M |-> ActiveAt(rows, t)])
<1> DEFINE act == Active(rows)
           T == 1 .. M
           spent == Services(rows)
<1>1. IsFiniteSet(T)
  BY IntervalSize
<1>2. Spanning(act) /\ IsFiniteSet(DOMAIN act)
  BY IntervalsOfEvents
<1>3. /\ \A i : i \in DOMAIN act <=> i \in DOMAIN rows /\ rows[i].acq # 0
      /\ \A i \in DOMAIN act : act[i][1] = rows[i].acq /\ act[i][2] = rows[i].done
  BY ActiveFacts
<1>4. DOMAIN spent = DOMAIN act /\ \A i \in DOMAIN act : spent[i] = rows[i].done - rows[i].acq
  BY DEF Services, Active
<1> HIDE DEF act, spent
<1>5. ASSUME NEW i \in DOMAIN act
      PROVE  Max({0, spent[i]}) = Covered(act[i], T)
  <2>1. PICK s, e \in Nat : s = rows[i].acq /\ e = rows[i].done /\ s # 0 /\ s <= e /\ e <= M
    BY <1>3 DEF EventTable
  <2>2. {t \in T : s <= t /\ t < e} = s .. e - 1
    BY <2>1
  <2>3. Cardinality(s .. e - 1) = e - s
    <3>1. Cardinality(s .. e - 1) = IF s > e - 1 THEN 0 ELSE e - 1 - s + 1
      <4>1. s \in Int /\ e - 1 \in Int
        BY <2>1
      <4> QED BY ONLY <4>1, FS_Interval
    <3> QED BY <2>1, <3>1
  <2>4. Covered(act[i], T) = e - s
    BY <1>3, <2>1, <2>2, <2>3 DEF Covered, Spanned
  <2>5. PICK d \in Int : d = e - s /\ d >= 0
    BY <2>1
  <2>6. Max({0, d}) = IF 0 >= d THEN 0 ELSE d
    BY GreaterOfTwo
  <2>7. spent[i] = d
    BY <1>4, <2>1, <2>5
  <2> QED BY <2>4, <2>5, <2>6, <2>7
<1>6. [i \in DOMAIN spent |-> Max({0, spent[i]})] = [i \in DOMAIN act |-> Covered(act[i], T)]
  BY <1>4, <1>5
<1>7. ServiceOf(rows) = AllCovered(act, T)
  BY <1>6 DEF ServiceOf, AllCovered, spent
<1>8. AllCovered(act, T) = AllCounted(act, T)
  BY <1>1, <1>2, CoveredIsCounted
<1>9. ASSUME NEW t \in T PROVE CountAt(act, t) = ActiveAt(rows, t)
  <2>1. {i \in DOMAIN act : act[i][1] <= t /\ t < act[i][2]}
          = {i \in DOMAIN rows : rows[i].acq # 0 /\ rows[i].acq <= t /\ t < rows[i].done}
    BY <1>3
  <2> QED BY <2>1 DEF CountAt, ActiveAt
<1>10. [t \in T |-> CountAt(act, t)] = [t \in T |-> ActiveAt(rows, t)]
  BY <1>9
<1> QED BY <1>7, <1>8, <1>10 DEF AllCounted

\* The groups have together the service time of the whole.
LEMMA ServicesAdd ==
  ASSUME NEW rows, EventTable(rows), NEW nameOf, DOMAIN nameOf = DOMAIN rows
  PROVE  GroupsService(rows, nameOf) = ServiceOf(rows)
<1> DEFINE group == Groups(rows, nameOf)
           N == DOMAIN group
           spent == Services(rows)
           H == DOMAIN spent
           a == [i \in H |-> Max({0, spent[i]})]
           P == Within(rows, nameOf, H)
<1>1. \A x \in N : /\ \A i : i \in DOMAIN group[x] <=> i \in DOMAIN rows /\ nameOf[i] = x
                   /\ \A i \in DOMAIN group[x] : group[x][i] = rows[i]
  BY GroupFacts
<1>2. \A e : /\ \A i : i \in DOMAIN Services(e) <=> i \in DOMAIN e /\ e[i].acq # 0
             /\ \A i \in DOMAIN Services(e) : Services(e)[i] = e[i].done - e[i].acq
  BY HeldFacts DEF Services
<1>3. H \in SUBSET DOMAIN rows
  BY <1>2
<1>4. Parts(P, N, H)
  BY <1>3, GroupParts DEF EventTable
<1>5. \A x \in N : P[x] = {i \in H : nameOf[i] = x}
  BY DEF Within
<1>6. \A i \in H : a[i] = Max({0, spent[i]})
  OBVIOUS
<1>7. Amounts(a) /\ DOMAIN a = H
  <2>1. IsFiniteSet(H)
    BY <1>3, FS_Subset DEF EventTable
  <2>2. ASSUME NEW i \in H PROVE a[i] \in Nat
    <3>1. PICK d \in Int : d = spent[i]
      BY <1>2, <1>3 DEF EventTable
    <3>2. Max({0, d}) = IF 0 >= d THEN 0 ELSE d
      BY GreaterOfTwo
    <3>3. Max({0, d}) \in Nat
      BY <3>2
    <3> QED BY <1>6, <3>1, <3>3
  <2> QED BY <2>1, <2>2 DEF Amounts
<1> HIDE DEF group, N, H, a, P
<1>8. TotalOf(a) = SumByParts(a, P, N)
  BY <1>4, <1>7, PartSums
<1>9. ASSUME NEW x \in N
      PROVE  TotalOf([i \in P[x] |-> a[i]]) = ServiceOf(group[x])
  <2> DEFINE own == Services(group[x])
  <2>1. /\ \A i : i \in DOMAIN own <=> i \in DOMAIN group[x] /\ group[x][i].acq # 0
        /\ \A i \in DOMAIN own : own[i] = group[x][i].done - group[x][i].acq
    BY <1>2
  <2>2. /\ \A i : i \in H <=> i \in DOMAIN rows /\ rows[i].acq # 0
        /\ \A i \in H : spent[i] = rows[i].done - rows[i].acq
    BY <1>2 DEF H
  <2> HIDE DEF own
  <2>3. \A i : i \in DOMAIN own <=> i \in H /\ nameOf[i] = x
    BY <1>1, <2>1, <2>2
  <2>4. DOMAIN own = P[x]
    <3>1. P[x] = {i \in H : nameOf[i] = x}
      BY <1>5
    <3> QED BY ONLY <2>3, <3>1
  <2>5. \A i \in DOMAIN own : own[i] = spent[i]
    BY <1>1, <2>1, <2>2, <2>3
  <2>6. \A i \in DOMAIN own : a[i] = Max({0, own[i]})
    BY <1>6, <2>3, <2>5
  <2>7. [i \in P[x] |-> a[i]] = [i \in DOMAIN own |-> Max({0, own[i]})]
    BY <2>4, <2>6
  <2> QED BY <2>7 DEF ServiceOf, own
<1>10. [x \in N |-> TotalOf([i \in P[x] |-> a[i]])] = [x \in N |-> ServiceOf(group[x])]
  BY <1>9
<1>11. TotalOf(a) = ServiceOf(rows)
  BY DEF ServiceOf, a, H
<1> QED BY <1>8, <1>10, <1>11 DEF SumByParts, GroupsService, group, N

KeyNames(events, aliases) == [i \in DOMAIN events |-> Alias(aliases, events[i].key)]
ModelNames(events)        == [i \in DOMAIN events |-> events[i].model]
LabelNames(events)        == [i \in DOMAIN events |-> SanitizeLabel(events[i].label)]

\* The columns of the three tables.
LEMMA TableColumns ==
  ASSUME NEW rows, NEW since, NEW now, NEW aliases, NEW events, events = FetchEvents(rows, since, now)
  PROVE  /\ DOMAIN Models(rows, since, now) = DOMAIN Groups(events, ModelNames(events))
         /\ \A m \in DOMAIN Groups(events, ModelNames(events)) :
              Models(rows, since, now)[m].count = Tally(Groups(events, ModelNames(events))[m])
         /\ DOMAIN Consumers(rows, since, now, aliases) = DOMAIN Groups(events, KeyNames(events, aliases))
         /\ \A k \in DOMAIN Groups(events, KeyNames(events, aliases)) :
              /\ Consumers(rows, since, now, aliases)[k].count = Tally(Groups(events, KeyNames(events, aliases))[k])
              /\ Consumers(rows, since, now, aliases)[k]["tokens"]
                   = TotalOf([i \in DOMAIN Groups(events, KeyNames(events, aliases))[k] |->
                                Groups(events, KeyNames(events, aliases))[k][i].tokens])
              /\ Consumers(rows, since, now, aliases)[k]["service"]
                   = ServiceOf(Groups(events, KeyNames(events, aliases))[k])
         /\ DOMAIN Workloads(rows, since, now) = DOMAIN Groups(events, LabelNames(events))
         /\ \A x \in DOMAIN Groups(events, LabelNames(events)) :
              /\ Workloads(rows, since, now)[x].count = Tally(Groups(events, LabelNames(events))[x])
              /\ Workloads(rows, since, now)[x]["tokens"]
                   = TotalOf([i \in DOMAIN Groups(events, LabelNames(events))[x] |->
                                Groups(events, LabelNames(events))[x][i].tokens])
<1>1. /\ DOMAIN Models(rows, since, now) = DOMAIN Groups(events, ModelNames(events))
      /\ \A m \in DOMAIN Groups(events, ModelNames(events)) :
           Models(rows, since, now)[m].count = Tally(Groups(events, ModelNames(events))[m])
  BY CountsAreTally DEF Models, ModelNames
<1>2. /\ DOMAIN Consumers(rows, since, now, aliases) = DOMAIN Groups(events, KeyNames(events, aliases))
      /\ \A k \in DOMAIN Groups(events, KeyNames(events, aliases)) :
           /\ Consumers(rows, since, now, aliases)[k].count = Tally(Groups(events, KeyNames(events, aliases))[k])
           /\ Consumers(rows, since, now, aliases)[k]["tokens"]
                = TotalOf([i \in DOMAIN Groups(events, KeyNames(events, aliases))[k] |->
                             Groups(events, KeyNames(events, aliases))[k][i].tokens])
           /\ Consumers(rows, since, now, aliases)[k]["service"]
                = ServiceOf(Groups(events, KeyNames(events, aliases))[k])
  BY CountsAreTally DEF Consumers, KeyNames
<1>3. /\ DOMAIN Workloads(rows, since, now) = DOMAIN Groups(events, LabelNames(events))
      /\ \A x \in DOMAIN Groups(events, LabelNames(events)) :
           /\ Workloads(rows, since, now)[x].count = Tally(Groups(events, LabelNames(events))[x])
           /\ Workloads(rows, since, now)[x]["tokens"]
                = TotalOf([i \in DOMAIN Groups(events, LabelNames(events))[x] |->
                             Groups(events, LabelNames(events))[x][i].tokens])
  BY CountsAreTally DEF Workloads, LabelNames
<1> QED BY <1>1, <1>2, <1>3

\* The tables of models, consumers and workloads add up to the same requests,
\* outcomes and tokens, and the service time to the time under the active curves
\* (TablesAgree).
THEOREM TablesDoAgree ==
  ASSUME NEW rows, EventTable(rows), NEW since \in Nat, NEW now \in Nat, NEW aliases
  PROVE  TablesAgree(rows, since, now, aliases)
<1> DEFINE events == FetchEvents(rows, since, now)
           models == Models(rows, since, now)
           consumers == Consumers(rows, since, now, aliases)
           workloads == Workloads(rows, since, now)
           mn == ModelNames(events)
           kn == KeyNames(events, aliases)
           ln == LabelNames(events)
           ends == {events[i].done : i \in DOMAIN events}
<1>1. EventTable(events) /\ IsFiniteSet(DOMAIN events)
  BY FetchedTable DEF EventTable
<1>2. DOMAIN mn = DOMAIN events /\ DOMAIN kn = DOMAIN events /\ DOMAIN ln = DOMAIN events
  BY DEF ModelNames, KeyNames, LabelNames
<1>3. /\ DOMAIN models = DOMAIN Groups(events, mn)
      /\ \A m \in DOMAIN Groups(events, mn) : models[m].count = Tally(Groups(events, mn)[m])
      /\ DOMAIN consumers = DOMAIN Groups(events, kn)
      /\ \A k \in DOMAIN Groups(events, kn) :
           /\ consumers[k].count = Tally(Groups(events, kn)[k])
           /\ consumers[k]["tokens"] = TotalOf([i \in DOMAIN Groups(events, kn)[k] |-> Groups(events, kn)[k][i].tokens])
           /\ consumers[k]["service"] = ServiceOf(Groups(events, kn)[k])
      /\ DOMAIN workloads = DOMAIN Groups(events, ln)
      /\ \A x \in DOMAIN Groups(events, ln) :
           /\ workloads[x].count = Tally(Groups(events, ln)[x])
           /\ workloads[x]["tokens"] = TotalOf([i \in DOMAIN Groups(events, ln)[x] |-> Groups(events, ln)[x][i].tokens])
  BY TableColumns
<1> HIDE DEF events, models, consumers, workloads, mn, kn, ln
<1>4. ASSUME NEW f \in {"requests", "completed", "abandoned", "errored", "cancelled"}
      PROVE  /\ TotalOf([x \in DOMAIN models |-> models[x].count[f]]) = Tally(events)[f]
             /\ TotalOf([x \in DOMAIN consumers |-> consumers[x].count[f]]) = Tally(events)[f]
             /\ TotalOf([x \in DOMAIN workloads |-> workloads[x].count[f]]) = Tally(events)[f]
  <2>1. /\ GroupsTally(events, mn, f) = Tally(events)[f]
        /\ GroupsTally(events, kn, f) = Tally(events)[f]
        /\ GroupsTally(events, ln, f) = Tally(events)[f]
    BY <1>1, <1>2, TalliesAdd
  <2>2. /\ [x \in DOMAIN models |-> models[x].count[f]]
             = [x \in DOMAIN Groups(events, mn) |-> Tally(Groups(events, mn)[x])[f]]
        /\ [x \in DOMAIN consumers |-> consumers[x].count[f]]
             = [x \in DOMAIN Groups(events, kn) |-> Tally(Groups(events, kn)[x])[f]]
        /\ [x \in DOMAIN workloads |-> workloads[x].count[f]]
             = [x \in DOMAIN Groups(events, ln) |-> Tally(Groups(events, ln)[x])[f]]
    BY <1>3
  <2> QED BY <2>1, <2>2 DEF GroupsTally
<1>5. TotalOf([x \in DOMAIN consumers |-> consumers[x]["tokens"]])
        = TotalOf([x \in DOMAIN workloads |-> workloads[x]["tokens"]])
  <2>1. GroupsAmount(events, kn, "tokens") = GroupsAmount(events, ln, "tokens")
    BY <1>1, <1>2, TokensAdd
  <2>2. /\ [x \in DOMAIN consumers |-> consumers[x]["tokens"]]
             = [x \in DOMAIN Groups(events, kn) |->
                  TotalOf([i \in DOMAIN Groups(events, kn)[x] |-> Groups(events, kn)[x][i].tokens])]
        /\ [x \in DOMAIN workloads |-> workloads[x]["tokens"]]
             = [x \in DOMAIN Groups(events, ln) |->
                  TotalOf([i \in DOMAIN Groups(events, ln)[x] |-> Groups(events, ln)[x][i].tokens])]
    BY <1>3
  <2> QED BY <2>1, <2>2 DEF GroupsAmount
<1>6. TotalOf([x \in DOMAIN consumers |-> consumers[x]["service"]])
        = TotalOf([t \in 1 .. Max(ends \cup {1}) |-> ActiveAt(events, t)])
  <2>1. [x \in DOMAIN consumers |-> consumers[x]["service"]]
          = [x \in DOMAIN Groups(events, kn) |-> ServiceOf(Groups(events, kn)[x])]
    BY <1>3
  <2>2. GroupsService(events, kn) = ServiceOf(events)
    BY <1>1, <1>2, ServicesAdd
  <2>3. Max(ends \cup {1}) \in Nat /\ \A i \in DOMAIN events : events[i].done <= Max(ends \cup {1})
    <3> DEFINE dones == [i \in DOMAIN events |-> events[i].done]
    <3>1. DOMAIN dones = DOMAIN events /\ ends = {dones[i] : i \in DOMAIN dones}
      OBVIOUS
    <3>a. IsFiniteSet(DOMAIN dones)
      BY <1>1, <3>1
    <3> HIDE DEF dones, ends
    <3>b. IsFiniteSet({dones[i] : i \in DOMAIN dones})
      BY ONLY <3>a, FiniteImage
    <3>2. IsFiniteSet(ends) /\ IsFiniteSet({1})
      BY <3>1, <3>b, FS_Singleton
    <3>3. PICK S : S = ends \cup {1}
      OBVIOUS
    <3>4. IsFiniteSet(S)
      BY <3>2, <3>3, FS_Union
    <3>5. S \in SUBSET Nat /\ S # {}
      BY <1>1, <3>3 DEF EventTable, ends
    <3>6. Max(S) \in S /\ \A i \in S : i <= Max(S)
      BY ONLY <3>4, <3>5, GreatestOf
    <3>7. \A i \in DOMAIN events : events[i].done \in S
      BY <3>3 DEF ends
    <3> QED BY <3>3, <3>5, <3>6, <3>7
  <2> HIDE DEF ends
  <2>4. PICK M \in Nat : M = Max(ends \cup {1})
    BY <2>3
  <2>5. ServiceOf(events) = TotalOf([t \in 1 .. M |-> ActiveAt(events, t)])
    BY <1>1, <2>3, <2>4, ServiceIsHeldTime
  <2> QED BY <2>1, <2>2, <2>4, <2>5 DEF GroupsService
<1> QED BY <1>4, <1>5, <1>6 DEF TablesAgree, events, models, consumers, workloads, ends

-----------------------------------------------------------------------------
\* _ConcIntegral: the prefix integral counts the calls that ran before a tick.

\* Between two break points nothing begins and nothing ends.
LEMMA BreakPointFacts ==
  ASSUME NEW ivs, IsFiniteSet(DOMAIN ivs), Spanning(ivs)
  PROVE  /\ BreakPoints(ivs) \in SUBSET Nat /\ IsFiniteSet(BreakPoints(ivs))
         /\ \A i \in DOMAIN ivs : ivs[i][2] > ivs[i][1] => ivs[i][1] \in BreakPoints(ivs) /\ ivs[i][2] \in BreakPoints(ivs)
<1> DEFINE pr == Proper(ivs)
           starts == [i \in DOMAIN pr |-> pr[i][1]]
           stops == [i \in DOMAIN pr |-> pr[i][2]]
<1>1. /\ \A i : i \in DOMAIN pr <=> i \in DOMAIN ivs /\ ivs[i][2] > ivs[i][1]
      /\ \A i \in DOMAIN pr : pr[i] = ivs[i]
  BY ProperFacts
<1>2. IsFiniteSet(DOMAIN pr)
  BY <1>1, FS_Subset
<1>3. /\ DOMAIN starts = DOMAIN pr /\ DOMAIN stops = DOMAIN pr
      /\ BreakPoints(ivs) = {starts[i] : i \in DOMAIN starts} \cup {stops[i] : i \in DOMAIN stops}
  BY DEF BreakPoints
<1>4. \A x : x \in BreakPoints(ivs) <=> \E i \in DOMAIN pr : x = pr[i][1] \/ x = pr[i][2]
  BY DEF BreakPoints
<1> HIDE DEF pr, starts, stops
<1>5. IsFiniteSet({starts[i] : i \in DOMAIN starts}) /\ IsFiniteSet({stops[i] : i \in DOMAIN stops})
  BY <1>2, <1>3, FiniteImage
<1>6. IsFiniteSet(BreakPoints(ivs))
  <2> DEFINE A == {starts[i] : i \in DOMAIN starts}
             B == {stops[i] : i \in DOMAIN stops}
  <2>1. IsFiniteSet(A) /\ IsFiniteSet(B) /\ BreakPoints(ivs) = A \cup B
    BY <1>3, <1>5
  <2> HIDE DEF A, B
  <2>2. IsFiniteSet(A \cup B)
    BY <2>1, FS_Union
  <2> QED BY <2>1, <2>2
<1>7. \A x \in BreakPoints(ivs) : x \in Nat
  BY <1>1, <1>4 DEF Spanning
<1>8. \A i \in DOMAIN ivs : ivs[i][2] > ivs[i][1] => ivs[i][1] \in BreakPoints(ivs) /\ ivs[i][2] \in BreakPoints(ivs)
  BY <1>1, <1>4
<1> QED BY <1>6, <1>7, <1>8

\* A number of running calls.
LEMMA CountType ==
  ASSUME NEW ivs, IsFiniteSet(DOMAIN ivs), NEW t
  PROVE  CountAt(ivs, t) \in Nat
<1>1. IsFiniteSet({i \in DOMAIN ivs : ivs[i][1] <= t /\ t < ivs[i][2]})
  BY FS_Subset
<1> QED BY <1>1, FS_CardinalityType DEF CountAt

\* From one break point to the next the number of running calls stays.
LEMMA CountStays ==
  ASSUME NEW ivs, IsFiniteSet(DOMAIN ivs), Spanning(ivs), NEW u \in Nat, NEW t \in Nat, u <= t,
         \A v \in BreakPoints(ivs) : v <= u \/ t < v
  PROVE  CountAt(ivs, u) = CountAt(ivs, t)
<1>1. \A i \in DOMAIN ivs : ivs[i][1] <= u /\ u < ivs[i][2] <=> ivs[i][1] <= t /\ t < ivs[i][2]
  <2> SUFFICES ASSUME NEW i \in DOMAIN ivs
               PROVE  ivs[i][1] <= u /\ u < ivs[i][2] <=> ivs[i][1] <= t /\ t < ivs[i][2]
    OBVIOUS
  <2>1. PICK s, e \in Nat : s = ivs[i][1] /\ e = ivs[i][2]
    BY DEF Spanning
  <2>2. CASE e > s
    <3>1. (s <= u \/ t < s) /\ (e <= u \/ t < e)
      BY <2>1, <2>2, BreakPointFacts
    <3> QED BY <2>1, <3>1
  <2>3. CASE ~(e > s)
    BY <2>1, <2>3
  <2> QED BY <2>2, <2>3
<1>2. {i \in DOMAIN ivs : ivs[i][1] <= u /\ u < ivs[i][2]} = {i \in DOMAIN ivs : ivs[i][1] <= t /\ t < ivs[i][2]}
  BY <1>1
<1> QED BY <1>2 DEF CountAt

\* Nothing runs before the first break point nor from the last one on.
LEMMA CountOutside ==
  ASSUME NEW ivs, IsFiniteSet(DOMAIN ivs), Spanning(ivs), NEW t \in Nat,
         (\A v \in BreakPoints(ivs) : t < v) \/ (\A v \in BreakPoints(ivs) : v <= t)
  PROVE  CountAt(ivs, t) = 0
<1>1. \A i \in DOMAIN ivs : ~(ivs[i][1] <= t /\ t < ivs[i][2])
  <2> SUFFICES ASSUME NEW i \in DOMAIN ivs, ivs[i][1] <= t, t < ivs[i][2] PROVE FALSE
    OBVIOUS
  <2>1. PICK s, e \in Nat : s = ivs[i][1] /\ e = ivs[i][2]
    BY DEF Spanning
  <2>2. s <= t /\ t < e /\ e > s
    BY <2>1
  <2>3. s \in BreakPoints(ivs) /\ e \in BreakPoints(ivs)
    BY <2>1, <2>2, BreakPointFacts
  <2> QED BY <2>2, <2>3
<1>2. {i \in DOMAIN ivs : ivs[i][1] <= t /\ t < ivs[i][2]} = {}
  BY <1>1
<1> QED BY <1>2, FS_EmptySet DEF CountAt

\* The count over a segment.
LEMMA SegmentCounts ==
  ASSUME NEW ivs, IsFiniteSet(DOMAIN ivs), Spanning(ivs), NEW u \in BreakPoints(ivs)
  PROVE  Segments(ivs)[u] = CountAt(ivs, u)
<1> DEFINE pr == Proper(ivs)
           A == {i \in DOMAIN pr : pr[i][1] <= u}
           B == {i \in DOMAIN pr : pr[i][2] <= u}
           C == {i \in DOMAIN ivs : ivs[i][1] <= u /\ u < ivs[i][2]}
<1>1. /\ \A i : i \in DOMAIN pr <=> i \in DOMAIN ivs /\ ivs[i][2] > ivs[i][1]
      /\ \A i \in DOMAIN pr : pr[i] = ivs[i]
  BY ProperFacts
<1>2. u \in Nat
  BY BreakPointFacts
<1>3. Segments(ivs)[u] = Cardinality(A) - Cardinality(B)
  BY DEF Segments
<1>4. \A i \in DOMAIN ivs : ivs[i][1] \in Nat /\ ivs[i][2] \in Nat
  BY DEF Spanning
<1> HIDE DEF pr
<1>5. A = B \cup C /\ B \cap C = {}
  <2>1. \A i : i \in B => i \in A /\ i \notin C
    <3> SUFFICES ASSUME NEW i \in B PROVE i \in A /\ i \notin C
      OBVIOUS
    <3>1. PICK s, e \in Nat : s = ivs[i][1] /\ e = ivs[i][2] /\ e > s /\ e <= u /\ pr[i] = ivs[i]
      BY <1>1, <1>4
    <3>2. s <= u /\ ~(u < e)
      BY <1>2, <3>1
    <3> QED BY <3>1, <3>2
  <2>2. \A i : i \in C => i \in A
    <3> SUFFICES ASSUME NEW i \in C PROVE i \in A
      OBVIOUS
    <3>1. PICK s, e \in Nat : s = ivs[i][1] /\ e = ivs[i][2] /\ s <= u /\ u < e
      BY <1>4
    <3>2. e > s
      BY <1>2, <3>1
    <3> QED BY <1>1, <3>1, <3>2
  <2>3. \A i : i \in A => i \in B \/ i \in C
    <3> SUFFICES ASSUME NEW i \in A, i \notin B PROVE i \in C
      OBVIOUS
    <3>1. PICK s, e \in Nat : s = ivs[i][1] /\ e = ivs[i][2] /\ pr[i] = ivs[i] /\ s <= u /\ ~(e <= u)
      BY <1>1, <1>4
    <3>2. u < e
      BY <1>2, <3>1
    <3> QED BY <1>1, <3>1, <3>2
  <2> QED BY <2>1, <2>2, <2>3
<1>6. IsFiniteSet(B) /\ IsFiniteSet(C)
  <2>1. B \in SUBSET DOMAIN ivs /\ C \in SUBSET DOMAIN ivs
    BY <1>1
  <2> QED BY <2>1, FS_Subset
<1> HIDE DEF A, B, C
<1>7. /\ Cardinality(A) = Cardinality(B) + Cardinality(C)
      /\ Cardinality(B) \in Nat /\ Cardinality(C) \in Nat
  BY <1>5, <1>6, DisjointSizes, FS_CardinalityType
<1>8. Cardinality(A) - Cardinality(B) = Cardinality(C)
  BY ONLY <1>7
<1> QED BY <1>3, <1>8 DEF CountAt, C

\* The calls that are running, summed over the ticks before one.
Before(ivs, x) == AllCounted(ivs, 0 .. x - 1)
Counts(ivs, T) == [t \in T |-> CountAt(ivs, t)]

\* The numbers of running calls of a set of ticks, and their sum.
LEMMA CountsFacts ==
  ASSUME NEW ivs, IsFiniteSet(DOMAIN ivs), NEW T, IsFiniteSet(T)
  PROVE  /\ Amounts(Counts(ivs, T)) /\ DOMAIN Counts(ivs, T) = T
         /\ TotalOf(Counts(ivs, T)) = AllCounted(ivs, T)
         /\ AllCounted(ivs, T) \in Nat
<1>1. Amounts(Counts(ivs, T)) /\ DOMAIN Counts(ivs, T) = T
  BY CountType DEF Counts, Amounts
<1>2. TotalOf(Counts(ivs, T)) \in Nat
  BY <1>1, SumType DEF Amounts
<1>3. TotalOf(Counts(ivs, T)) = AllCounted(ivs, T)
  BY DEF Counts, AllCounted
<1> QED BY <1>1, <1>2, <1>3

\* A range of ticks is finite.
LEMMA RangeFinite ==
  ASSUME NEW a \in Int, NEW b \in Int
  PROVE  IsFiniteSet(a .. b)
BY FS_Interval

\* The ticks of two sets that are apart, counted together.
LEMMA CountedTogether ==
  ASSUME NEW ivs, IsFiniteSet(DOMAIN ivs), NEW S, IsFiniteSet(S), NEW T, IsFiniteSet(T), S \cap T = {}
  PROVE  AllCounted(ivs, S \cup T) = AllCounted(ivs, S) + AllCounted(ivs, T)
<1> DEFINE a == Counts(ivs, S \cup T)
<1>1. IsFiniteSet(S \cup T)
  BY FS_Union
<1>2. Amounts(a) /\ DOMAIN a = S \cup T /\ TotalOf(a) = AllCounted(ivs, S \cup T)
  BY <1>1, CountsFacts
<1>3. /\ [t \in S |-> a[t]] = [t \in S |-> CountAt(ivs, t)]
      /\ [t \in T |-> a[t]] = [t \in T |-> CountAt(ivs, t)]
  BY DEF Counts
<1> HIDE DEF a
<1>4. TotalOf(a) = SumOver(a, S) + SumOver(a, T)
  BY <1>2, SumSplit
<1> QED BY <1>2, <1>3, <1>4 DEF SumOver, AllCounted

\* Over ticks with one count.
Steady(ivs, c, a, b) == \A t \in a .. b - 1 : CountAt(ivs, t) = c
LEMMA CountedSteady ==
  ASSUME NEW ivs, NEW c \in Nat, NEW a \in Nat, NEW b \in Nat, a <= b, Steady(ivs, c, a, b)
  PROVE  AllCounted(ivs, a .. b - 1) = c * (b - a)
<1>1. [t \in a .. b - 1 |-> CountAt(ivs, t)] = [t \in a .. b - 1 |-> c]
  BY DEF Steady
<1>2. a \in Int /\ b - 1 \in Int
  OBVIOUS
<1>3. IsFiniteSet(a .. b - 1) /\ Cardinality(a .. b - 1) = IF a > b - 1 THEN 0 ELSE b - 1 - a + 1
  BY ONLY <1>2, FS_Interval
<1>4. Cardinality(a .. b - 1) = b - a
  BY <1>3
<1>5. TotalOf([t \in a .. b - 1 |-> c]) = c * Cardinality(a .. b - 1)
  BY <1>3, SumOfEqual
<1> QED BY <1>1, <1>4, <1>5 DEF AllCounted

\* The next break point.
NextOf(xs, u) == Min({v \in xs : v > u})
LEMMA NextFacts ==
  ASSUME NEW xs \in SUBSET Nat, NEW u \in xs, NEW t \in xs, u < t
  PROVE  /\ NextOf(xs, u) \in xs /\ NextOf(xs, u) > u /\ NextOf(xs, u) <= t
         /\ \A v \in xs : v <= u \/ NextOf(xs, u) <= v
<1> DEFINE S == {v \in xs : v > u}
<1>1. S \in SUBSET Nat /\ t \in S
  OBVIOUS
<1>2. \A v : v \in S <=> v \in xs /\ v > u
  OBVIOUS
<1>3. NextOf(xs, u) = Min(S)
  BY DEF NextOf
<1> HIDE DEF S
<1>4. Min(S) \in S /\ \A i \in S : Min(S) <= i
  BY <1>1, LeastOf
<1>5. \A v \in xs : v <= u \/ v > u
  OBVIOUS
<1> QED BY <1>1, <1>2, <1>3, <1>4, <1>5

\* The prefix integral at a break point counts what ran before it.
LEMMA PrefixCounts ==
  ASSUME NEW ivs, IsFiniteSet(DOMAIN ivs), Spanning(ivs), NEW x \in BreakPoints(ivs)
  PROVE  Prefix(ivs, x) = Before(ivs, x)
<1> DEFINE xs == BreakPoints(ivs)
           N == {u \in xs : u < x}
           P == [u \in N |-> u .. NextOf(xs, u) - 1]
           W == {t \in 0 .. x - 1 : \E u \in N : u <= t}
           a == Counts(ivs, W)
           sums == [u \in N |-> Segments(ivs)[u] * (NextOf(xs, u) - u)]
<1>1. xs \in SUBSET Nat /\ IsFiniteSet(xs) /\ x \in Nat
  BY BreakPointFacts
<1>2. Prefix(ivs, x) = TotalOf(sums)
  BY DEF Prefix, NextOf
<1>3. IsFiniteSet(N) /\ N \in SUBSET Nat /\ N \in SUBSET xs
  BY <1>1, FS_Subset
<1>4. IsFiniteSet(0 .. x - 1)
  BY <1>1, RangeFinite
<1>5. IsFiniteSet(W) /\ W \in SUBSET (0 .. x - 1)
  BY <1>4, FS_Subset
<1> HIDE DEF xs
<1>6. ASSUME NEW u \in N
      PROVE  /\ NextOf(xs, u) \in xs /\ NextOf(xs, u) \in Nat /\ u \in Nat
             /\ NextOf(xs, u) > u /\ NextOf(xs, u) <= x
             /\ \A v \in xs : v <= u \/ NextOf(xs, u) <= v
  <2>1. u \in xs /\ x \in xs /\ u < x
    BY DEF xs
  <2>2. /\ NextOf(xs, u) \in xs /\ NextOf(xs, u) > u /\ NextOf(xs, u) <= x
        /\ \A v \in xs : v <= u \/ NextOf(xs, u) <= v
    BY ONLY <1>1, <2>1, NextFacts
  <2> QED BY <1>1, <2>1, <2>2
<1>7. \A u \in N : P[u] = u .. NextOf(xs, u) - 1
  OBVIOUS
<1>8. P = [u \in N |-> P[u]]
  OBVIOUS
<1>9. \A t : t \in W <=> t \in 0 .. x - 1 /\ \E u \in N : u <= t
  OBVIOUS
<1>10. \A u : u \in N <=> u \in xs /\ u < x
  OBVIOUS
<1> HIDE DEF N, P, W
<1>11. ASSUME NEW u \in N PROVE P[u] \subseteq W
  <2> SUFFICES ASSUME NEW t \in P[u] PROVE t \in W
    OBVIOUS
  <2>1. t \in u .. NextOf(xs, u) - 1
    BY <1>7
  <2>2. t \in 0 .. x - 1 /\ u <= t
    BY <1>1, <1>6, <2>1
  <2> QED BY <1>9, <2>2
<1>12. ASSUME NEW u \in N, NEW w \in N, u < w PROVE P[u] \cap P[w] = {}
  <2>1. PICK k, m \in Nat : k = NextOf(xs, u) /\ m = NextOf(xs, w)
    BY <1>6
  <2>2. k <= w
    <3>1. w \in xs
      BY <1>3
    <3>2. w <= u \/ k <= w
      BY <1>6, <2>1, <3>1
    <3> QED BY <1>12, <3>2, <1>3
  <2>3. P[u] = u .. k - 1 /\ P[w] = w .. m - 1
    BY <1>7, <2>1
  <2>4. u \in Nat /\ w \in Nat
    BY <1>3
  <2>5. (u .. k - 1) \cap (w .. m - 1) = {}
    BY ONLY <2>2, <2>4, k \in Nat, m \in Nat
  <2> QED BY <2>3, <2>5
<1>13. ASSUME NEW t \in W PROVE \E u \in N : t \in P[u]
  <2> DEFINE S == {u \in N : u <= t}
  <2>0. t \in 0 .. x - 1
    BY <1>9
  <2>a. t \in Nat /\ t < x
    BY ONLY <1>1, <2>0
  <2>b. PICK low \in N : low <= t
    BY <1>9
  <2>c. S \in SUBSET Nat
    BY <1>3
  <2>1. S \in SUBSET Nat /\ S # {} /\ t \in Nat /\ t < x
    BY <2>a, <2>b, <2>c
  <2>2. IsFiniteSet(S)
    BY <1>3, FS_Subset
  <2>3. \A u : u \in S <=> u \in N /\ u <= t
    OBVIOUS
  <2> HIDE DEF S
  <2>4. Max(S) \in S /\ \A i \in S : i <= Max(S)
    BY <2>1, <2>2, GreatestOf
  <2>5. PICK g \in N : g = Max(S) /\ g <= t /\ g \in Nat
    BY <1>3, <2>3, <2>4
  <2>6. PICK k \in Nat : k = NextOf(xs, g) /\ k > g /\ k <= x /\ k \in xs
    BY <1>6
  <2>7. t < k
    <3> SUFFICES ASSUME k <= t PROVE FALSE
      BY <2>1
    <3>1. k < x
      BY <1>1, <2>1
    <3>2. k \in S
      BY <1>10, <2>3, <2>6, <3>1
    <3>3. k <= g
      BY <2>4, <2>5, <3>2
    <3> QED BY ONLY <2>6, <3>3, <2>5
  <2>8. t \in g .. k - 1
    BY <2>1, <2>5, <2>7
  <2> QED BY <1>7, <2>6, <2>8
<1>14. Parts(P, N, W)
  <2>1. \A u, w \in N : u # w => u < w \/ w < u
    BY <1>3
  <2>2. \A u, w \in N : u # w => P[u] \cap P[w] = {}
    BY <1>12, <2>1
  <2> QED BY <1>3, <1>8, <1>11, <1>13, <2>2 DEF Parts
<1>15. Amounts(a) /\ DOMAIN a = W /\ TotalOf(a) = AllCounted(ivs, W)
  BY <1>5, CountsFacts
<1>16. TotalOf(a) = SumByParts(a, P, N)
  <2> HIDE DEF a
  <2> QED BY <1>14, <1>15, PartSums
<1>17. ASSUME NEW u \in N
       PROVE  TotalOf([t \in P[u] |-> a[t]]) = Segments(ivs)[u] * (NextOf(xs, u) - u)
  <2>1. PICK k \in Nat : k = NextOf(xs, u) /\ k > u /\ \A v \in xs : v <= u \/ k <= v
    BY <1>6
  <2>2. u \in Nat /\ u \in BreakPoints(ivs)
    BY <1>3 DEF xs
  <2>3. CountAt(ivs, u) \in Nat
    BY CountType
  <2>4. ASSUME NEW t \in u .. k - 1 PROVE CountAt(ivs, t) = CountAt(ivs, u)
    <3>1. t \in Nat /\ u <= t /\ t < k
      BY <2>2
    <3>2. \A v \in BreakPoints(ivs) : v <= u \/ t < v
      <4> SUFFICES ASSUME NEW v \in xs PROVE v <= u \/ t < v
        BY DEF xs
      <4>1. v <= u \/ k <= v
        BY <2>1
      <4>2. v \in Nat
        BY <1>1
      <4> QED BY ONLY <4>1, <4>2, <3>1, k \in Nat
    <3> QED BY <2>2, <3>1, <3>2, CountStays
  <2>5. AllCounted(ivs, u .. k - 1) = CountAt(ivs, u) * (k - u)
    <3>1. u <= k
      BY <2>1, <2>2
    <3>2. PICK c \in Nat : c = CountAt(ivs, u)
      BY <2>3
    <3>3. Steady(ivs, c, u, k)
      BY <2>4, <3>2 DEF Steady
    <3>4. AllCounted(ivs, u .. k - 1) = c * (k - u)
      BY ONLY <2>2, <3>1, <3>3, k \in Nat, c \in Nat, CountedSteady
    <3> QED BY <3>2, <3>4
  <2>6. P[u] = u .. k - 1
    BY <1>7, <2>1
  <2>7. [t \in P[u] |-> a[t]] = [t \in u .. k - 1 |-> CountAt(ivs, t)]
    BY <1>11, <2>6 DEF Counts
  <2>8. Segments(ivs)[u] = CountAt(ivs, u)
    BY <2>2, SegmentCounts
  <2> QED BY <2>1, <2>5, <2>7, <2>8 DEF AllCounted
<1>18. [u \in N |-> TotalOf([t \in P[u] |-> a[t]])] = sums
  BY <1>17
<1>19. AllCounted(ivs, W) = Before(ivs, x)
  <2>1. \A t \in 0 .. x - 1 : t \notin W => CountAt(ivs, t) = 0
    <3> SUFFICES ASSUME NEW t \in 0 .. x - 1, t \notin W PROVE CountAt(ivs, t) = 0
      OBVIOUS
    <3>1. t \in Nat /\ t < x
      BY <1>1
    <3>2. \A v \in BreakPoints(ivs) : t < v
      <4> SUFFICES ASSUME NEW v \in xs, ~(t < v) PROVE FALSE
        BY DEF xs
      <4>1. v \in Nat /\ v <= t
        BY <1>1, <3>1
      <4>2. v < x
        BY <1>1, <3>1, <4>1
      <4> QED BY <1>9, <1>10, <4>1, <4>2
    <3> QED BY <3>1, <3>2, CountOutside
  <2> DEFINE b == Counts(ivs, 0 .. x - 1)
  <2>2. DOMAIN b = 0 .. x - 1 /\ \A t \in 0 .. x - 1 : b[t] = CountAt(ivs, t)
    BY DEF Counts
  <2>3. \A t \in W : a[t] = CountAt(ivs, t)
    BY DEF Counts
  <2>5. TotalOf(b) = AllCounted(ivs, 0 .. x - 1)
    BY <1>4, CountsFacts
  <2> HIDE DEF a, b
  <2>6. /\ DOMAIN a \subseteq DOMAIN b
        /\ \A t \in DOMAIN a : a[t] = b[t]
        /\ \A t \in DOMAIN b : t \notin DOMAIN a => b[t] = 0
    BY <1>5, <1>15, <2>1, <2>2, <2>3
  <2>4. TotalOf(a) = TotalOf(b)
    BY ONLY <2>6, SumWithoutZeros
  <2> QED BY <1>15, <2>4, <2>5 DEF Before
<1> HIDE DEF a, sums
<1> QED BY <1>2, <1>15, <1>16, <1>18, <1>19 DEF SumByParts

\* The ticks from a up to c, in two parts.
LEMMA CountedOnwards ==
  ASSUME NEW ivs, IsFiniteSet(DOMAIN ivs), NEW a \in Nat, NEW b \in Nat, NEW c \in Nat, a <= b, b <= c
  PROVE  AllCounted(ivs, a .. c - 1) = AllCounted(ivs, a .. b - 1) + AllCounted(ivs, b .. c - 1)
<1>1. PICK S : S = a .. b - 1
  OBVIOUS
<1>2. PICK T : T = b .. c - 1
  OBVIOUS
<1>3. a \in Int /\ b - 1 \in Int /\ b \in Int /\ c - 1 \in Int
  OBVIOUS
<1>4. IsFiniteSet(S) /\ IsFiniteSet(T)
  BY <1>1, <1>2, <1>3, RangeFinite, Zenon
<1>5. S \cap T = {} /\ S \cup T = a .. c - 1
  BY <1>1, <1>2
<1>6. AllCounted(ivs, S \cup T) = AllCounted(ivs, S) + AllCounted(ivs, T)
  BY <1>4, <1>5, CountedTogether
<1> QED BY <1>1, <1>2, <1>5, <1>6

\* What is counted over a range is a number.
LEMMA CountedType ==
  ASSUME NEW ivs, IsFiniteSet(DOMAIN ivs), NEW a \in Nat, NEW b \in Nat
  PROVE  AllCounted(ivs, a .. b - 1) \in Nat
<1>1. a \in Int /\ b - 1 \in Int
  OBVIOUS
<1>2. IsFiniteSet(a .. b - 1)
  BY <1>1, RangeFinite, Zenon
<1> QED BY <1>2, CountsFacts

\* The integral up to a tick counts what ran before it.
LEMMA IntegralCounts ==
  ASSUME NEW ivs, IsFiniteSet(DOMAIN ivs), Spanning(ivs), NEW x \in Nat
  PROVE  Integral(ivs, x) = Before(ivs, x)
<1> DEFINE xs == BreakPoints(ivs)
           passed == {t \in xs : t <= x}
           g == Max(passed)
<1>1. xs \in SUBSET Nat /\ IsFiniteSet(xs)
  BY BreakPointFacts
<1>2. \A v : v \in passed <=> v \in xs /\ v <= x
  OBVIOUS
<1>3. IsFiniteSet(passed) /\ passed \in SUBSET Nat
  BY <1>1, FS_Subset
<1>4. Integral(ivs, x) = IF passed = {} THEN 0
                         ELSE IF passed = xs THEN Prefix(ivs, g)
                         ELSE Prefix(ivs, g) + Segments(ivs)[g] * (x - g)
  BY DEF Integral
<1> HIDE DEF passed
<1>5. CASE passed = {}
  <2>1. ASSUME NEW t \in 0 .. x - 1 PROVE CountAt(ivs, t) = 0
    <3>1. t \in Nat /\ t < x
      OBVIOUS
    <3>2. \A v \in BreakPoints(ivs) : t < v
      BY <1>1, <1>2, <1>5, <3>1
    <3> QED BY <3>1, <3>2, CountOutside
  <2>2. Steady(ivs, 0, 0, x)
    BY <2>1 DEF Steady
  <2>3. AllCounted(ivs, 0 .. x - 1) = 0 * (x - 0)
    BY <2>2, CountedSteady
  <2>4. Integral(ivs, x) = 0
    BY <1>4, <1>5
  <2> QED BY <2>3, <2>4 DEF Before
<1>6. CASE passed # {}
  <2>1. g \in passed /\ \A i \in passed : i <= g
    BY <1>3, <1>6, GreatestOf
  <2>2. g \in BreakPoints(ivs) /\ g \in Nat /\ g <= x
    BY <1>1, <1>2, <2>1
  <2>3. Prefix(ivs, g) = AllCounted(ivs, 0 .. g - 1)
    BY <2>2, PrefixCounts DEF Before
  <2>4. \A v \in BreakPoints(ivs) : v <= g \/ x < v
    <3> SUFFICES ASSUME NEW v \in BreakPoints(ivs), ~(x < v) PROVE v <= g
      OBVIOUS
    <3>1. v \in Nat
      BY <1>1
    <3>2. v <= x
      BY <3>1
    <3> QED BY <1>2, <2>1, <3>2
  <2> HIDE DEF g
  <2>5. AllCounted(ivs, 0 .. x - 1) = AllCounted(ivs, 0 .. g - 1) + AllCounted(ivs, g .. x - 1)
    BY <2>2, CountedOnwards
  <2>6. AllCounted(ivs, 0 .. g - 1) \in Nat
    BY <2>2, CountedType
  <2>7. CASE passed = BreakPoints(ivs)
    <3>1. ASSUME NEW t \in g .. x - 1 PROVE CountAt(ivs, t) = 0
      <4>1. t \in Nat /\ g <= t
        BY <2>2
      <4>2. \A v \in BreakPoints(ivs) : v <= t
        <5> SUFFICES ASSUME NEW v \in BreakPoints(ivs) PROVE v <= t
          OBVIOUS
        <5>1. v \in Nat /\ v <= g
          BY <1>1, <2>1, <2>7
        <5> QED BY <2>2, <4>1, <5>1
      <4> QED BY <4>1, <4>2, CountOutside
    <3>2. Steady(ivs, 0, g, x)
      BY <3>1 DEF Steady
    <3>3. AllCounted(ivs, g .. x - 1) = 0 * (x - g)
      BY <2>2, <3>2, CountedSteady
    <3>4. Integral(ivs, x) = Prefix(ivs, g)
      BY <1>4, <1>6, <2>7
    <3> QED BY <2>2, <2>3, <2>5, <2>6, <3>3, <3>4 DEF Before
  <2>8. CASE passed # BreakPoints(ivs)
    <3>1. Integral(ivs, x) = Prefix(ivs, g) + Segments(ivs)[g] * (x - g)
      BY <1>4, <1>6, <2>8
    <3>2. Segments(ivs)[g] = CountAt(ivs, g)
      BY <2>2, SegmentCounts
    <3>3. PICK c \in Nat : c = CountAt(ivs, g)
      BY CountType
    <3>4. ASSUME NEW t \in g .. x - 1 PROVE CountAt(ivs, t) = c
      <4>1. t \in Nat /\ g <= t /\ t < x
        BY <2>2
      <4>2. \A v \in BreakPoints(ivs) : v <= g \/ t < v
        <5> SUFFICES ASSUME NEW v \in BreakPoints(ivs) PROVE v <= g \/ t < v
          OBVIOUS
        <5>1. v \in Nat /\ (v <= g \/ x < v)
          BY <1>1, <2>4
        <5> QED BY <2>2, <4>1, <5>1
      <4> QED BY <2>2, <3>3, <4>1, <4>2, CountStays
    <3>5. Steady(ivs, c, g, x)
      BY <3>4 DEF Steady
    <3>6. AllCounted(ivs, g .. x - 1) = c * (x - g)
      BY <2>2, <3>3, <3>5, CountedSteady
    <3> QED BY <2>3, <2>5, <3>1, <3>2, <3>3, <3>6 DEF Before
  <2> QED BY <2>7, <2>8
<1> QED BY <1>5, <1>6

\* The mean over a span, times its length, counts what ran in the span.
LEMMA ConcurrencyCounts ==
  ASSUME NEW ivs, IsFiniteSet(DOMAIN ivs), Spanning(ivs), NEW a \in Nat, NEW b \in Nat
  PROVE  ConcurrencySum(ivs, a, b) = AllCounted(ivs, a .. b - 1)
<1>1. CASE b <= a
  <2>1. DOMAIN [t \in a .. b - 1 |-> CountAt(ivs, t)] = {}
    BY <1>1
  <2>2. TotalOf([t \in a .. b - 1 |-> CountAt(ivs, t)]) = 0
    BY <2>1, SumOfNothing
  <2> QED BY <1>1, <2>2 DEF ConcurrencySum, AllCounted
<1>2. CASE ~(b <= a)
  <2>1. a <= b
    BY <1>2
  <2>2. /\ Integral(ivs, a) = AllCounted(ivs, 0 .. a - 1)
        /\ Integral(ivs, b) = AllCounted(ivs, 0 .. b - 1)
    BY IntegralCounts DEF Before
  <2>3. AllCounted(ivs, 0 .. b - 1) = AllCounted(ivs, 0 .. a - 1) + AllCounted(ivs, a .. b - 1)
    BY <2>1, CountedOnwards
  <2>4. AllCounted(ivs, 0 .. a - 1) \in Nat /\ AllCounted(ivs, a .. b - 1) \in Nat
    BY CountedType
  <2>5. ConcurrencySum(ivs, a, b) = Integral(ivs, b) - Integral(ivs, a)
    BY <1>2 DEF ConcurrencySum
  <2> QED BY <2>2, <2>3, <2>4, <2>5
<1> QED BY <1>1, <1>2

\* The concurrency a call saw is that of the table's calls of its model.
THEOREM ConcurrencyMeasured ==
  ASSUME NEW rows, EventTable(rows), NEW since \in Nat, NEW now \in Nat
  PROVE  ConcurrencyIsMeasured(rows, since, now)
<1> DEFINE events == FetchEvents(rows, since, now)
           callsOf(m) == Having(events, LAMBDA d : d.model = m)
<1>1. ASSUME NEW i \in DOMAIN rows, rows[i].acq # 0, rows[i].acq >= since, rows[i].enq <= now
      PROVE  ConcurrencySum(Active(callsOf(rows[i].model)), rows[i].acq, rows[i].done)
               = TotalOf([t \in rows[i].acq .. rows[i].done - 1 |-> ActiveAt(Begun(rows, rows[i].model, now), t)])
  <2> DEFINE m == rows[i].model
             act == Active(callsOf(m))
             T == rows[i].acq .. rows[i].done - 1
  <2>1. rows[i].acq \in Nat /\ rows[i].done \in Nat /\ rows[i].done >= since
    BY <1>1 DEF EventTable
  <2>2. i \in DOMAIN events /\ events[i] = rows[i]
    BY <1>1, <2>1, FetchFacts
  <2>3. callsOf(m) = ByModel(events)[m] /\ m \in DOMAIN ByModel(events)
    BY <2>2 DEF ByModel, Groups, Having
  <2>4. EventTable(callsOf(m))
    BY <2>3, FetchedTable, GroupTable DEF ByModel
  <2>5. Spanning(act) /\ IsFiniteSet(DOMAIN act)
    BY <2>4, IntervalsOfEvents
  <2>6. /\ \A k : k \in DOMAIN act <=> k \in DOMAIN callsOf(m) /\ callsOf(m)[k].acq # 0
        /\ \A k \in DOMAIN act : act[k][1] = callsOf(m)[k].acq /\ act[k][2] = callsOf(m)[k].done
    BY ActiveFacts
  <2> HIDE DEF act, m, callsOf
  <2>7. ConcurrencySum(act, rows[i].acq, rows[i].done) = AllCounted(act, T)
    BY <2>1, <2>5, ConcurrencyCounts
  <2>8. ASSUME NEW t \in T PROVE CountAt(act, t) = ActiveAt(Begun(rows, m, now), t)
    <3>1. t \in Nat /\ since <= t
      BY <1>1, <2>1
    <3>2. since \in Int
      OBVIOUS
    <3>3. \A k : /\ k \in DOMAIN callsOf(m) /\ callsOf(m)[k].acq # 0 /\ callsOf(m)[k].acq <= t /\ t < callsOf(m)[k].done
                    <=> /\ k \in DOMAIN Begun(rows, m, now) /\ Begun(rows, m, now)[k].acq # 0
                        /\ Begun(rows, m, now)[k].acq <= t /\ t < Begun(rows, m, now)[k].done
      BY <2>3, <3>1, <3>2, FetchedCalls
    <3>4. {k \in DOMAIN act : act[k][1] <= t /\ t < act[k][2]}
            = {k \in DOMAIN Begun(rows, m, now) : /\ Begun(rows, m, now)[k].acq # 0
                                                  /\ Begun(rows, m, now)[k].acq <= t /\ t < Begun(rows, m, now)[k].done}
      BY <2>6, <3>3
    <3> QED BY <3>4 DEF CountAt, ActiveAt
  <2>9. [t \in T |-> CountAt(act, t)] = [t \in T |-> ActiveAt(Begun(rows, m, now), t)]
    BY <2>8
  <2> QED BY <2>7, <2>9 DEF AllCounted, act, m
<1> QED BY <1>1 DEF ConcurrencyIsMeasured

-----------------------------------------------------------------------------
\* Percentiles and cells.

\* Items ranked by a key: how many are at most, and less than, a value.
KeyTable(key) == IsFiniteSet(DOMAIN key) /\ DOMAIN key # {} /\ \A i \in DOMAIN key : key[i] \in Nat
LEMMA RankSizes ==
  ASSUME NEW key, KeyTable(key), NEW k
  PROVE  /\ UpTo(key, k) \in Nat /\ Below(key, k) \in Nat
         /\ Cardinality(DOMAIN key) \in Nat /\ UpTo(key, k) <= Cardinality(DOMAIN key)
         /\ k \in Nat => Cardinality({i \in DOMAIN key : key[i] > k}) = Cardinality(DOMAIN key) - UpTo(key, k)
<1> DEFINE A == {i \in DOMAIN key : key[i] <= k}
           B == {i \in DOMAIN key : key[i] < k}
           C == {i \in DOMAIN key : key[i] > k}
           D == DOMAIN key
<1>1. A \in SUBSET D /\ B \in SUBSET D /\ C \in SUBSET D /\ IsFiniteSet(D)
  BY DEF KeyTable
<1>2. k \in Nat => A \cup C = D /\ A \cap C = {}
  BY DEF KeyTable
<1>3. UpTo(key, k) = Cardinality(A) /\ Below(key, k) = Cardinality(B)
  BY DEF UpTo, Below
<1> HIDE DEF A, B, C, D
<1>4. /\ IsFiniteSet(A) /\ IsFiniteSet(B) /\ IsFiniteSet(C)
      /\ Cardinality(A) <= Cardinality(D)
  BY <1>1, FS_Subset
<1>5. /\ Cardinality(A) \in Nat /\ Cardinality(B) \in Nat /\ Cardinality(C) \in Nat /\ Cardinality(D) \in Nat
  BY <1>1, <1>4, FS_CardinalityType
<1>6. k \in Nat => Cardinality(D) = Cardinality(A) + Cardinality(C)
  BY <1>2, <1>4, DisjointSizes
<1>7. k \in Nat => Cardinality(C) = Cardinality(D) - Cardinality(A)
  BY <1>5, <1>6
<1> QED BY <1>3, <1>4, <1>5, <1>7 DEF C, D

\* Every rank is that of some key.
LEMMA RankedKey ==
  ASSUME NEW key, KeyTable(key), NEW r \in 1 .. Cardinality(DOMAIN key)
  PROVE  /\ Ranked(key, r) \in Nat /\ \E i \in DOMAIN key : Ranked(key, r) = key[i]
         /\ Below(key, Ranked(key, r)) < r /\ r <= UpTo(key, Ranked(key, r))
<1> DEFINE V == {key[i] : i \in DOMAIN key}
           n == Cardinality(DOMAIN key)
           S == {v \in V : r <= UpTo(key, v)}
<1>1. V \in SUBSET Nat /\ V # {} /\ IsFiniteSet(V)
  BY FiniteImage DEF KeyTable
<1>2. n \in Nat /\ r \in Nat /\ 1 <= r /\ r <= n
  <2>1. n \in Nat
    BY FS_CardinalityType DEF KeyTable
  <2> QED BY <2>1
<1>3. \A i \in DOMAIN key : key[i] \in V
  OBVIOUS
<1>4. \A v \in V : \E i \in DOMAIN key : v = key[i]
  OBVIOUS
<1>5. \A v : v \in S <=> v \in V /\ r <= UpTo(key, v)
  OBVIOUS
<1>r. Ranked(key, r) = CHOOSE k \in V : Below(key, k) < r /\ r <= UpTo(key, k)
  BY DEF Ranked
<1> HIDE DEF V, S, n
<1>6. S # {}
  <2>1. PICK g \in V : \A v \in V : v <= g
    BY <1>1, GreatestOf
  <2>2. {i \in DOMAIN key : key[i] <= g} = DOMAIN key
    BY <1>3, <2>1
  <2>3. UpTo(key, g) = n
    BY <2>2 DEF UpTo, n
  <2> QED BY <1>2, <1>5, <2>1, <2>3
<1>7. S \in SUBSET Nat
  BY <1>1, <1>5
<1>8. PICK k \in S : \A v \in S : k <= v
  BY <1>6, <1>7, LeastOf
<1>9. k \in V /\ k \in Nat /\ r <= UpTo(key, k)
  BY <1>5, <1>7, <1>8
<1>10. Below(key, k) < r
  <2> DEFINE U == {v \in V : v < k}
  <2>1. U \in SUBSET Nat /\ IsFiniteSet(U)
    BY <1>1, FS_Subset
  <2>2. \A v : v \in U <=> v \in V /\ v < k
    OBVIOUS
  <2> HIDE DEF U
  <2>3. CASE U = {}
    <3>1. {i \in DOMAIN key : key[i] < k} = {}
      BY <1>3, <2>2, <2>3
    <3>2. Below(key, k) = 0
      BY <3>1, FS_EmptySet DEF Below
    <3> QED BY <1>2, <3>2
  <2>4. CASE U # {}
    <3>1. PICK g \in U : \A v \in U : v <= g
      BY <2>1, <2>4, GreatestOf
    <3>2. g \in Nat /\ g < k /\ g \in V
      BY <2>1, <2>2, <3>1
    <3>3. g \notin S
      BY <1>8, <1>9, <3>2
    <3>4. ~(r <= UpTo(key, g))
      BY <1>5, <3>2, <3>3
    <3>5. \A i \in DOMAIN key : key[i] < k <=> key[i] <= g
      <4> SUFFICES ASSUME NEW i \in DOMAIN key PROVE key[i] < k <=> key[i] <= g
        OBVIOUS
      <4>1. key[i] \in V /\ key[i] \in Nat
        BY <1>1, <1>3
      <4>2. key[i] < k => key[i] <= g
        BY <2>2, <3>1, <4>1
      <4>3. key[i] <= g => key[i] < k
        BY <1>9, <3>2, <4>1
      <4> QED BY <4>2, <4>3
    <3>6. {i \in DOMAIN key : key[i] < k} = {i \in DOMAIN key : key[i] <= g}
      BY <3>5
    <3>7. Below(key, k) = UpTo(key, g) /\ UpTo(key, g) \in Nat
      BY <3>6, RankSizes DEF UpTo, Below
    <3> QED BY <1>2, <3>4, <3>7
  <2> QED BY <2>3, <2>4
<1>11. Ranked(key, r) \in V /\ Below(key, Ranked(key, r)) < r /\ r <= UpTo(key, Ranked(key, r))
  BY <1>r, <1>9, <1>10, Zenon
<1> QED BY <1>1, <1>4, <1>11

\* The ranks of the median and of the 95th percentile.
LEMMA PercentileRanks ==
  ASSUME NEW n \in Nat \ {0}
  PROVE  /\ \E r \in 1 .. n : /\ Min({(n * 50) \div 100, n - 1}) + 1 = r
                              /\ 2 * (n - r) <= n /\ 2 * (r - 1) <= n
         /\ \E r \in 1 .. n : /\ Min({(n * 95) \div 100, n - 1}) + 1 = r
                              /\ 20 * (n - r) <= n
<1>1. PICK d \in Nat, e \in Nat : d = n * 50 /\ e = n * 95
  OBVIOUS
<1>2. PICK q \in Nat, s \in Nat : q = d \div 100 /\ s < 100 /\ d = 100 * q + s
  <2>1. d = 100 * (d \div 100) + (d % 100) /\ d \div 100 \in Nat /\ d % 100 \in 0 .. 99
    OBVIOUS
  <2> QED BY <2>1
<1>3. PICK u \in Nat, v \in Nat : u = e \div 100 /\ v < 100 /\ e = 100 * u + v
  <2>1. e = 100 * (e \div 100) + (e % 100) /\ e \div 100 \in Nat /\ e % 100 \in 0 .. 99
    OBVIOUS
  <2> QED BY <2>1
<1>4. q \in Int /\ u \in Int /\ n - 1 \in Int /\ q <= n - 1 /\ u <= n - 1
  BY <1>1, <1>2, <1>3
<1>5. Min({q, n - 1}) = q /\ Min({u, n - 1}) = u
  BY <1>4, LesserOfTwo
<1>6. 2 * (n - (q + 1)) <= n /\ 2 * (q + 1 - 1) <= n /\ q + 1 \in 1 .. n
  BY <1>1, <1>2, <1>4
<1>7. 20 * (n - (u + 1)) <= n /\ u + 1 \in 1 .. n
  BY <1>1, <1>3, <1>4
<1> QED BY <1>1, <1>2, <1>3, <1>5, <1>6, <1>7

\* Reported percentiles split the calls.
Splits(calls, total) ==
  DOMAIN calls # {} =>
    /\ 2 * Count(Having(calls, LAMBDA e : e.done - e.enq > total[1])) <= Count(calls)
    /\ 2 * Count(Having(calls, LAMBDA e : e.done - e.enq < total[1])) <= Count(calls)
    /\ 20 * Count(Having(calls, LAMBDA e : e.done - e.enq > total[2])) <= Count(calls)
LEMMA PercentilesSplit ==
  ASSUME NEW calls, EventTable(calls)
  PROVE  Splits(calls, Latencies(Totals(calls)))
<1> SUFFICES ASSUME DOMAIN calls # {} PROVE Splits(calls, Latencies(Totals(calls)))
  BY DEF Splits
<1> DEFINE key == Totals(calls)
           n == Cardinality(DOMAIN key)
           t50 == Percentile(key, 50)
           t95 == Percentile(key, 95)
<1>1. DOMAIN key = DOMAIN calls /\ \A i \in DOMAIN calls : key[i] = calls[i].done - calls[i].enq
  BY DEF Totals
<1>2. Latencies(key)[1] = t50 /\ Latencies(key)[2] = t95
  BY <1>1 DEF Latencies
<1>3. KeyTable(key)
  <2>1. \A i \in DOMAIN calls : calls[i].done - calls[i].enq \in Nat
    BY DEF EventTable
  <2> QED BY <1>1, <2>1 DEF KeyTable, EventTable
<1>4. ASSUME NEW t
      PROVE  /\ Count(Having(calls, LAMBDA e : e.done - e.enq > t)) = Cardinality({i \in DOMAIN key : key[i] > t})
             /\ Count(Having(calls, LAMBDA e : e.done - e.enq < t)) = Below(key, t)
  <2>1. DOMAIN Having(calls, LAMBDA e : e.done - e.enq > t) = {i \in DOMAIN key : key[i] > t}
    BY <1>1 DEF Having, Restrict
  <2>2. DOMAIN Having(calls, LAMBDA e : e.done - e.enq < t) = {i \in DOMAIN key : key[i] < t}
    BY <1>1 DEF Having, Restrict
  <2> QED BY <2>1, <2>2 DEF Count, Below
<1>5. n = Count(calls)
  BY <1>1 DEF Count
<1>6. n \in Nat /\ n # 0
  <2>1. n \in Nat
    BY <1>3, RankSizes
  <2> QED BY <1>1, <1>3, <2>1, FS_EmptySet DEF KeyTable
<1>7. t50 = Ranked(key, Min({(n * 50) \div 100, n - 1}) + 1) /\ t95 = Ranked(key, Min({(n * 95) \div 100, n - 1}) + 1)
  BY DEF Percentile
<1> HIDE DEF key, n, t50, t95
<1>8. /\ \E r \in 1 .. n : /\ Min({(n * 50) \div 100, n - 1}) + 1 = r
                              /\ 2 * (n - r) <= n /\ 2 * (r - 1) <= n
      /\ \E r \in 1 .. n : /\ Min({(n * 95) \div 100, n - 1}) + 1 = r
                              /\ 20 * (n - r) <= n
  BY <1>6, PercentileRanks
<1>9. PICK r \in 1 .. n : t50 = Ranked(key, r) /\ 2 * (n - r) <= n /\ 2 * (r - 1) <= n
  BY <1>7, <1>8
<1>10. PICK w \in 1 .. n : t95 = Ranked(key, w) /\ 20 * (n - w) <= n
  BY <1>7, <1>8
<1>11. r \in 1 .. Cardinality(DOMAIN key) /\ w \in 1 .. Cardinality(DOMAIN key)
  BY DEF n
<1>12. t50 \in Nat /\ Below(key, t50) < r /\ r <= UpTo(key, t50)
  BY <1>3, <1>9, <1>11, RankedKey
<1>13. t95 \in Nat /\ w <= UpTo(key, t95)
  BY <1>3, <1>10, <1>11, RankedKey
<1>14. /\ Below(key, t50) \in Nat /\ UpTo(key, t50) \in Nat /\ UpTo(key, t95) \in Nat
       /\ Cardinality({i \in DOMAIN key : key[i] > t50}) = n - UpTo(key, t50)
       /\ Cardinality({i \in DOMAIN key : key[i] > t95}) = n - UpTo(key, t95)
  BY <1>3, <1>12, <1>13, RankSizes DEF n
<1>15. 2 * Cardinality({i \in DOMAIN key : key[i] > t50}) <= n
  BY <1>6, <1>9, <1>12, <1>14
<1>16. 2 * Below(key, t50) <= n
  BY <1>6, <1>9, <1>12, <1>14
<1>17. 20 * Cardinality({i \in DOMAIN key : key[i] > t95}) <= n
  BY <1>6, <1>10, <1>13, <1>14
<1>18. /\ Count(Having(calls, LAMBDA e : e.done - e.enq > t50)) = Cardinality({i \in DOMAIN key : key[i] > t50})
       /\ Count(Having(calls, LAMBDA e : e.done - e.enq < t50)) = Below(key, t50)
       /\ Count(Having(calls, LAMBDA e : e.done - e.enq > t95)) = Cardinality({i \in DOMAIN key : key[i] > t95})
  BY <1>4
<1> QED BY <1>2, <1>5, <1>15, <1>16, <1>17, <1>18 DEF Splits, key

\* The calls that the cells are made of, and the cell of each.
LEMMA MeasuredFacts ==
  ASSUME NEW events
  PROVE  /\ \A i : i \in DOMAIN Measured(events)
                   <=> /\ i \in DOMAIN events /\ events[i].outcome = "completed"
                       /\ events[i].acq # 0 /\ events[i].done > events[i].acq
         /\ \A i \in DOMAIN Measured(events) : Measured(events)[i] = events[i]
<1>1. /\ \A i : i \in DOMAIN HeldSlot(With(events, "completed"))
                <=> i \in DOMAIN events /\ events[i].outcome = "completed" /\ events[i].acq # 0
      /\ \A i \in DOMAIN HeldSlot(With(events, "completed")) : HeldSlot(With(events, "completed"))[i] = events[i]
  BY WithFacts, HeldFacts
<1>2. PICK held : held = HeldSlot(With(events, "completed"))
  OBVIOUS
<1>3. Measured(events) = Having(held, LAMBDA e : e.done > e.acq)
  BY <1>2 DEF Measured
<1>4. /\ \A i : i \in DOMAIN Having(held, LAMBDA e : e.done > e.acq) <=> i \in DOMAIN held /\ held[i].done > held[i].acq
      /\ \A i \in DOMAIN Having(held, LAMBDA e : e.done > e.acq) : Having(held, LAMBDA e : e.done > e.acq)[i] = held[i]
  BY DEF Having, Restrict
<1> QED BY <1>1, <1>2, <1>3, <1>4

\* The measured calls are a table.
LEMMA MeasuredTable ==
  ASSUME NEW events, EventTable(events)
  PROVE  EventTable(Measured(events))
<1>1. DOMAIN Measured(events) \subseteq DOMAIN events
  BY MeasuredFacts
<1>2. IsFiniteSet(DOMAIN Measured(events))
  BY <1>1, FS_Subset DEF EventTable
<1> QED BY <1>1, <1>2, MeasuredFacts DEF EventTable

CellNames(events) == [i \in DOMAIN Measured(events) |-> CellOf(events, Measured(events)[i])]
SizedTokens(rows) ==
  LET sized == Having(rows, LAMBDA e : e.tokens > 0) IN TotalOf([i \in DOMAIN sized |-> sized[i].tokens])

\* The columns of the cells.
LEMMA CellColumns ==
  ASSUME NEW events
  PROVE  /\ DOMAIN Cells(events) = DOMAIN Groups(Measured(events), CellNames(events))
         /\ \A n \in DOMAIN Groups(Measured(events), CellNames(events)) :
              /\ Cells(events)[n].calls = Count(Groups(Measured(events), CellNames(events))[n])
              /\ Cells(events)[n].tok = SizedTokens(Groups(Measured(events), CellNames(events))[n])
BY DEF Cells, CellNames, SizedTokens

\* A call without tokens adds none.
LEMMA SizedHaveAll ==
  ASSUME NEW rows, EventTable(rows)
  PROVE  SizedTokens(rows) = TotalOf([i \in DOMAIN rows |-> rows[i].tokens])
<1> DEFINE sized == Having(rows, LAMBDA e : e.tokens > 0)
           a == [i \in DOMAIN sized |-> sized[i].tokens]
           b == [i \in DOMAIN rows |-> rows[i].tokens]
<1>1. /\ \A i : i \in DOMAIN sized <=> i \in DOMAIN rows /\ rows[i].tokens > 0
      /\ \A i \in DOMAIN sized : sized[i] = rows[i]
  BY DEF Having, Restrict
<1> HIDE DEF sized
<1>2. /\ DOMAIN a \subseteq DOMAIN b
      /\ \A i \in DOMAIN a : a[i] = b[i]
  BY <1>1
<1>3. \A i \in DOMAIN b : i \notin DOMAIN a => b[i] = 0
  BY <1>1 DEF EventTable
<1>4. SizedTokens(rows) = TotalOf(a)
  BY DEF SizedTokens, sized
<1> HIDE DEF a, b
<1>5. TotalOf(a) = TotalOf(b)
  BY ONLY <1>2, <1>3, SumWithoutZeros
<1> QED BY <1>4, <1>5 DEF b

\* The cells hold every measured call, with its tokens.
LEMMA CellsAdd ==
  ASSUME NEW events, EventTable(events)
  PROVE  /\ TotalOf([n \in DOMAIN Cells(events) |-> Cells(events)[n].calls]) = Count(Measured(events))
         /\ TotalOf([n \in DOMAIN Cells(events) |-> Cells(events)[n].tok])
              = TotalOf([i \in DOMAIN Measured(events) |-> Measured(events)[i].tokens])
<1> DEFINE measured == Measured(events)
           names == CellNames(events)
           cells == Cells(events)
           group == Groups(measured, names)
<1>1. EventTable(measured) /\ IsFiniteSet(DOMAIN measured) /\ DOMAIN names = DOMAIN measured
  BY MeasuredTable DEF CellNames, EventTable
<1>2. /\ DOMAIN cells = DOMAIN group
      /\ \A n \in DOMAIN group : cells[n].calls = Count(group[n]) /\ cells[n].tok = SizedTokens(group[n])
  BY CellColumns
<1> HIDE DEF measured, names, cells
<1>3. GroupsCount(measured, names) = Count(measured)
  BY <1>1, CountsAdd
<1>4. GroupsAmount(measured, names, "tokens") = TotalOf([i \in DOMAIN measured |-> measured[i].tokens])
  BY <1>1, TokensAdd
<1>5. ASSUME NEW n \in DOMAIN group
      PROVE  SizedTokens(group[n]) = TotalOf([i \in DOMAIN group[n] |-> group[n][i]["tokens"]])
  <2>1. EventTable(group[n])
    BY <1>1, GroupTable
  <2> HIDE DEF group
  <2>2. SizedTokens(group[n]) = TotalOf([i \in DOMAIN group[n] |-> group[n][i].tokens])
    BY <2>1, SizedHaveAll
  <2> QED BY <2>2
<1>6. [n \in DOMAIN cells |-> cells[n].calls] = [n \in DOMAIN group |-> Count(group[n])]
  BY <1>2
<1>7. [n \in DOMAIN cells |-> cells[n].tok]
        = [n \in DOMAIN group |-> TotalOf([i \in DOMAIN group[n] |-> group[n][i]["tokens"]])]
  BY <1>2, <1>5
<1> QED BY <1>3, <1>4, <1>6, <1>7 DEF GroupsCount, GroupsAmount, measured, cells

\* The mean of one over a span is one.
LEMMA MeanOfOne ==
  ASSUME NEW span \in Nat \ {0}
  PROVE  Max({1, RoundedMean(1 * span, span)}) = 1
<1>1. span \div span = 1 /\ span % span = 0 /\ 1 * span = span
  OBVIOUS
<1>2. RoundedMean(span, span) = 1
  BY <1>1 DEF RoundedMean
<1>3. Max({1, 1}) = 1
  BY GreaterOfTwo
<1> QED BY <1>1, <1>2, <1>3

\* A call beside which no other of its model ran is in cell 1.
Beside(events, e) == Having(HeldSlot(events), LAMBDA d : Overlap(d.acq, d.done, e.acq, e.done) > 0)
LEMMA AloneInOne ==
  ASSUME NEW events, EventTable(events), NEW i \in DOMAIN Measured(events),
         Count(Beside(events, events[i])) = 1
  PROVE  CellOf(events, events[i]) = 1
<1> DEFINE act == Active(events)
           B == DOMAIN Beside(events, events[i])
<1>1. PICK s, e \in Nat : s = events[i].acq /\ e = events[i].done /\ s # 0 /\ e > s /\ i \in DOMAIN events
  BY MeasuredFacts DEF EventTable
<1>2. \A k : k \in B <=> /\ k \in DOMAIN events /\ events[k].acq # 0
                         /\ Overlap(events[k].acq, events[k].done, s, e) > 0
  <2>1. \A k : k \in B <=> /\ k \in DOMAIN HeldSlot(events)
                           /\ Overlap(HeldSlot(events)[k].acq, HeldSlot(events)[k].done, s, e) > 0
    BY <1>1 DEF Beside, Having, Restrict
  <2> QED BY <2>1, HeldFacts
<1>3. /\ \A k : k \in DOMAIN act <=> k \in DOMAIN events /\ events[k].acq # 0
      /\ \A k \in DOMAIN act : act[k][1] = events[k].acq /\ act[k][2] = events[k].done
  BY ActiveFacts
<1>4. Spanning(act) /\ IsFiniteSet(DOMAIN act)
  BY IntervalsOfEvents
<1>5. IsFiniteSet(B) /\ Cardinality(B) = 1
  <2>1. B \in SUBSET DOMAIN events
    BY <1>2
  <2> QED BY <2>1, FS_Subset DEF EventTable, Count
<1> HIDE DEF act, B
<1>6. ASSUME NEW k \in DOMAIN act, NEW t \in s .. e - 1, act[k][1] <= t, t < act[k][2]
      PROVE  k \in B
  <2>1. PICK a, b \in Nat : a = events[k].acq /\ b = events[k].done /\ a <= t /\ t < b
    BY <1>3, <1>6 DEF EventTable
  <2>2. a \in Int /\ b \in Int /\ s \in Int /\ e \in Int /\ t \in Nat /\ s <= t /\ t < e
    BY <1>1, <2>1
  <2>3. PICK lo, hi \in Int : Spans(a, b, s, e, lo, hi)
    BY <2>2, OverlapValue, Zenon
  <2>4. Overlap(a, b, s, e) > 0
    BY <2>1, <2>2, <2>3 DEF Spans
  <2> QED BY <1>2, <1>3, <2>1, <2>4
<1>7. i \in DOMAIN act /\ act[i][1] = s /\ act[i][2] = e
  BY <1>1, <1>3
<1>8. s \in s .. e - 1
  BY <1>1
<1>9. i \in B
  BY <1>1, <1>6, <1>7, <1>8
<1>10. B = {i}
  <2>1. PICK z : B = {z}
    BY <1>5, FS_Singleton
  <2> QED BY <1>9, <2>1
<1>11. ASSUME NEW t \in s .. e - 1 PROVE CountAt(act, t) = 1
  <2>1. t \in Nat /\ s <= t /\ t < e
    BY <1>1
  <2>2. {k \in DOMAIN act : act[k][1] <= t /\ t < act[k][2]} = {i}
    BY <1>6, <1>7, <1>10, <2>1
  <2>3. Cardinality({i}) = 1
    BY FS_Singleton
  <2> QED BY <2>2, <2>3 DEF CountAt
<1>12. Steady(act, 1, s, e)
  BY <1>11 DEF Steady
<1>13. ConcurrencySum(act, s, e) = 1 * (e - s)
  <2>1. AllCounted(act, s .. e - 1) = 1 * (e - s)
    BY <1>1, <1>12, CountedSteady
  <2> QED BY <1>4, <2>1, ConcurrencyCounts
<1>14. PICK span \in Nat \ {0} : span = e - s
  BY <1>1
<1>15. CellOf(events, events[i]) = Max({1, RoundedMean(1 * span, span)})
  BY <1>1, <1>13, <1>14 DEF CellOf, act
<1> QED BY <1>15, MeanOfOne

\* What the summaries of models and workloads are made of.
LEMMA SummaryColumns ==
  ASSUME NEW rows, NEW since, NEW now, NEW events, events = FetchEvents(rows, since, now)
  PROVE  /\ DOMAIN Models(rows, since, now) = DOMAIN Groups(events, ModelNames(events))
         /\ \A m \in DOMAIN Groups(events, ModelNames(events)) :
              /\ Models(rows, since, now)[m].cells = Cells(Groups(events, ModelNames(events))[m])
              /\ Models(rows, since, now)[m].total
                   = Latencies(Totals(With(Groups(events, ModelNames(events))[m], "completed")))
         /\ DOMAIN Workloads(rows, since, now) = DOMAIN Groups(events, LabelNames(events))
         /\ \A x \in DOMAIN Groups(events, LabelNames(events)) :
              Workloads(rows, since, now)[x].total
                = Latencies(Totals(With(Groups(events, LabelNames(events))[x], "completed")))
<1>1. /\ DOMAIN Models(rows, since, now) = DOMAIN Groups(events, ModelNames(events))
      /\ \A m \in DOMAIN Groups(events, ModelNames(events)) :
           /\ Models(rows, since, now)[m].cells = Cells(Groups(events, ModelNames(events))[m])
           /\ Models(rows, since, now)[m].total
                = Latencies(Totals(With(Groups(events, ModelNames(events))[m], "completed")))
  BY CountsAreTally DEF Models, ModelNames
<1>2. /\ DOMAIN Workloads(rows, since, now) = DOMAIN Groups(events, LabelNames(events))
      /\ \A x \in DOMAIN Groups(events, LabelNames(events)) :
           Workloads(rows, since, now)[x].total
             = Latencies(Totals(With(Groups(events, LabelNames(events))[x], "completed")))
  BY CountsAreTally DEF Workloads, LabelNames
<1> QED BY <1>1, <1>2

\* The calls of an outcome are a table.
LEMMA WithTable ==
  ASSUME NEW events, EventTable(events), NEW o
  PROVE  EventTable(With(events, o))
<1>1. DOMAIN With(events, o) \subseteq DOMAIN events
  BY WithFacts
<1>2. IsFiniteSet(DOMAIN With(events, o))
  BY <1>1, FS_Subset DEF EventTable
<1> QED BY <1>1, <1>2, WithFacts DEF EventTable

\* The calls of a name are one group.
OfModel(events, m) == Having(events, LAMBDA e : e.model = m)
OfLabel(events, x) == Having(events, LAMBDA e : SanitizeLabel(e.label) = x)
LEMMA GroupIsHaving ==
  ASSUME NEW events, NEW m
  PROVE  /\ m \in DOMAIN Groups(events, ModelNames(events))
              => Groups(events, ModelNames(events))[m] = OfModel(events, m)
         /\ m \in DOMAIN Groups(events, LabelNames(events))
              => Groups(events, LabelNames(events))[m] = OfLabel(events, m)
<1>1. m \in DOMAIN Groups(events, ModelNames(events))
        => Groups(events, ModelNames(events))[m] = OfModel(events, m)
  <2>1. {i \in DOMAIN events : ModelNames(events)[i] = m} = {i \in DOMAIN events : events[i].model = m}
    BY DEF ModelNames
  <2> QED BY <2>1 DEF Groups, Having, OfModel
<1>2. m \in DOMAIN Groups(events, LabelNames(events))
        => Groups(events, LabelNames(events))[m] = OfLabel(events, m)
  <2>1. {i \in DOMAIN events : LabelNames(events)[i] = m} = {i \in DOMAIN events : SanitizeLabel(events[i].label) = m}
    BY DEF LabelNames
  <2> QED BY <2>1 DEF Groups, Having, OfLabel
<1> QED BY <1>1, <1>2

\* A summary stands for its calls.
THEOREM SummariesAreSound ==
  ASSUME NEW rows, EventTable(rows), NEW since \in Nat, NEW now \in Nat
  PROVE  SummariesSound(rows, since, now)
<1> DEFINE models == Models(rows, since, now)
           workloads == Workloads(rows, since, now)
           events == FetchEvents(rows, since, now)
           mn == ModelNames(events)
           ln == LabelNames(events)
<1>1. EventTable(events)
  BY FetchedTable
<1>2. /\ DOMAIN models = DOMAIN Groups(events, mn)
      /\ \A m \in DOMAIN Groups(events, mn) :
           /\ models[m].cells = Cells(Groups(events, mn)[m])
           /\ models[m].total = Latencies(Totals(With(Groups(events, mn)[m], "completed")))
      /\ DOMAIN workloads = DOMAIN Groups(events, ln)
      /\ \A x \in DOMAIN Groups(events, ln) :
           workloads[x].total = Latencies(Totals(With(Groups(events, ln)[x], "completed")))
  BY SummaryColumns
<1>3. ASSUME NEW m
      PROVE  /\ m \in DOMAIN Groups(events, mn) => Groups(events, mn)[m] = OfModel(events, m)
             /\ m \in DOMAIN Groups(events, ln) => Groups(events, ln)[m] = OfLabel(events, m)
  BY GroupIsHaving
<1>4. ASSUME NEW m, NEW i \in DOMAIN OfModel(events, m)
      PROVE  OfModel(events, m)[i].model = m
  BY DEF OfModel, Having, Restrict
<1> HIDE DEF models, workloads, events, mn, ln
<1>5. ASSUME NEW m \in DOMAIN models
      PROVE  LET cells    == models[m].cells
                 measured == Measured(OfModel(events, m))
             IN /\ TotalOf([n \in DOMAIN cells |-> cells[n].calls]) = Count(measured)
                /\ TotalOf([n \in DOMAIN cells |-> cells[n].tok])
                     = TotalOf([i \in DOMAIN measured |-> measured[i].tokens])
                /\ \A i \in DOMAIN measured :
                     Count(Beside(OfModel(events, measured[i].model), measured[i])) = 1 => 1 \in DOMAIN cells
                /\ Splits(With(OfModel(events, m), "completed"), models[m].total)
  <2>1. PICK own : own = OfModel(events, m)
    OBVIOUS
  <2>2. own = Groups(events, mn)[m] /\ m \in DOMAIN Groups(events, mn)
    BY <1>2, <1>3, <2>1
  <2>3. EventTable(own)
    BY <1>1, <2>2, GroupTable
  <2>4. models[m].cells = Cells(own) /\ models[m].total = Latencies(Totals(With(own, "completed")))
    BY <1>2, <2>2
  <2>5. /\ TotalOf([n \in DOMAIN Cells(own) |-> Cells(own)[n].calls]) = Count(Measured(own))
        /\ TotalOf([n \in DOMAIN Cells(own) |-> Cells(own)[n].tok])
             = TotalOf([i \in DOMAIN Measured(own) |-> Measured(own)[i].tokens])
    BY <2>3, CellsAdd
  <2>6. ASSUME NEW i \in DOMAIN Measured(own), Count(Beside(OfModel(events, Measured(own)[i].model), Measured(own)[i])) = 1
        PROVE  1 \in DOMAIN Cells(own)
    <3>1. Measured(own)[i] = own[i] /\ i \in DOMAIN own
      BY MeasuredFacts
    <3>2. own[i].model = m
      BY <1>4, <2>1, <3>1
    <3>3. Count(Beside(own, own[i])) = 1
      BY <2>1, <2>6, <3>1, <3>2
    <3>4. CellOf(own, own[i]) = 1
      BY <2>3, <3>3, AloneInOne
    <3>5. CellNames(own)[i] = 1
      BY <3>1, <3>4 DEF CellNames
    <3>6. 1 \in DOMAIN Groups(Measured(own), CellNames(own))
      BY <3>5, GroupFacts
    <3> QED BY <3>6, CellColumns
  <2>7. Splits(With(own, "completed"), Latencies(Totals(With(own, "completed"))))
    BY <2>3, WithTable, PercentilesSplit
  <2> QED BY <2>1, <2>4, <2>5, <2>6, <2>7
<1>6. ASSUME NEW x \in DOMAIN workloads
      PROVE  Splits(With(OfLabel(events, x), "completed"), workloads[x].total)
  <2>1. PICK own : own = OfLabel(events, x)
    OBVIOUS
  <2>2. own = Groups(events, ln)[x] /\ x \in DOMAIN Groups(events, ln)
    BY <1>2, <1>3, <2>1
  <2>3. EventTable(own)
    BY <1>1, <2>2, GroupTable
  <2>4. workloads[x].total = Latencies(Totals(With(own, "completed")))
    BY <1>2, <2>2
  <2>5. Splits(With(own, "completed"), Latencies(Totals(With(own, "completed"))))
    BY <2>3, WithTable, PercentilesSplit
  <2> QED BY <2>1, <2>4, <2>5
<1> QED BY <1>5, <1>6 DEF SummariesSound, Splits, Beside, OfModel, OfLabel, models, workloads, events

-----------------------------------------------------------------------------
\* The invariants of the run Functions about tables hold of every table.

\* Every curve holds what its definition says of the calls of the table, tokens
\* included, however many calls the fetch, the clipping and the buckets cut.
THEOREM CurvesAreExact ==
  ASSUME EventTable(table), Divisible(table)
  PROVE  CurvesExact
<1>1. CurvesCountCalls(table, Since, Until, Bucket)
  BY CurvesCount DEF Since, Until, Bucket
<1>2. TokensConserved(table, Since, Until, Bucket)
  BY TokensAreConserved DEF Since, Until, Bucket
<1> QED BY <1>1, <1>2 DEF CurvesExact

\* A summary stands for its calls, and the concurrency that picks the cell of a
\* call is what ran beside it.
THEOREM SummariesAreTrue ==
  ASSUME EventTable(table)
  PROVE  SummariesTrue
<1>1. SummariesSound(table, Since, Until)
  BY SummariesAreSound DEF Since, Until
<1>2. ConcurrencyIsMeasured(table, Since, Until)
  BY ConcurrencyMeasured DEF Since, Until
<1> QED BY <1>1, <1>2 DEF SummariesTrue

\* The stacked charts add up to their totals, and the tables to each other.
THEOREM ViewsDoAgree ==
  ASSUME EventTable(table), NoOther(table, MCAliases)
  PROVE  ViewsAgree
<1>1. StacksAddUp(table, Since, Until, Bucket, MCAliases)
  BY StacksAdd DEF Since, Until, Bucket
<1>2. TablesAgree(table, Since, Until, MCAliases)
  BY TablesDoAgree DEF Since, Until
<1> QED BY <1>1, <1>2 DEF ViewsAgree

-----------------------------------------------------------------------------
\* The run Functions: what it enumerates is what the theorems assume.

\* The fields of a row.
LEMMA RowFields ==
  ASSUME NEW row \in Rows
  PROVE  /\ row.enq \in 1..3 /\ row.acq \in 0..4 /\ row.done \in 2..4
         /\ row.enq <= row.done /\ (row.acq # 0 => row.enq <= row.acq /\ row.acq <= row.done)
         /\ row.prompt \in Nat /\ row.tokens \in Nat
         /\ row.model # "<other>" /\ row.key \in {"k1", "k2", "k3"}
<1>1. PICK t \in Times, k \in Kinds \cup {Waited} : row = Row(t, k)
  BY DEF Rows
<1>2. /\ row.enq = t.enq /\ row.acq = t.acq /\ row.done = t.done
      /\ row.prompt = k.prompt /\ row.tokens = k.tokens /\ row.model = k.model /\ row.key = k.key
  BY <1>1 DEF Row
<1>3. k.prompt \in Nat /\ k.tokens \in Nat /\ k.model # "<other>" /\ k.key \in {"k1", "k2", "k3"}
  <2>1. ASSUME NEW x \in Kinds \cup {Waited}
        PROVE  x.prompt \in Nat /\ x.tokens \in Nat /\ x.model # "<other>" /\ x.key \in {"k1", "k2", "k3"}
    <3>1. CASE x \in Kinds
      <4>1. \/ x = [model |-> "a", key |-> "k1", label |-> "", outcome |-> "completed", prompt |-> 1, tokens |-> 2]
            \/ x = [model |-> "a", key |-> "k2", label |-> "bulk", outcome |-> "client_abandoned", prompt |-> 0, tokens |-> 1]
            \/ x = [model |-> "b", key |-> "k2", label |-> "", outcome |-> "completed", prompt |-> 2, tokens |-> 1]
            \/ x = [model |-> "b", key |-> "k3", label |-> "bulk", outcome |-> "upstream_error", prompt |-> 0, tokens |-> 0]
        BY <3>1 DEF Kinds
      <4>2. CASE x = [model |-> "a", key |-> "k1", label |-> "", outcome |-> "completed", prompt |-> 1, tokens |-> 2]
        BY <4>2
      <4>3. CASE x = [model |-> "a", key |-> "k2", label |-> "bulk", outcome |-> "client_abandoned", prompt |-> 0, tokens |-> 1]
        BY <4>3
      <4>4. CASE x = [model |-> "b", key |-> "k2", label |-> "", outcome |-> "completed", prompt |-> 2, tokens |-> 1]
        BY <4>4
      <4>5. CASE x = [model |-> "b", key |-> "k3", label |-> "bulk", outcome |-> "upstream_error", prompt |-> 0, tokens |-> 0]
        BY <4>5
      <4> QED BY <4>1, <4>2, <4>3, <4>4, <4>5
    <3>2. CASE x = Waited
      BY <3>2 DEF Waited
    <3> QED BY <3>1, <3>2
  <2> QED BY <2>1
<1>4. /\ t.enq \in 1..3 /\ t.acq \in 0..4 /\ t.done \in 2..4
      /\ t.enq <= t.done /\ (t.acq # 0 => t.enq <= t.acq /\ t.acq <= t.done)
  BY DEF Times
<1> QED BY <1>2, <1>3, <1>4

\* Its tables can have been written, and have names of their own.
LEMMA TablesOfRows ==
  ASSUME NEW rows \in Seq(Rows)
  PROVE  EventTable(rows) /\ Divisible(rows) /\ NoOther(rows, MCAliases)
<1>1. /\ Len(rows) \in Nat /\ DOMAIN rows = 1 .. Len(rows)
      /\ \A i \in DOMAIN rows : rows[i] \in Rows
  BY LenProperties, ElementOfSeq
<1>2. IsFiniteSet(DOMAIN rows)
  BY <1>1, IntervalSize
<1>3. EventTable(rows)
  <2> SUFFICES ASSUME NEW i \in DOMAIN rows
               PROVE  /\ rows[i].enq \in Nat \ {0} /\ rows[i].acq \in Nat /\ rows[i].done \in Nat
                      /\ rows[i].prompt \in Nat /\ rows[i].tokens \in Nat
                      /\ rows[i].enq <= rows[i].done
                      /\ rows[i].acq # 0 => rows[i].enq <= rows[i].acq /\ rows[i].acq <= rows[i].done
    BY <1>2 DEF EventTable
  <2> QED BY <1>1, RowFields
<1>4. Divisible(rows)
  <2> SUFFICES ASSUME NEW i \in DOMAIN rows, rows[i].acq # 0, rows[i].done > rows[i].acq
               PROVE  \E k \in Nat : Scale = k * (rows[i].done - rows[i].acq)
    BY DEF Divisible
  <2>1. PICK s \in 0 .. 4, e \in 2 .. 4 : s = rows[i].acq /\ e = rows[i].done /\ s # 0 /\ e > s
    BY <1>1, RowFields
  <2>2. PICK k \in Nat : Scale = 6 * k
    <3>1. Scale \in Nat /\ Scale % 6 = 0
      BY ViewsAssumption, InputsAssumption
    <3>2. Scale = 6 * (Scale \div 6) + (Scale % 6) /\ Scale \div 6 \in Nat
      BY <3>1
    <3> QED BY <3>1, <3>2
  <2>3. e - s = 1 \/ e - s = 2 \/ e - s = 3
    BY <2>1
  <2>4. Scale = (6 * k) * 1 /\ Scale = (3 * k) * 2 /\ Scale = (2 * k) * 3
    BY <2>2
  <2>5. 6 * k \in Nat /\ 3 * k \in Nat /\ 2 * k \in Nat
    OBVIOUS
  <2> QED BY <2>1, <2>3, <2>4, <2>5
<1>5. NoOther(rows, MCAliases)
  <2>1. \A k \in {"k1", "k2", "k3"} : Alias(MCAliases, k) \in {"k1", "k2", "k3"}
    BY DEF Alias, MCAliases
  <2> QED BY <1>1, <2>1, RowFields DEF NoOther
<1> QED BY <1>3, <1>4, <1>5

\* What a configuration must have to have been read.
LEMMA CanBeRead ==
  ASSUME NEW c, NEW Names, c.entries \in Seq(Entry(Names)), c.default \in Nat \ {0},
         c.sections = [p \in DOMAIN c.sections |-> c.sections[p]],
         \A p \in DOMAIN c.sections : c.sections[p] \in Section(Names)
  PROVE  Readable(c)
BY DEF Readable

\* Its configurations can have been read.
LEMMA ConfigsReadable ==
  ASSUME NEW c \in Configs \cup {Plain}
  PROVE  Readable(c)
<1>1. Plain = [entries |-> <<>>, sections |-> <<>>, default |-> 4]
  BY DEF Plain
<1> DEFINE Names == {"chat", "bulk", "", "p", "s", "full_pool", "leave_room"}
<1>2. ASSUME NEW e \in Entries PROVE e \in Entry(Names)
  <2>0. e = [name |-> e.name, cap |-> e.cap, cost |-> e.cost, pool |-> e.pool, slot |-> e.slot]
    BY DEF Entries
  <2>1. /\ e.name \in {"chat", "bulk"} /\ e.cap \in {0, 1, 2} /\ e.cost \in {0, 3}
        /\ e.pool \in {"", "p"} /\ e.slot \in {"", "s", "p"}
    BY DEF Entries
  <2>b. e.name \in Names /\ e.pool \in Names /\ e.slot \in Names
    BY <2>1, Zenon
  <2>c. (e.cap = 0 \/ e.cap = 1 \/ e.cap = 2) /\ (e.cost = 0 \/ e.cost = 3)
    BY <2>1, Zenon
  <2>a. e.name \in Names /\ e.pool \in Names /\ e.slot \in Names /\ e.cap \in Nat /\ e.cost \in Nat
    <3>1. 0 \in Nat /\ 1 \in Nat /\ 2 \in Nat /\ 3 \in Nat
      OBVIOUS
    <3> QED BY <2>b, <2>c, <3>1, Zenon
  <2>2. e \in [name : Names, cap : Nat, cost : Nat, pool : Names, slot : Names]
    BY <2>0, <2>a
  <2>3. Unit % 1 = 0 /\ Unit % 2 = 0 /\ 1 <= Unit /\ 2 <= Unit
    BY ConfigurationAssumption, InputsAssumption
  <2>4. e.cap = 1 \/ e.cap = 2 \/ ~(e.cap > 0)
    BY ONLY <2>c
  <2>5. e.cap > 0 => e.cap <= Unit /\ Unit % e.cap = 0
    BY <2>3, <2>4
  <2> QED BY <2>2, <2>5 DEF Entry
<1>3. ASSUME NEW ss \in Sections
      PROVE  ss = [p \in DOMAIN ss |-> ss[p]] /\ \A p \in DOMAIN ss : ss[p] \in Section(Names)
  <2>1. CASE ss = <<>>
    BY <2>1
  <2>2. CASE ss \in [{"p"} -> [budget : {0, 2}, exclusive : BOOLEAN, heavy : {"", "full_pool"}]]
    <3>1. ASSUME NEW r \in [budget : {0, 2}, exclusive : BOOLEAN, heavy : {"", "full_pool"}] PROVE r \in Section(Names)
      <4>1. r = [budget |-> r.budget, exclusive |-> r.exclusive, heavy |-> r.heavy]
        OBVIOUS
      <4>2. r.budget \in {0, 2} /\ r.exclusive \in BOOLEAN /\ r.heavy \in {"", "full_pool"}
        OBVIOUS
      <4>3. (r.budget = 0 \/ r.budget = 2 \/ r.budget = 8) /\ r.exclusive \in BOOLEAN /\ r.heavy \in Names
        BY <4>2, Zenon
      <4>4. 0 \in Nat /\ 2 \in Nat /\ 8 \in Nat
        OBVIOUS
      <4>5. r.budget \in Nat
        BY <4>3, <4>4, Zenon
      <4> QED BY <4>1, <4>3, <4>5 DEF Section
    <3> QED BY <2>2, <3>1
  <2>3. CASE ss \in [{"default", "s"} -> [budget : {8}, exclusive : {FALSE}, heavy : {"full_pool", "leave_room"}]]
    <3>1. ASSUME NEW r \in [budget : {8}, exclusive : {FALSE}, heavy : {"full_pool", "leave_room"}] PROVE r \in Section(Names)
      <4>1. r = [budget |-> r.budget, exclusive |-> r.exclusive, heavy |-> r.heavy]
        OBVIOUS
      <4>2. r.budget \in {8} /\ r.exclusive \in {FALSE} /\ r.heavy \in {"full_pool", "leave_room"}
        OBVIOUS
      <4>3. (r.budget = 0 \/ r.budget = 2 \/ r.budget = 8) /\ r.exclusive \in BOOLEAN /\ r.heavy \in Names
        BY <4>2, Zenon
      <4>4. 0 \in Nat /\ 2 \in Nat /\ 8 \in Nat
        OBVIOUS
      <4>5. r.budget \in Nat
        BY <4>3, <4>4, Zenon
      <4> QED BY <4>1, <4>3, <4>5 DEF Section
    <3> QED BY <2>3, <3>1
  <2> QED BY <2>1, <2>2, <2>3 DEF Sections
<1> HIDE DEF Names
<1>4. CASE c = Plain
  <2>1. c.entries = <<>> /\ c.sections = <<>> /\ c.default = 4
    BY <1>1, <1>4
  <2>2. <<>> \in Seq(Entry(Names))
    BY EmptySeq
  <2>3. <<>> \in Sections
    BY DEF Sections
  <2>4. c.sections \in Sections
    BY <2>1, <2>3
  <2>5. c.entries \in Seq(Entry(Names)) /\ c.default \in Nat \ {0}
    BY <2>1, <2>2
  <2> QED BY <1>3, <2>4, <2>5, CanBeRead
<1>5. CASE c \in Configs
  <2>1. c.entries \in Lists /\ c.sections \in Sections /\ c.default = 4
    BY <1>5 DEF Configs
  <2>2. c.entries \in Seq(Entry(Names))
    <3>1. \/ \E e \in Entries : c.entries = <<e>>
          \/ \E e, f \in Entries : c.entries = <<e, f>>
      BY <2>1 DEF Lists
    <3>2. CASE \E e \in Entries : c.entries = <<e>>
      <4>1. PICK e \in Entry(Names) : c.entries = <<e>>
        BY <1>2, <3>2
      <4> QED BY <4>1
    <3>3. CASE \E e, f \in Entries : c.entries = <<e, f>>
      <4>1. PICK e, f \in Entry(Names) : c.entries = <<e, f>>
        BY <1>2, <3>3
      <4> QED BY <4>1
    <3> QED BY <3>1, <3>2, <3>3
  <2>3. c.default \in Nat \ {0}
    BY <2>1
  <2> QED BY <1>3, <2>1, <2>2, <2>3, CanBeRead
<1> QED BY <1>4, <1>5

\* What holds of every state of the run.
FInv ==
  /\ config \in Configs \cup {Plain} /\ tiers \in Seq(Nat \X Nat)
  /\ config # Plain => Wellformed(tiers)
  /\ table \in Seq(Rows)

\* The initial inputs are what the theorems assume.
LEMMA FInvStarts == FInit => FInv
<1> SUFFICES ASSUME FInit PROVE FInv
  OBVIOUS
<1>1. table \in Seq(Rows)
  BY EmptySeq DEF FInit
<1>2. CASE config \in Configs /\ tiers \in MCTiers
  <2>1. tiers = <<<<4, 1>>>> \/ tiers = <<<<1, 1>>, <<4, 2>>>>
    BY <1>2 DEF MCTiers
  <2>2. ASSUME tiers = <<<<4, 1>>>> PROVE tiers \in Seq(Nat \X Nat) /\ Wellformed(tiers)
    <3>1. PICK a \in Nat \X Nat : a = <<4, 1>>
      OBVIOUS
    <3>2. tiers = <<a>> /\ a[2] >= 1
      BY <2>2, <3>1
    <3>3. DOMAIN tiers = 1 .. 1 /\ tiers \in Seq(Nat \X Nat) /\ tiers # <<>> /\ tiers[1] = a
      BY <3>2
    <3>4. \A i \in DOMAIN tiers : tiers[i][2] >= 1
      BY <3>2, <3>3
    <3>5. tiers # <<>> /\ \A i \in DOMAIN tiers : tiers[i][2] >= 1
      BY ONLY <3>3, <3>4
    <3> QED BY <3>3, <3>5 DEF Wellformed
  <2>3. ASSUME tiers = <<<<1, 1>>, <<4, 2>>>> PROVE tiers \in Seq(Nat \X Nat) /\ Wellformed(tiers)
    <3>1. PICK a, b \in Nat \X Nat : a = <<1, 1>> /\ b = <<4, 2>>
      OBVIOUS
    <3>2. tiers = <<a, b>> /\ a[2] >= 1 /\ b[2] >= 1
      BY <2>3, <3>1
    <3>3. DOMAIN tiers = 1 .. 2 /\ tiers \in Seq(Nat \X Nat) /\ tiers # <<>> /\ tiers[1] = a /\ tiers[2] = b
      BY <3>2
    <3>4. \A i \in DOMAIN tiers : i = 1 \/ i = 2
      BY <3>3
    <3>5. \A i \in DOMAIN tiers : tiers[i][2] >= 1
      BY <3>2, <3>3, <3>4
    <3> QED BY <3>3, <3>5 DEF Wellformed
  <2> QED BY <1>1, <1>2, <2>1, <2>2, <2>3 DEF FInv
<1>3. CASE config = Plain /\ tiers \in TierTables
  <2> DEFINE Tiers == {<<bound, weight>> : bound \in {1, 2, 4}, weight \in {0, 1, 2, 4}}
  <2>1. Tiers \in SUBSET (Nat \X Nat)
    OBVIOUS
  <2>2. \/ tiers = <<>> \/ tiers \in [1..1 -> Tiers] \/ tiers \in [1..2 -> Tiers]
        \/ tiers \in [1..3 -> {t \in Tiers : t[2] \in {1, 4}}]
    BY <1>3 DEF TierTables
  <2> HIDE DEF Tiers
  <2>3. \/ tiers = <<>> \/ \E n \in Nat : tiers \in [1 .. n -> Nat \X Nat]
    BY <2>1, <2>2
  <2>4. tiers \in Seq(Nat \X Nat)
    BY <2>3, EmptySeq, SeqDef
  <2> QED BY <1>1, <1>3, <2>4 DEF FInv
<1> QED BY <1>2, <1>3 DEF FInit

\* A call that lands keeps the inputs what the theorems assume.
LEMMA FInvStays == FInv /\ [Lands]_vars => FInv'
<1> SUFFICES ASSUME FInv, [Lands]_vars PROVE FInv'
  OBVIOUS
<1>1. CASE Lands
  <2>1. PICK row \in Rows : table' = Append(table, row)
    BY <1>1 DEF Lands, Third
  <2>2. table' \in Seq(Rows)
    BY <2>1, AppendProperties DEF FInv
  <2>3. UNCHANGED <<config, tiers>>
    BY <1>1 DEF Lands
  <2> QED BY <2>2, <2>3 DEF FInv
<1>2. CASE UNCHANGED vars
  BY <1>2 DEF FInv, vars
<1> QED BY <1>1, <1>2

\* On such inputs every property of the run holds.
LEMMA FInvSuffices ==
  ASSUME FInv
  PROVE  /\ PromptsAdmitted /\ WarningTrue /\ SlotsStayExclusive
         /\ CurvesExact /\ SummariesTrue /\ ViewsAgree
<1>1. Readable(config) /\ tiers \in Seq(Nat \X Nat)
  BY ConfigsReadable DEF FInv
<1>2. EventTable(table) /\ Divisible(table) /\ NoOther(table, MCAliases)
  BY TablesOfRows DEF FInv
<1>3. PromptsAdmitted /\ SlotsStayExclusive
  BY <1>1, AllPromptsAdmitted, AllSlotsStayExclusive
<1>4. WarningTrue
  <2>1. CASE config = Plain
    BY <2>1 DEF WarningTrue
  <2>2. CASE config # Plain
    BY <1>1, <2>2, WarningIsTrue DEF FInv
  <2> QED BY <2>1, <2>2
<1>5. CurvesExact /\ SummariesTrue /\ ViewsAgree
  BY <1>2, CurvesAreExact, SummariesAreTrue, ViewsDoAgree
<1> QED BY <1>3, <1>4, <1>5

\* Every state of the run Functions satisfies all that is proved of its inputs.
THEOREM RunIsSound ==
  FSpec => [](/\ PromptsAdmitted /\ WarningTrue /\ SlotsStayExclusive
              /\ CurvesExact /\ SummariesTrue /\ ViewsAgree)
<1>1. FInv => /\ PromptsAdmitted /\ WarningTrue /\ SlotsStayExclusive
              /\ CurvesExact /\ SummariesTrue /\ ViewsAgree
  BY FInvSuffices
<1> QED BY <1>1, FInvStarts, FInvStays, PTL DEF FSpec
=============================================================================
