---------------------------- MODULE MetricsViews ----------------------------
(***************************************************************************)
(* The views the usage API renders (overlaat/metrics_db.py), as functions  *)
(* of the request_events table.                                            *)
(*                                                                         *)
(* The table is a function from row numbers to rows, and a list that the   *)
(* code makes of it is a function from the numbers of the rows it is made  *)
(* of.  A row is [enq, acq, done, model, key, label, outcome, prompt,      *)
(* tokens]; times are whole ticks, acq = 0 is SQL's NULL and label = "" a  *)
(* NULL workload.  Rounding for display is left out: a mean over a span is *)
(* kept as the sum over it, and a rate as the share of Scale.              *)
(***************************************************************************)
EXTENDS Integers, FiniteSets, FiniteSetsExt, Functions, Sums

CONSTANTS
  TopKeys,   \* TOP_KEYS
  Scale      \* a multiple of the length of every call

ASSUME ViewsAssumption == TopKeys \in Nat \ {0} /\ Scale \in Nat \ {0}

Overlap(s, e, a, b) == Max({0, Min({e, b}) - Max({s, a})})

\* The rows with a property, and the rows by a name that they have.
Having(rows, Holds(_)) == Restrict(rows, {i \in DOMAIN rows : Holds(rows[i])})
Groups(rows, nameOf) ==
  [x \in {nameOf[i] : i \in DOMAIN rows} |-> Restrict(rows, {i \in DOMAIN rows : nameOf[i] = x})]

-----------------------------------------------------------------------------
\* fetch_events: the rows that overlap [since, until], in the order of enq.
FetchEvents(table, since, until) == Having(table, LAMBDA e : e.done >= since /\ e.enq <= until)
FetchedBefore(events, i, j) ==
  events[i].enq < events[j].enq \/ (events[i].enq = events[j].enq /\ i <= j)

Offered(events)  == [i \in DOMAIN events |-> <<events[i].enq, events[i].done>>]
HeldSlot(events) == Having(events, LAMBDA e : e.acq # 0)
Active(events)   == [i \in DOMAIN HeldSlot(events) |-> <<events[i].acq, events[i].done>>]

-----------------------------------------------------------------------------
\* _ConcIntegral: the step function of the number of intervals, and its integral.
\* The break points and the count over the segment that each one opens.
Proper(intervals) == Having(intervals, LAMBDA iv : iv[2] > iv[1])
BreakPoints(intervals) ==
  LET ivs == Proper(intervals) IN {ivs[i][1] : i \in DOMAIN ivs} \cup {ivs[i][2] : i \in DOMAIN ivs}

SegmentsLate(intervals) ==                 \* mutant: a start takes effect one break point late
  LET ivs == Proper(intervals)
  IN [t \in BreakPoints(intervals) |->
        Cardinality({i \in DOMAIN ivs : ivs[i][1] < t}) - Cardinality({i \in DOMAIN ivs : ivs[i][2] <= t})]
Segments(intervals) ==
  LET ivs == Proper(intervals)
  IN [t \in BreakPoints(intervals) |->
        Cardinality({i \in DOMAIN ivs : ivs[i][1] <= t}) - Cardinality({i \in DOMAIN ivs : ivs[i][2] <= t})]

\* The prefix integral F at break point t, from one break point to the next.
Prefix(intervals, t) ==
  LET xs      == BreakPoints(intervals)
      next(u) == Min({v \in xs : v > u})
  IN TotalOf([u \in {u \in xs : u < t} |-> Segments(intervals)[u] * (next(u) - u)])

\* _integ: F at the last break point before x, and the rest.
Integral(intervals, x) ==
  LET passed == {t \in BreakPoints(intervals) : t <= x}
  IN IF passed = {} THEN 0
     ELSE IF passed = BreakPoints(intervals) THEN Prefix(intervals, Max(passed))
     ELSE Prefix(intervals, Max(passed)) + Segments(intervals)[Max(passed)] * (x - Max(passed))

\* mean(a, b), times b - a.
ConcurrencySum(intervals, a, b) ==
  IF b <= a THEN 0 ELSE Integral(intervals, b) - Integral(intervals, a)

\* round(sum / span): to the nearest, a half to the even side.
RoundedMean(sum, span) ==
  LET down == sum \div span
      rest == 2 * (sum % span)
  IN IF rest > span \/ (rest = span /\ down % 2 = 1) THEN down + 1 ELSE down

-----------------------------------------------------------------------------
\* _bucket_concurrency and _bucket_weighted (weighted intervals <<s, e, total>>),
\* times the length of a bucket: from the bucket of the start to the first one
\* that the interval does not reach.
BucketSums(intervals, rate, t0, bucket, n) ==
  LET start(i)      == Max({intervals[i][1], t0})
      overlap(i, j) == Overlap(start(i), Min({intervals[i][2], t0 + n * bucket}),
                               t0 + j * bucket, t0 + (j + 1) * bucket)
      first(i)      == (start(i) - t0) \div bucket
      reached(j)    == {i \in DOMAIN intervals : first(i) <= j /\ \A k \in first(i) .. j : overlap(i, k) > 0}
  IN [j \in 0 .. n - 1 |-> TotalOf([i \in reached(j) |-> rate[i] * overlap(i, j)])]

BucketConcurrency(intervals, t0, bucket, n) ==
  BucketSums(intervals, [i \in DOMAIN intervals |-> 1], t0, bucket, n)

BucketWeightedClipped(intervals, t0, bucket, n) ==   \* mutant: the rate is taken over the clipped span
  LET ivs == Proper(intervals)
  IN BucketSums(ivs, [i \in DOMAIN ivs |-> (Scale * ivs[i][3]) \div Overlap(ivs[i][1], ivs[i][2], t0, ivs[i][2])],
                t0, bucket, n)
BucketWeighted(intervals, t0, bucket, n) ==
  LET ivs == Proper(intervals)
  IN BucketSums(ivs, [i \in DOMAIN ivs |-> (Scale * ivs[i][3]) \div (ivs[i][2] - ivs[i][1])], t0, bucket, n)

-----------------------------------------------------------------------------
Alias(aliases, fp) == IF fp \in DOMAIN aliases THEN aliases[fp] ELSE fp

\* The rows behind each label of a stacked chart: the top TopKeys names by total,
\* and of equal totals those that setdefault met first, and "<other>" for the rest.
Rest(events, nameOf, weight) ==
  LET names == {nameOf[i] : i \in DOMAIN nameOf}
      of(m) == {i \in DOMAIN nameOf : nameOf[i] = m}
      total == [m \in names |-> TotalOf(Restrict(weight, of(m)))]
      above(m, n) == \/ total[m] > total[n]
                     \/ total[m] = total[n] /\ \E i \in of(m) : \A j \in of(n) : FetchedBefore(events, i, j)
  IN {n \in names : Cardinality({m \in names \ {n} : above(m, n)}) >= TopKeys}
Stacked(events, nameOf, weight) ==
  LET rest == Rest(events, nameOf, weight)
      top  == {nameOf[i] : i \in DOMAIN nameOf} \ rest
  IN [label \in top \cup (IF rest = {} THEN {} ELSE {"<other>"}) |->
        {i \in DOMAIN nameOf : nameOf[i] \in IF label \in top THEN {label} ELSE rest}]

\* build_timeline.
Timeline(table, since, now, bucket, aliases) ==
  LET n      == Max({1, (now - since) \div bucket + 1})
      events == FetchEvents(table, since - 1, now)
      models == Groups(events, [i \in DOMAIN events |-> events[i].model])
      held   == HeldSlot(events)
      served == Having(held, LAMBDA e : e.outcome = "completed" /\ e.done > e.acq)
      sized  == Having(served, LAMBDA e : e.tokens > 0)
      asked  == Having(served, LAMBDA e : e.prompt > 0)
      output == [i \in DOMAIN sized |-> <<sized[i].acq, sized[i].done, sized[i].tokens>>]
      input  == [i \in DOMAIN asked |-> <<asked[i].acq, asked[i].done, asked[i].prompt>>]
      curve(ivs) == BucketConcurrency(ivs, since, bucket, n)
      rate(ivs)  == BucketWeighted(ivs, since, bucket, n)
      byKey  == Stacked(events, [i \in DOMAIN held |-> Alias(aliases, held[i].key)],
                        [i \in DOMAIN held |-> held[i].done - held[i].acq])
      byOut  == Stacked(events, [i \in DOMAIN sized |-> sized[i].model],
                        [i \in DOMAIN sized |-> sized[i].tokens])
  IN [offered |-> [m \in DOMAIN models |-> curve(Offered(models[m]))],
      active  |-> [m \in DOMAIN models |-> curve(Active(models[m]))],
      by_key  |-> [k \in DOMAIN byKey |-> curve(Restrict(Active(events), byKey[k]))],
      by_out  |-> [m \in DOMAIN byOut |-> rate(Restrict(output, byOut[m]))],
      in_tok  |-> rate(input),
      out_tok |-> rate(output)]

-----------------------------------------------------------------------------
\* _pct(vals, p%): the value of rank int(len * p), of the last when there is none.
Percentile(vals, p) ==
  LET n == Cardinality(DOMAIN vals) IN Ranked(vals, Min({(n * p) \div 100, n - 1}) + 1)

Latencies(vals) == IF DOMAIN vals = {} THEN <<>>   \* None
                   ELSE <<Percentile(vals, 50), Percentile(vals, 95)>>

Waits(events)    == [i \in DOMAIN HeldSlot(events) |-> events[i].acq - events[i].enq]
Services(events) == [i \in DOMAIN HeldSlot(events) |-> events[i].done - events[i].acq]
Totals(events)   == [i \in DOMAIN events |-> events[i].done - events[i].enq]

Count(events) == Cardinality(DOMAIN events)
With(events, outcome) == Having(events, LAMBDA e : e.outcome = outcome)

\* The counts of a table's row, as each of the three loops takes them: build_models
\* from a dictionary of the outcomes that occur, build_consumers and
\* build_workloads each in counters of its own.  An outcome without a counter
\* (a request that was rejected) is in requests only.
Outcomes(events) ==
  LET by == Groups(events, [i \in DOMAIN events |-> events[i].outcome])
  IN [o \in DOMAIN by |-> Count(by[o])]
ModelCounts(events) ==
  LET get(o) == IF o \in DOMAIN Outcomes(events) THEN Outcomes(events)[o] ELSE 0
  IN [requests |-> Count(events), completed |-> Count(With(events, "completed")),
      abandoned |-> get("client_abandoned"), errored |-> get("upstream_error"),
      cancelled |-> get("cancelled_queued")]
ConsumerCounts(events) ==
  [requests  |-> Count(events),
   completed |-> Count(With(events, "completed")),
   abandoned |-> Count(With(events, "client_abandoned")),
   errored   |-> Count(With(events, "upstream_error")),
   cancelled |-> Count(With(events, "cancelled_queued"))]
WorkloadCounts(events) ==
  [requests  |-> Count(events),
   completed |-> Count(With(events, "completed")),
   abandoned |-> Count(With(events, "client_abandoned")),
   errored   |-> Count(With(events, "upstream_error")),
   cancelled |-> Count(With(events, "cancelled_queued"))]

\* build_models: of each completed call of positive length, the cell of the mean
\* concurrency that it saw among the fetched calls of its model.
CellOf(events, e) == Max({1, RoundedMean(ConcurrencySum(Active(events), e.acq, e.done), e.done - e.acq)})

Measured(events) == Having(HeldSlot(With(events, "completed")), LAMBDA e : e.done > e.acq)
Cells(events) ==
  LET measured == Measured(events)
      cell     == Groups(measured, [i \in DOMAIN measured |-> CellOf(events, measured[i])])
      sized(n) == Having(cell[n], LAMBDA e : e.tokens > 0)
  IN [n \in DOMAIN cell |->
        [calls |-> Count(cell[n]),
         tok   |-> TotalOf([i \in DOMAIN sized(n) |-> sized(n)[i].tokens]),
         svc   |-> TotalOf([i \in DOMAIN sized(n) |-> sized(n)[i].done - sized(n)[i].acq])]]

Models(table, since, now) ==
  LET events == FetchEvents(table, since, now)
      group  == Groups(events, [i \in DOMAIN events |-> events[i].model])
      completed(m) == With(group[m], "completed")
  IN [m \in DOMAIN group |->
        [count      |-> ModelCounts(group[m]),
         queue_wait |-> Latencies(Waits(completed(m))),
         service    |-> Latencies(Services(completed(m))),
         total      |-> Latencies(Totals(completed(m))),
         cells      |-> Cells(group[m])]]

\* build_consumers, build_workloads.
ServiceCompleted(events) ==          \* mutant: only completed calls cost service time
  LET spent == Services(With(events, "completed")) IN TotalOf([i \in DOMAIN spent |-> Max({0, spent[i]})])
ServiceOf(events) ==
  LET spent == Services(events) IN TotalOf([i \in DOMAIN spent |-> Max({0, spent[i]})])

Consumers(table, since, now, aliases) ==
  LET events == FetchEvents(table, since, now)
      group  == Groups(events, [i \in DOMAIN events |-> Alias(aliases, events[i].key)])
  IN [k \in DOMAIN group |->
        [count   |-> ConsumerCounts(group[k]),
         prompt  |-> TotalOf([i \in DOMAIN group[k] |-> group[k][i].prompt]),
         tokens  |-> TotalOf([i \in DOMAIN group[k] |-> group[k][i].tokens]),
         service |-> ServiceOf(group[k])]]

SanitizeLabel(label) == IF label = "" THEN "(untagged)" ELSE label
Workloads(table, since, now) ==
  LET events == FetchEvents(table, since, now)
      group  == Groups(events, [i \in DOMAIN events |-> SanitizeLabel(events[i].label)])
      completed(x) == With(group[x], "completed")
  IN [x \in DOMAIN group |->
        [count      |-> WorkloadCounts(group[x]),
         tokens     |-> TotalOf([i \in DOMAIN group[x] |-> group[x][i].tokens]),
         queue_wait |-> Latencies(Waits(completed(x))),
         total      |-> Latencies(Totals(completed(x)))]]

-----------------------------------------------------------------------------
\* "offered(t) = # requests with t_enqueue <= t < t_done", "active(t) = # requests
\* with t_acquire <= t < t_done".
OfferedAt(rows, t) == Cardinality({i \in DOMAIN rows : rows[i].enq <= t /\ t < rows[i].done})
ActiveAt(rows, t)  ==
  Cardinality({i \in DOMAIN rows : rows[i].acq # 0 /\ rows[i].acq <= t /\ t < rows[i].done})

\* The calls of a model in the table, those that a fetch leaves out included.
Begun(table, m, now) == Having(table, LAMBDA e : e.model = m /\ e.enq <= now)

\* Each bucket of a curve holds the sum of that number over its ticks, whatever
\* the fetch and the clipping leave out.
CurvesCountCalls(table, since, now, bucket) ==
  LET timeline == Timeline(table, since, now, bucket, <<>>)
      ticks(j) == since + j * bucket .. since + (j + 1) * bucket - 1
  IN \A m \in DOMAIN timeline.active, j \in 0 .. (now - since) \div bucket :
       /\ timeline.offered[m][j] = TotalOf([t \in ticks(j) |-> OfferedAt(Begun(table, m, now), t)])
       /\ timeline.active[m][j]  = TotalOf([t \in ticks(j) |-> ActiveAt(Begun(table, m, now), t)])

\* The stacked charts lose nothing: by key and by model, the top and the rest add
\* up to the load of all models and to the output of all models.
StacksAddUp(table, since, now, bucket, aliases) ==
  LET timeline == Timeline(table, since, now, bucket, aliases)
      sum(curves, j) == TotalOf([m \in DOMAIN curves |-> curves[m][j]])
  IN \A j \in DOMAIN timeline.out_tok :
       /\ sum(timeline.by_key, j) = sum(timeline.active, j)
       /\ sum(timeline.by_out, j) = timeline.out_tok[j]

\* Tokens are conserved: a completed call that lies in the window gives all its
\* tokens to the buckets, and one that sticks out the share of its ticks inside.
TokensConserved(table, since, now, bucket) ==
  LET timeline == Timeline(table, since, now, bucket, <<>>)
      end      == since + ((now - since) \div bucket + 1) * bucket
      served   == Having(table, LAMBDA e : /\ e.outcome = "completed" /\ e.acq # 0 /\ e.done > e.acq
                                           /\ e.enq <= now)
      inside(e) == (Scale * Cardinality({t \in e.acq .. e.done - 1 : since <= t /\ t < end})) \div (e.done - e.acq)
  IN /\ TotalOf(timeline.out_tok) = TotalOf([i \in DOMAIN served |-> served[i].tokens * inside(served[i])])
     /\ TotalOf(timeline.in_tok)  = TotalOf([i \in DOMAIN served |-> served[i].prompt * inside(served[i])])

\* "identical in value to summing _mean_concurrency over the same interval set",
\* and for a call that was acquired in the window the mean of active(t) over all
\* calls of its model, those that the fetch left out included.
ConcurrencyIsMeasured(table, since, now) ==
  \A i \in DOMAIN table :
    LET e     == table[i]
        calls == Having(FetchEvents(table, since, now), LAMBDA d : d.model = e.model)
    IN e.acq # 0 /\ e.acq >= since /\ e.enq <= now =>
         ConcurrencySum(Active(calls), e.acq, e.done)
           = TotalOf([t \in e.acq .. e.done - 1 |-> ActiveAt(Begun(table, e.model, now), t)])

\* The three tables tell the same story: requests, outcomes and tokens of all
\* consumers, of all workloads and of all models are those of the same rows, and
\* the service time of the consumers is the time under the active curves.
TablesAgree(table, since, now, aliases) ==
  LET models    == Models(table, since, now)
      consumers == Consumers(table, since, now, aliases)
      workloads == Workloads(table, since, now)
      events    == FetchEvents(table, since, now)
      ends      == {events[i].done : i \in DOMAIN events}
      sum(view, f) == TotalOf([x \in DOMAIN view |-> view[x][f]])
      counts(view, f) == TotalOf([x \in DOMAIN view |-> view[x].count[f]])
  IN /\ \A f \in {"requests", "completed", "abandoned", "errored", "cancelled"} :
          /\ counts(models, f) = counts(consumers, f)
          /\ counts(models, f) = counts(workloads, f)
     /\ sum(consumers, "tokens") = sum(workloads, "tokens")
     /\ sum(consumers, "service") = TotalOf([t \in 1 .. Max(ends \cup {1}) |-> ActiveAt(events, t)])

\* A summary stands for its calls: every completed call that held a slot for a
\* while is in one cell, with its tokens, and in cell 1 when no call of its model
\* ran beside it; at most half of the completed calls are slower than the
\* reported p50 and at most half faster, and at most one in 20 slower than p95.
SummariesSound(table, since, now) ==
  LET models    == Models(table, since, now)
      workloads == Workloads(table, since, now)
      events    == FetchEvents(table, since, now)
      ofModel(m) == Having(events, LAMBDA e : e.model = m)
      ofLabel(x) == Having(events, LAMBDA e : SanitizeLabel(e.label) = x)
      alone(e)  == Count(Having(HeldSlot(ofModel(e.model)),
                                LAMBDA d : Overlap(d.acq, d.done, e.acq, e.done) > 0)) = 1
      splits(calls, total) ==
        LET slower(t) == Count(Having(calls, LAMBDA e : e.done - e.enq > t))
            faster(t) == Count(Having(calls, LAMBDA e : e.done - e.enq < t))
        IN DOMAIN calls # {} =>
             /\ 2 * slower(total[1]) <= Count(calls) /\ 2 * faster(total[1]) <= Count(calls)
             /\ 20 * slower(total[2]) <= Count(calls)
  IN /\ \A m \in DOMAIN models :
          LET cells    == models[m].cells
              measured == Measured(ofModel(m))
          IN /\ TotalOf([n \in DOMAIN cells |-> cells[n].calls]) = Count(measured)
             /\ TotalOf([n \in DOMAIN cells |-> cells[n].tok])
                  = TotalOf([i \in DOMAIN measured |-> measured[i].tokens])
             /\ \A i \in DOMAIN measured : alone(measured[i]) => 1 \in DOMAIN cells
             /\ splits(With(ofModel(m), "completed"), models[m].total)
     /\ \A x \in DOMAIN workloads : splits(With(ofLabel(x), "completed"), workloads[x].total)
=============================================================================
