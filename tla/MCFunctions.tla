---------------------------- MODULE MCFunctions ----------------------------
(***************************************************************************)
(* Bounded inputs of Configuration and MetricsViews for TLC: one proxy     *)
(* configuration, or a table of request events in which row after row      *)
(* lands, in the order in which the requests ended.                        *)
(***************************************************************************)
EXTENDS Configuration, MetricsViews

\* The caps divide the unit, and the lengths of the calls the scale.
ASSUME InputsAssumption == Unit % 2 = 0 /\ Scale % 6 = 0

VARIABLES config, tiers, table
vars == <<config, tiers, table>>

\* Two models; costs are read in quarters of a slot, budgets are up to two slots.
Entries ==
  [name : {"chat", "bulk"}, cap : {0, 1, 2}, cost : {0, 3}, pool : {"", "p"}, slot : {"", "s", "p"}]

Sections ==
  {<<>>}
  \cup [{"p"} -> [budget : {0, 2}, exclusive : BOOLEAN, heavy : {"", "full_pool"}]]
  \cup [{"default", "s"} -> [budget : {8}, exclusive : {FALSE}, heavy : {"full_pool", "leave_room"}]]

Lists ==
  LET Chat == {e \in Entries : e.name = "chat"}
  IN {<<e>> : e \in Chat} \cup {<<e, f>> : e \in Chat, f \in Entries}
Configs == [entries : Lists, sections : Sections, default : {4}]

Plain == [entries |-> <<>>, sections |-> <<>>, default |-> 4]

TierTables ==
  LET Tiers == {<<bound, weight>> : bound \in {1, 2, 4}, weight \in {0, 1, 2, 4}}
  IN {<<>>} \cup [1..1 -> Tiers] \cup [1..2 -> Tiers] \cup [1..3 -> {t \in Tiers : t[2] \in {1, 4}}]

MCDefaultTiers == <<<<1, 1>>, <<3, 2>>>>
MCTiers == {<<<<4, 1>>>>, <<<<1, 1>>, <<4, 2>>>>}

\* Times of a call, and what the views group by.
Times == {t \in [enq : 1..3, acq : 0..4, done : 2..4] :
            t.enq <= t.done /\ (t.acq # 0 => t.enq <= t.acq /\ t.acq <= t.done)}
Kinds ==
  {[model |-> "a", key |-> "k1", label |-> "", outcome |-> "completed", prompt |-> 1, tokens |-> 2],
   [model |-> "a", key |-> "k2", label |-> "bulk", outcome |-> "client_abandoned", prompt |-> 0, tokens |-> 1],
   [model |-> "b", key |-> "k2", label |-> "", outcome |-> "completed", prompt |-> 2, tokens |-> 1],
   [model |-> "b", key |-> "k3", label |-> "bulk", outcome |-> "upstream_error", prompt |-> 0, tokens |-> 0]}
Waited == [model |-> "a", key |-> "k3", label |-> "bulk", outcome |-> "cancelled_queued", prompt |-> 0, tokens |-> 0]
Row(t, k) ==
  [enq |-> t.enq, acq |-> t.acq, done |-> t.done, model |-> k.model, key |-> k.key,
   label |-> k.label, outcome |-> k.outcome, prompt |-> k.prompt, tokens |-> k.tokens]
Rows ==
  {Row(t, k) : t \in {t \in Times : t.acq # 0}, k \in {k \in Kinds : k.tokens > 0}}
  \cup {Row(t, k) : t \in {t \in Times : t.acq = t.enq}, k \in {k \in Kinds : k.tokens = 0}}
  \cup {Row(t, Waited) : t \in {t \in Times : t.acq = 0}}
\* The third row is a completed call that did not queue, from before the window
\* or from inside it.
Third == {row \in Rows : row.enq # 2 /\ row.done # 3 /\ row.acq = row.enq
                           /\ row.tokens > 0 /\ row.outcome = "completed"}
MaxRows == 3

FInit ==
  \/ /\ config \in Configs /\ tiers \in MCTiers /\ table = <<>>
  \/ /\ config = Plain /\ tiers \in TierTables /\ table = <<>>

Lands ==
  /\ config = Plain /\ tiers = <<>> /\ Len(table) < MaxRows
  /\ \E row \in IF Len(table) = 2 THEN Third ELSE Rows :
       /\ table # <<>> => Last(table).done <= row.done
       /\ table' = Append(table, row)
  /\ UNCHANGED <<config, tiers>>

FSpec == FInit /\ [][Lands]_vars

\* The window of the views: it ends when the last call may still be in flight.
Since == 2
Until == 4
Bucket == 2
MCAliases == [k \in {"k3"} |-> "k1"]

-----------------------------------------------------------------------------
\* The weight of a prompt is that of the least tier that covers it, however the
\* tiers were written, and every accepted configuration admits prompts of every
\* weight for a model with a cap or a cost (Configuration).
PromptsAdmitted ==
  IF config = Plain THEN \A tokens \in 0..5 : LeastCoveringTier(tokens, tiers)
  ELSE AdmitsEveryPrompt(config, tiers)

\* What the startup warning says of the pools it names is so, but for models
\* without a knob in the default pool (Configuration).
WarningTrue == config # Plain => WarningHolds(config, tiers, {"chat", "bulk"})

\* A pool that comes from a deprecated slot stays exclusive (Configuration).
SlotsStayExclusive == SlotKeepsMutex(config)

\* Every curve holds what its definition says of the calls of the table, tokens
\* included, whatever the fetch, the clipping and the buckets cut (MetricsViews).
CurvesExact ==
  /\ CurvesCountCalls(table, Since, Until, Bucket)
  /\ TokensConserved(table, Since, Until, Bucket)

\* A summary stands for its calls: percentiles split them, and each is in the
\* cell of the concurrency that it saw (MetricsViews).
SummariesTrue ==
  /\ SummariesSound(table, Since, Until)
  /\ ConcurrencyIsMeasured(table, Since, Until)

\* The views agree: stacked charts with their totals, and the tables with each
\* other and with the curves (MetricsViews).
ViewsAgree ==
  /\ StacksAddUp(table, Since, Until, Bucket, MCAliases)
  /\ TablesAgree(table, Since, Until, MCAliases)
=============================================================================
