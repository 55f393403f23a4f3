------------------------------- MODULE Health -------------------------------
(***************************************************************************)
(* The owner's biometrics: batches the phone sends and sends again, day    *)
(* rollups kept beside the samples, the demand for a sync, and what the    *)
(* health tool answers or refuses.                                         *)
(*                                                                         *)
(* A sample is identified by metric, start and origin; what a batch says   *)
(* of it (value, day, end) may be corrected by a later batch.              *)
(***************************************************************************)
EXTENDS Integers, Sequences, FiniteSets, SequencesExt, FiniteSetsExt

CONSTANTS
  SampleKeys,           \* identities of samples
  MetricOf,       \* the metric of each identity
  Batches,        \* batches the phone may send: identity -> value, day, end
  KindOf,         \* _METRIC_KIND
  Budget,         \* _FRESHNESS_BUDGET_H, per metric
  Uploads,        \* POST /health/ingest requests
  Askers,         \* turns that ask
  LocalDays, MaxNow,   \* local days; bound on the clock
  MaxSends, MaxWipes, MaxDemands

ASSUME HealthAssumption ==
  /\ LocalDays \subseteq Nat \ {0} /\ MaxNow \in Nat /\ IsFiniteSet(SampleKeys)
  /\ \A b \in Batches : DOMAIN b \subseteq SampleKeys
       /\ \A k \in DOMAIN b : b[k].day \in LocalDays /\ b[k].end \in Nat
  /\ \A k \in SampleKeys : Budget[MetricOf[k]] \in Nat

VARIABLES
  samples,        \* HealthSample
  daily,          \* HealthDaily, per day and metric
  uploads,        \* each request: stage, batch, identities it read as stored
  demand,         \* health_sync_demand: raised (a count), served
  phone,          \* the registered device: active, installed
  askers,         \* each turn of the health tool
  now,
  sends, wipes,   \* bounds
  acked,          \* ghost: identities acknowledged and not wiped since
  leftDays        \* ghost: days and metrics a corrected sample moved away from

healthVars == <<samples, daily, uploads, demand, phone, askers, now, sends, wipes, acked, leftDays>>

Metrics == {MetricOf[k] : k \in SampleKeys}
Absent == [day |-> 0, value |-> 0, end |-> 0]
HeldSamples(k) == samples[k] # Absent
StoredKeys == {k \in SampleKeys : HeldSamples(k)}
NoUpload == [stage |-> "idle", batch |-> <<>>, known |-> {}]
NoQuestion == [stage |-> "idle", live |-> FALSE, metrics |-> {}, age |-> 0, at |-> 0, answer |-> "none"]

HealthTypeOK ==
  /\ DOMAIN samples = SampleKeys /\ \A k \in SampleKeys : samples[k].day \in LocalDays \cup {0}
  /\ \A u \in Uploads : uploads[u].stage \in {"idle", "read", "retry", "retrying", "done", "failed"}
  /\ demand.raised \in 0 .. MaxDemands /\ demand.served \in BOOLEAN
  /\ now \in 0 .. MaxNow

(***************************************************************************)
(* Rollups.                                                                *)
(***************************************************************************)
SumOf(S, V(_)) == FoldSet(LAMBDA k, total : total + V(k), 0, S)

\* _aggregate: a total for what adds up, the longest too for sessions, and a
\* distribution for point readings.  A mean is a sum and a count.
Aggregate(metric, held) ==
  LET value(k) == held[k].value
      values == {value(k) : k \in DOMAIN held}
      total == SumOf(DOMAIN held, value)
      latest == CHOOSE k \in DOMAIN held : \A j \in DOMAIN held : held[j].end <= held[k].end
      base == [count |-> Cardinality(DOMAIN held), total |-> 0, longest |-> 0, least |-> 0, most |-> 0, last |-> 0]
  IN CASE KindOf[metric] = "cumulative" -> [base EXCEPT !.total = total]
       [] KindOf[metric] = "duration" -> [base EXCEPT !.total = total, !.longest = Max(values)]
       [] OTHER -> [base EXCEPT !.total = total, !.least = Min(values), !.most = Max(values), !.last = value(latest)]

NoRollup == [count |-> 0, total |-> 0, longest |-> 0, least |-> 0, most |-> 0, last |-> 0]
FiledUnder(table, day, metric) == {k \in SampleKeys : table[k] # Absent /\ table[k].day = day /\ MetricOf[k] = metric}

\* recompute_daily: rebuilt from the samples of that day, deleted without any.
Rollup(table, day, metric) ==
  LET filed == FiledUnder(table, day, metric)
  IN IF filed = {} THEN NoRollup ELSE Aggregate(metric, [k \in filed |-> table[k]])

\* The days a batch files its samples under, new and corrected ones alike.
TouchedNew(batch, known) == {<<batch[k].day, MetricOf[k]>> : k \in DOMAIN batch \ known}
Touched(batch, known) == {<<batch[k].day, MetricOf[k]>> : k \in DOMAIN batch}

(***************************************************************************)
(* Ingestion.  The first write of a request takes the database's write     *)
(* lock, so what it writes and its commit are one step for the others.     *)
(***************************************************************************)
At(u, stage) == uploads' = [uploads EXCEPT ![u].stage = stage]
NoAnswers == UNCHANGED <<phone, askers, now, sends, wipes>>

\* The rows of a batch written over the table, without the ones skipped.
Written(batch, skipped) == [k \in SampleKeys |-> IF k \in DOMAIN batch \ skipped THEN batch[k] ELSE samples[k]]

CommitUpload(u, skipped) ==
  LET batch == uploads[u].batch
      table == Written(batch, skipped)
      touched == Touched(batch, uploads[u].known)
      moved == {k \in DOMAIN batch \ skipped : HeldSamples(k) /\ samples[k].day # batch[k].day}
  IN /\ samples' = table
     /\ daily' = [d \in DOMAIN daily |-> IF d \in touched THEN Rollup(table, d[1], d[2]) ELSE daily[d]]
     /\ acked' = acked \cup DOMAIN batch
     /\ leftDays' = (leftDays \ touched) \cup ({<<samples[k].day, MetricOf[k]>> : k \in moved} \ touched)
     /\ demand' = [demand EXCEPT !.served = demand.raised > 0]
     /\ At(u, "done")

\* POST /health/ingest arrives and reads which of its samples are stored.
SendBatch(u) ==
  /\ uploads[u].stage = "idle" /\ sends < MaxSends
  /\ sends' = sends + 1
  /\ \E b \in Batches : uploads' = [uploads EXCEPT ![u] = [stage |-> "read", batch |-> b, known |-> StoredKeys \cap DOMAIN b]]
  /\ UNCHANGED <<samples, daily, demand, phone, askers, now, wipes, acked, leftDays>>

\* ingest_samples: an insert that meets a row of another request starts the
\* row by row path, an update of a row that is gone fails the request.
Raced(u) == (DOMAIN uploads[u].batch \ uploads[u].known) \cap StoredKeys # {}
WriteBatch(u) ==
  /\ uploads[u].stage = "read"
  /\ IF Raced(u) THEN At(u, "retry") /\ UNCHANGED <<samples, daily, demand, acked, leftDays>>
     ELSE IF ~(uploads[u].known \subseteq StoredKeys) THEN At(u, "failed") /\ UNCHANGED <<samples, daily, demand, acked, leftDays>>
     ELSE CommitUpload(u, {})
  /\ NoAnswers

\* _retry_ingest: each row is looked up again; only the first write can still
\* meet another request, and that row is counted as a duplicate.
RetryBatch(u) ==
  /\ uploads[u].stage = "retry"
  /\ uploads' = [uploads EXCEPT ![u] = [@ EXCEPT !.stage = "retrying", !.known = StoredKeys \cap DOMAIN uploads[u].batch]]
  /\ UNCHANGED <<samples, daily, demand, acked, leftDays>> /\ NoAnswers
WriteRetried(u) ==
  /\ uploads[u].stage = "retrying"
  /\ \/ \E skipped \in {{}} \cup {{k} : k \in (DOMAIN uploads[u].batch \ uploads[u].known) \cap StoredKeys} : CommitUpload(u, skipped)
     \/ ~(uploads[u].known \subseteq StoredKeys) /\ At(u, "failed") /\ UNCHANGED <<samples, daily, demand, acked, leftDays>>
  /\ NoAnswers

\* The answer reaches the phone or is lost; the phone may send it all again.
UploadOver(u) ==
  /\ uploads[u].stage \in {"done", "failed"}
  /\ uploads' = [uploads EXCEPT ![u] = NoUpload]
  /\ UNCHANGED <<samples, daily, demand, acked, leftDays>> /\ NoAnswers

\* DELETE /health/data.
Wipe ==
  /\ wipes < MaxWipes /\ wipes' = wipes + 1
  /\ samples' = [k \in SampleKeys |-> Absent] /\ daily' = [d \in DOMAIN daily |-> NoRollup]
  /\ acked' = {} /\ leftDays' = {}
  /\ UNCHANGED <<uploads, demand, phone, askers, now, sends>>

(***************************************************************************)
(* Questions.                                                              *)
(***************************************************************************)
\* freshness(): the age of the newest reading of each metric.
Newest(metric) == Max({0} \cup {samples[k].end : k \in {j \in StoredKeys : MetricOf[j] = metric}})
Age(metric) == Max({0, now - Newest(metric)})
FreshMetric(metric) == Newest(metric) > 0 /\ Age(metric) <= Budget[metric]
StaleMetrics(metrics) == {x \in metrics : ~FreshMetric(x)}
OldestAge(metrics) == Max({IF Newest(x) = 0 THEN MaxNow + 1 ELSE Age(x) - Budget[x] : x \in metrics})

Asking(a, q) == askers' = [askers EXCEPT ![a] = q]
NoUploads == UNCHANGED <<samples, daily, uploads, now, sends, wipes, acked, leftDays>>
Tells(a, answer) == Asking(a, [askers[a] EXCEPT !.stage = "over", !.answer = answer, !.age = OldestAge(askers[a].metrics)])

AskHealth(a) ==
  /\ askers[a].stage = "idle"
  /\ \E asked \in (SUBSET Metrics) \ {{}}, live \in BOOLEAN :
       Asking(a, [NoQuestion EXCEPT !.stage = "gate", !.live = live, !.metrics = asked])
  /\ UNCHANGED <<demand, phone>> /\ NoUploads

\* _freshness_gate: fresh data is answered; stale data is refused, at once or
\* after the phone was asked for a sync and delivered something.
PassesGate(a) ==
  /\ askers[a].stage = "gate" /\ StaleMetrics(askers[a].metrics) = {}
  /\ Tells(a, "numbers") /\ UNCHANGED <<demand, phone>> /\ NoUploads
RefusesAtOnce(a) ==
  /\ askers[a].stage = "gate" /\ StaleMetrics(askers[a].metrics) # {} /\ ~askers[a].live
  /\ Tells(a, "refused") /\ UNCHANGED <<demand, phone>> /\ NoUploads

\* demand_sync: the flag is raised before the push; a phone that reinstalled
\* is retired from it.
DemandsSync(a) ==
  /\ askers[a].stage = "gate" /\ StaleMetrics(askers[a].metrics) # {} /\ askers[a].live
  /\ demand.raised < MaxDemands
  /\ demand' = [raised |-> demand.raised + 1, served |-> FALSE]
  /\ phone' = [phone EXCEPT !.active = phone.active /\ phone.installed]
  /\ Asking(a, [askers[a] EXCEPT !.stage = "waiting", !.at = demand.raised + 1]) /\ NoUploads

AnswerOnDelivery(a) == "numbers"
\* _await_sync, then the freshness is read again.
AnswerWhenServed(a) == IF StaleMetrics(askers[a].metrics) = {} THEN "numbers" ELSE "refused"
SyncServed(a) ==
  /\ askers[a].stage = "waiting" /\ demand.served
  /\ Tells(a, AnswerWhenServed(a)) /\ UNCHANGED <<demand, phone>> /\ NoUploads
SyncTimesOut(a) ==
  /\ askers[a].stage = "waiting" /\ Tells(a, "refused") /\ UNCHANGED <<demand, phone>> /\ NoUploads

PhoneReinstalled == phone.installed /\ phone' = [phone EXCEPT !.installed = FALSE]
  /\ UNCHANGED <<demand, askers>> /\ NoUploads
PhoneRegisters == ~phone.active /\ phone' = [active |-> TRUE, installed |-> TRUE]
  /\ UNCHANGED <<demand, askers>> /\ NoUploads
ClockTicks == now < MaxNow /\ now' = now + 1
  /\ UNCHANGED <<samples, daily, uploads, demand, phone, askers, sends, wipes, acked, leftDays>>

HealthNext ==
  \/ \E u \in Uploads : SendBatch(u) \/ WriteBatch(u) \/ RetryBatch(u) \/ WriteRetried(u) \/ UploadOver(u)
  \/ Wipe
  \/ \E a \in Askers : AskHealth(a) \/ PassesGate(a) \/ RefusesAtOnce(a) \/ DemandsSync(a) \/ SyncServed(a) \/ SyncTimesOut(a)
  \/ PhoneReinstalled \/ PhoneRegisters \/ ClockTicks

HealthInit ==
  /\ samples = [k \in SampleKeys |-> Absent] /\ daily = [d \in LocalDays \X Metrics |-> NoRollup]
  /\ uploads = [u \in Uploads |-> NoUpload] /\ demand = [raised |-> 0, served |-> FALSE]
  /\ phone = [active |-> TRUE, installed |-> TRUE] /\ askers = [a \in Askers |-> NoQuestion]
  /\ now = 0 /\ sends = 0 /\ wipes = 0 /\ acked = {} /\ leftDays = {}

HealthSpec == HealthInit /\ [][HealthNext]_healthVars

(***************************************************************************)
(* Ranges and trends of an answer: pure functions of its arguments.        *)
(***************************************************************************)
\* parse_range: today, yesterday, N days back and an explicit span.
ParseRange(spec, today) ==
  CASE spec.kind = "today" -> <<today, today>>
    [] spec.kind = "yesterday" -> <<today - 1, today - 1>>
    [] spec.kind = "span" -> <<spec.from, spec.to>>
    [] spec.kind = "days" -> <<today - (Max({1, spec.n}) - 1), today>>
    [] OTHER -> <<today - 6, today>>

\* The window before, as long as the one asked for.
WindowBefore(range) == LET span == range[2] - range[1] + 1 IN <<range[1] - span, range[1] - 1>>

Headline(metric, rollup) == IF KindOf[metric] = "instant" THEN <<rollup.total, rollup.count>> ELSE <<rollup.total, 1>>
RollupsIn(range, metric) == {d \in DOMAIN daily : d[2] = metric /\ d[1] \in range[1] .. range[2] /\ daily[d].count > 0}
\* trend(): no change is reported against a period without data.
HasTrend(range, metric) == RollupsIn(range, metric) # {} /\ RollupsIn(WindowBefore(range), metric) # {}

(***************************************************************************)
\* The rollup of a day is what its samples add up to, through corrected and
\* repeated batches, two requests at once and a wipe; only a day that a
\* corrected sample was moved away from keeps its old rollup.
RollupsMatch ==
  \A d \in DOMAIN daily : d \notin leftDays => daily[d] = Rollup(samples, d[1], d[2])

\* A batch the phone was told is stored is stored, until the owner wipes it.
AcknowledgedStored == \A k \in acked : HeldSamples(k)

\* Numbers that describe the present are never older than their budget when
\* they are given, whether or not the phone answered the demand.
NeverStale == \A a \in Askers : askers[a].answer = "numbers" => askers[a].age <= 0

\* A trend compares the range with the same number of days right before it.
TrendsCompare ==
  \A spec \in [kind : {"today", "yesterday", "days"}, n : 0 .. 3], today \in LocalDays :
    LET range == ParseRange(spec, today)
        before == WindowBefore(range)
    IN /\ before[2] + 1 = range[1] /\ before[2] - before[1] = range[2] - range[1]
       /\ \A x \in Metrics : HasTrend(range, x) => RollupsIn(range, x) \cap RollupsIn(before, x) = {}

HealthSound == RollupsMatch /\ AcknowledgedStored /\ NeverStale /\ TrendsCompare
=============================================================================
