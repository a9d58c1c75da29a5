------------------------------- MODULE Metrics -------------------------------
(***************************************************************************)
(* AnalyticsService and what stands around it: MetricsCollectionService    *)
(* writes a row of its own and then one metric after another; a metric is  *)
(* inserted, queued and shown as its name's live value, by the request at  *)
(* once and by the queue's worker again; KpiService writes its hourly      *)
(* indicators.  A metric keeps its timestamp as a Date until it travels    *)
(* through the queue, which makes it text, and a Date and a text compare   *)
(* as neither earlier nor later.                                           *)
(***************************************************************************)
EXTENDS Handlers, Sequences, FiniteSets

CONSTANTS Hour, MaxClock,    \* of ticks; bound: the last tick
          Recorders,         \* the recorders of a run
          Posted             \* the names of metrics recorded by themselves

VARIABLES clock,
          metrics,           \* the rows
          current,           \* the live value of each name
          metricsQueue,      \* the jobs: of each, the metrics left to show
          rated,             \* escrows or disputes recorded, those that ended well
          kpis               \* how many rows each indicator has

vars == <<handlers, clock, metrics, current, metricsQueue, rated, kpis>>
rows == <<metrics, rated, kpis>>

Recorded == [engagement |-> <<"user_engagement">>,
             transaction |-> <<"transaction_volume", "transaction_status">>,
             escrow |-> <<"escrow_success_rate">>,
             dispute |-> <<"dispute_resolution_rate">>,
             revenue |-> <<"revenue_total", "revenue_net">>,
             performance |-> <<"api_response_time">>]

Rating == {"escrow", "dispute"}

Names == Posted \cup UNION {{Recorded[r][i] : i \in DOMAIN Recorded[r]} : r \in Recorders}

None == [at |-> 0, form |-> "none"]

(* The indicators of an hourly pass, and the metrics each adds up: a LIKE  *)
(* inside a filter is compared as a value and matches no name.             *)
Kpis == <<"daily_transaction_volume", "daily_active_users", "avg_engagements_per_user",
          "daily_revenue", "avg_response_time">>

Rest == /\ clock = 0
        /\ metrics = {}
        /\ current = [n \in Names |-> None]
        /\ metricsQueue = <<>>
        /\ rated = [r \in Rating |-> [total |-> 0, done |-> 0]]
        /\ kpis = [i \in DOMAIN Kpis |-> 0]

Init == HandlersInit /\ Rest
-----------------------------------------------------------------------------
Metric(name, at, single) == [name |-> name, at |-> at, single |-> single]

(* A handler's metric, stamped where it is built, and the names to follow. *)
Recording(m, names) == [metric |-> m, names |-> names]

Stamped(names) == Recording(Metric(Head(names), clock, TRUE), Tail(names))

recordMetric(p, name, at) ==
    /\ at <= clock
    /\ Request(p, "save", Recording(Metric(name, at, TRUE), <<>>))
    /\ UNCHANGED <<clock, current, metricsQueue, rows>>

saveMetric(p) ==
    /\ pc[p] = "save"
    /\ metrics' = metrics \cup {run[p].metric}
    /\ Goto(p, "queue")
    /\ UNCHANGED <<clock, current, metricsQueue, rated, kpis>>

queueMetric(p) ==
    /\ pc[p] = "queue"
    /\ metricsQueue' = Append(metricsQueue, <<run[p].metric>>)
    /\ Goto(p, "broadcast")
    /\ UNCHANGED <<clock, current, rows>>

(* A slip in updateCurrentMetrics: whichever value is shown last stands.   *)
ShownLast(at, form, entry) == TRUE

Later(at, form, entry) == form = entry.form /\ at > entry.at

Expired(entry) == entry.form = "date" /\ entry.at + Hour < clock

(* updateCurrentMetrics keeps the later of two values of a name, then      *)
(* drops what is older than an hour.                                       *)
Shown(m, form) ==
    LET known == current[m.name]
        with == IF known = None \/ Later(m.at, form, known)
                THEN [current EXCEPT ![m.name] = [at |-> m.at, form |-> form]]
                ELSE current
    IN [n \in Names |-> IF Expired(with[n]) THEN None ELSE with[n]]

broadcastMetricUpdate(p) ==
    /\ pc[p] = "broadcast"
    /\ current' = Shown(run[p].metric, "date")
    /\ IF run[p].names = <<>> THEN End(p) ELSE GotoWith(p, "save", Stamped(run[p].names))
    /\ UNCHANGED <<clock, metricsQueue, rows>>

(* Several metrics in one call: saved and queued together, shown only by   *)
(* the worker.                                                             *)
recordBulkMetrics(p, batch) ==
    /\ \A i \in DOMAIN batch : batch[i].at <= clock
    /\ Request(p, "saveBulk", batch)
    /\ UNCHANGED <<clock, current, metricsQueue, rows>>

saveBulk(p) ==
    /\ pc[p] = "saveBulk"
    /\ metrics' = metrics \cup {run[p][i] : i \in DOMAIN run[p]}
    /\ Goto(p, "queueBulk")
    /\ UNCHANGED <<clock, current, metricsQueue, rated, kpis>>

queueBulk(p) ==
    /\ pc[p] = "queueBulk"
    /\ metricsQueue' = Append(metricsQueue, run[p])
    /\ End(p)
    /\ UNCHANGED <<clock, current, rows>>

(* The queue's two processors take a job each, so the two oldest are in    *)
(* work; one goes from metric to metric.                                   *)
handleProcessMetrics(i) ==
    /\ overlap \/ Idle
    /\ i \in DOMAIN metricsQueue
    /\ LET job == metricsQueue[i]
       IN /\ current' = Shown(Head(job), "text")
          /\ metricsQueue' = IF Len(job) = 1
                             THEN SubSeq(metricsQueue, 1, i - 1) \o SubSeq(metricsQueue, i + 1, Len(metricsQueue))
                             ELSE [metricsQueue EXCEPT ![i] = Tail(@)]
    /\ UNCHANGED <<handlers, clock, rows>>

(* The recorders of MetricsCollectionService: each inserts a row of its    *)
(* own; for an escrow or a dispute, as it ended.                           *)
record(p, r, done) ==
    /\ r \in Rating \/ ~done
    /\ Request(p, "own", [recorder |-> r, done |-> done, total |-> 0, successful |-> 0])
    /\ UNCHANGED <<clock, current, metricsQueue, rows>>

saveOwn(p) ==
    /\ pc[p] = "own"
    /\ LET r == run[p].recorder
       IN IF r \in Rating
          THEN /\ rated' = [rated EXCEPT ![r] = [total |-> @.total + 1,
                                                 done |-> @.done + IF run[p].done THEN 1 ELSE 0]]
               /\ Goto(p, "count")
          ELSE /\ GotoWith(p, "save", Stamped(Recorded[r]))
               /\ UNCHANGED rated
    /\ UNCHANGED <<clock, current, metricsQueue, metrics, kpis>>

countAll(p) ==
    /\ pc[p] = "count"
    /\ GotoWith(p, "countDone", [run[p] EXCEPT !.total = rated[run[p].recorder].total])
    /\ UNCHANGED <<clock, current, metricsQueue, rows>>

countSuccessful(p) ==
    /\ pc[p] = "countDone"
    /\ GotoWith(p, "successRate", [run[p] EXCEPT !.successful = rated[run[p].recorder].done])
    /\ UNCHANGED <<clock, current, metricsQueue, rows>>

(* The own row is saved again with the rate, then the rate is a metric.    *)
saveRate(p) ==
    /\ pc[p] = "successRate"
    /\ GotoWith(p, "save", Stamped(Recorded[run[p].recorder]))
    /\ UNCHANGED <<clock, current, metricsQueue, rows>>

(* The hourly pass, which its first failure ends.                          *)
calculateAutomaticKpis(p) ==
    /\ Request(p, "kpi", 1)
    /\ UNCHANGED <<clock, current, metricsQueue, rows>>

recordKpi(p) ==
    /\ pc[p] = "kpi"
    /\ kpis' = [kpis EXCEPT ![run[p]] = @ + 1]
    /\ IF run[p] = Len(Kpis) THEN End(p) ELSE GotoWith(p, "kpi", run[p] + 1)
    /\ UNCHANGED <<clock, current, metricsQueue, metrics, rated>>

deleteOldMetrics(p, cutoff) ==
    /\ cutoff <= clock
    /\ Request(p, "delete", cutoff)
    /\ UNCHANGED <<clock, current, metricsQueue, rows>>

deleteRows(p) ==
    /\ pc[p] = "delete"
    /\ metrics' = {m \in metrics : m.at >= run[p]}
    /\ End(p)
    /\ UNCHANGED <<clock, current, metricsQueue, rated, kpis>>

(* A rejected call ends its handler where it is.                           *)
metricsFail(p) ==
    /\ faulty
    /\ pc[p] \notin {"idle", "broadcast"}
    /\ End(p)
    /\ UNCHANGED <<clock, current, metricsQueue, rows>>

tick ==
    /\ clock < MaxClock
    /\ clock' = clock + 1
    /\ UNCHANGED <<handlers, current, metricsQueue, rows>>

Next == \/ \E p \in Procs :
               \/ \E n \in Posted, at \in 0..MaxClock : recordMetric(p, n, at)
               \/ saveMetric(p)
               \/ queueMetric(p)
               \/ broadcastMetricUpdate(p)
               \/ \E n \in Posted, i, j \in 0..MaxClock :
                      recordBulkMetrics(p, <<Metric(n, i, FALSE), Metric(n, j, FALSE)>>)
               \/ saveBulk(p)
               \/ queueBulk(p)
               \/ \E r \in Recorders, done \in BOOLEAN : record(p, r, done)
               \/ saveOwn(p)
               \/ countAll(p)
               \/ countSuccessful(p)
               \/ saveRate(p)
               \/ calculateAutomaticKpis(p)
               \/ recordKpi(p)
               \/ \E cutoff \in 0..MaxClock : deleteOldMetrics(p, cutoff)
               \/ deleteRows(p)
               \/ metricsFail(p)
        \/ \E i \in 1..2 : handleProcessMetrics(i)
        \/ tick

Spec == Init /\ [][Next]_vars
-----------------------------------------------------------------------------
MetricRow == [name : Names, at : 0..MaxClock, single : BOOLEAN]

TypeOK == /\ clock \in 0..MaxClock
          /\ metrics \subseteq MetricRow
          /\ \A n \in Names : current[n] \in {None} \cup [at : 0..MaxClock, form : {"date", "text"}]
          /\ \A i \in DOMAIN metricsQueue : metricsQueue[i] # <<>>
          /\ \A r \in Rating : rated[r].done <= rated[r].total

(* Where handlers do not overlap and no call fails, once the queue is      *)
(* empty the live value of a name is no older than any metric of the last  *)
(* hour that was recorded by itself, whichever of bulk calls, the worker   *)
(* and expiry came between.                                                *)
LiveIsNewest == ~overlap /\ ~faulty /\ Idle /\ metricsQueue = <<>> =>
    \A m \in metrics : m.single /\ m.at + Hour >= clock =>
        current[m.name] # None /\ current[m.name].at >= m.at

(* A rate counts all first: one that overlaps nothing is at most a whole.  *)
RatesAreParts == ~overlap => \A p \in Procs :
    pc[p] = "successRate" => run[p].successful <= run[p].total

(* The indicators of an hour are written in order, all or up to one that   *)
(* fails.                                                                  *)
KpisInOrder == /\ \A i \in 1..Len(Kpis) - 1 : kpis[i] >= kpis[i + 1]
               /\ ~faulty /\ Idle => kpis[1] = kpis[Len(Kpis)]
=============================================================================
