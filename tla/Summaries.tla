------------------------------ MODULE Summaries ------------------------------
(***************************************************************************)
(* What the services make of rows they have read: the figures of a report, *)
(* of a dashboard's widgets and of the indicators, the progress of an      *)
(* escrow's milestones, the totals of its transactions, and which          *)
(* dashboards a user is shown.  Each is computed in its own way; the       *)
(* properties compare those that ought to agree.                           *)
(***************************************************************************)
EXTENDS Integers, SequencesExt, FiniteSetsExt, TLC

CONSTANTS Values, Targets,   \* of metrics; the target 0 is none
          MaxLimit,          \* metrics a widget asks for
          MaxRead            \* bound: rows read

VARIABLES rows, answer

vars == <<rows, answer>>

SeqsOf(S) == UNION {[1..n -> S] : n \in 0..MaxRead}

(* Of the names of metrics, the one that is asked for and another.         *)
Metrics == [kind : {"metric"}, name : {"asked", "net"}, value : Values]
Kpis == [kind : {"kpi"}, name : {"x", "y"}, category : {"c", "d"}, timestamp : 1..2]
MilestoneStatus == {"pending", "in_progress", "approved", "rejected", "completed"}
Milestones == [kind : {"milestone"}, status : MilestoneStatus]
TransactionType == {"deposit", "release", "partial_release", "refund", "fee_collection"}
Transactions == [kind : {"transaction"}, type : TransactionType, amount : {1, 2},
                 status : {"pending", "processing", "completed"}]
Dashboards == [kind : {"dashboard"}, createdBy : {"u", "v"}, isActive : BOOLEAN, isPublic : BOOLEAN]
Widgets == [kind : {"widget"}, id : 1..2, type : {"metric", "kpi", "map"}]

None == [of |-> "nothing"]
Rest == rows = <<>> /\ answer = None

(* Metrics and indicators are read newest first.                           *)
Init == /\ \/ rows \in SeqsOf(Metrics)
           \/ rows \in {s \in SeqsOf(Kpis) : \A i, j \in DOMAIN s : i < j => s[i].timestamp >= s[j].timestamp}
           \/ rows \in SeqsOf(Milestones)
           \/ \E n \in 1..2 : rows \in [1..n -> Transactions] \cup [1..n -> Dashboards] \cup [1..n -> Widgets]
        /\ answer = None

Read(kind) == \A i \in DOMAIN rows : rows[i].kind = kind

Sum(s) == FoldSeq(LAMBDA r, n : r.value + n, 0, s)
First(s, n) == SubSeq(s, 1, IF n < Len(s) THEN n ELSE Len(s))

Answer(of, given) == answer' = [of |-> of] @@ given /\ UNCHANGED rows
-----------------------------------------------------------------------------
(* AnalyticsService's rows of one name, without and with a limit.          *)
getMetrics(name) == SelectSeq(rows, LAMBDA r : r.name = name)

(* An average is a sum and what it is divided by, 0 for the 0 that stands  *)
(* for no number.                                                          *)
Average(s, total) == [sum |-> Sum(s), by |-> total]

Figures(s) == [total |-> Len(s), sum |-> Sum(s), average |-> Average(s, Len(s))]

generateTransactionSummaryReport == Figures(getMetrics("asked"))

(* "$like" is no operator of the query: no metric has that name.           *)
generateUserEngagementReport == Figures(<<>>)

generateRevenueAnalysisReport ==
    [totalRevenue |-> Sum(getMetrics("asked")), netRevenue |-> Sum(getMetrics("net")),
     transactionCount |-> Len(getMetrics("asked"))]

generateEscrowPerformanceReport == Figures(getMetrics("asked"))
generateDisputeAnalysisReport == Figures(getMetrics("asked"))
generatePerformanceMetricsReport == Figures(getMetrics("asked"))

Reports == {generateTransactionSummaryReport, generateUserEngagementReport,
            generateEscrowPerformanceReport, generateDisputeAnalysisReport,
            generatePerformanceMetricsReport}

generateReport == /\ Read("metric")
                  /\ \E figures \in Reports : Answer("report", figures)

analyseRevenue == Read("metric") /\ Answer("revenue", generateRevenueAnalysisReport)
-----------------------------------------------------------------------------
(* A widget's rows: its filters give way to those of the request, a name   *)
(* among them, and it reads the newest up to a limit.                      *)
Named(name, filters) == getMetrics(IF filters = "none" THEN name ELSE filters)

getMetricWidgetData(s) ==
    LET data == First(s, MaxLimit)
        values == {data[i].value : i \in DOMAIN data}
    IN [sum |-> Sum(data), average |-> Average(data, Len(data)), count |-> Len(data),
        max |-> IF data = <<>> THEN "-Infinity" ELSE Max(values),
        min |-> IF data = <<>> THEN "Infinity" ELSE Min(values), total |-> Len(s)]

getChartWidgetData(s) == [data |-> First(s, MaxLimit), total |-> Len(s)]

getTableWidgetData(s, limit) == [data |-> First(s, limit), total |-> Len(s)]

(* The sign of a variance, (value - target) / target.                      *)
getKpiWidgetData(s, target) ==
    LET value == IF s = <<>> THEN 0 ELSE s[1].value
    IN [value |-> value, status |-> IF target = 0 \/ value >= target THEN "positive" ELSE "negative"]

getWidgetData(filters, limit, target) ==
    /\ Read("metric")
    /\ LET s == Named("asked", filters)
       IN Answer("widget", [filters |-> filters, limit |-> limit, target |-> target,
              metric |-> getMetricWidgetData(s), chart |-> getChartWidgetData(s),
              table |-> getTableWidgetData(s, limit), kpi |-> getKpiWidgetData(s, target)])

(* A widget of another type throws; the answers are kept by id, of two     *)
(* widgets with one the last.                                              *)
getDashboardData ==
    /\ Read("widget")
    /\ Answer("dashboard", [data |-> FoldLeft(
           LAMBDA data, w : (w.id :> IF w.type = "map" THEN "error" ELSE w.type) @@ data, <<>>, rows)])

(* createdBy OR isPublic AND isActive.                                     *)
getDashboards(user) ==
    SelectSeq(rows, LAMBDA d : d.createdBy = user \/ (d.isPublic /\ d.isActive))

getUserDashboards(user) == SelectSeq(rows, LAMBDA d : d.createdBy = user /\ d.isActive)

showDashboards(user) ==
    /\ Read("dashboard")
    /\ Answer("dashboards", [user |-> user, all |-> getDashboards(user), own |-> getUserDashboards(user)])
-----------------------------------------------------------------------------
(* recordKpi keeps the variance in a column of 5 digits, 2 of them after   *)
(* the point: the insertion of 1000 % and more is refused.                 *)
Overflows(value, target) == target # 0 /\ value - target >= 10 * target

getKpiStatus(value, target) ==
    CASE target = 0 \/ value >= target -> "good"
      [] target # 0 /\ value < target /\ 10 * (value - target) >= -target -> "warning"
      [] OTHER -> "critical"

recordKpi(value, target) ==
    /\ rows = <<>>
    /\ Answer("recorded", [value |-> value, target |-> target,
           status |-> IF Overflows(value, target) THEN "refused" ELSE getKpiStatus(value, target)])

getLatestKpisByName(s) ==
    FoldLeft(LAMBDA latest, k : IF k.name \in DOMAIN latest /\ latest[k.name].timestamp >= k.timestamp
                                THEN latest ELSE (k.name :> k) @@ latest, <<>>, s)

getKpis(category) == SelectSeq(rows, LAMBDA k : category \in {"any", k.category})

getKpiSummary ==
    /\ Read("kpi")
    /\ LET categories == {rows[i].category : i \in DOMAIN rows}
       IN Answer("kpis", [of_category |-> [c \in categories |->
              [total |-> Len(getKpis(c)), kpis |-> getLatestKpisByName(getKpis(c))]]])
-----------------------------------------------------------------------------
FirstWith(statuses) == SelectSeq(rows, LAMBDA m : m.status \in statuses)

getMilestoneProgress ==
    /\ Read("milestone")
    /\ LET completed == Len(FirstWith({"completed"}))
       IN Answer("progress", [percentage |-> IF rows = <<>> THEN 0 ELSE (100 * completed) \div Len(rows),
              current |-> First(FirstWith({"in_progress"}), 1), next |-> First(FirstWith({"pending"}), 1)])

(* Amounts come as texts: += joins them to the 0 it started with.          *)
Joined(s) == [i \in DOMAIN s |-> s[i].amount]

getTransactionSummary ==
    /\ Read("transaction")
    /\ LET Of(statuses, types) == Joined(SelectSeq(rows, LAMBDA t : t.status \in statuses /\ t.type \in types))
       IN Answer("totals", [totalDeposited |-> Of({"completed"}, {"deposit"}),
              totalReleased |-> Of({"completed"}, {"release", "partial_release"}),
              totalRefunded |-> Of({"completed"}, {"refund"}),
              totalFees |-> Of({"completed"}, {"fee_collection"}),
              pendingAmount |-> Of({"pending"}, TransactionType)])
-----------------------------------------------------------------------------
Ask == \/ generateReport
       \/ analyseRevenue
       \/ \E filters \in {"none", "net"}, limit \in 1..MaxRead, target \in Targets :
              getWidgetData(filters, limit, target)
       \/ getDashboardData
       \/ \E user \in {"u", "v"} : showDashboards(user)
       \/ \E value \in Values, target \in Targets : recordKpi(value, target)
       \/ getKpiSummary
       \/ getMilestoneProgress
       \/ getTransactionSummary

Next == answer = None /\ Ask

Spec == Init /\ [][Next]_vars
-----------------------------------------------------------------------------
(* Figures of the same metrics agree: a report's sum and number, a         *)
(* widget's of as many as it reads, its average between its least and its  *)
(* greatest, the newest value first in every listing.                      *)
WidgetAgrees ==
    LET given == Named("asked", answer.filters)
        m == answer.metric
        report == Figures(given)
    IN  /\ m.total = report.total /\ answer.chart.total = m.total /\ answer.table.total = m.total
        /\ m.count = Min({MaxLimit, m.total}) /\ m.count = Len(answer.chart.data)
        /\ m.total <= MaxLimit => m.sum = report.sum /\ m.average = report.average
        /\ report.sum - m.sum = Sum(SubSeq(given, MaxLimit + 1, Len(given)))
        /\ m.count > 0 => /\ m.min * m.average.by <= m.average.sum
                          /\ m.average.sum <= m.max * m.average.by
                          /\ answer.kpi.value = Head(answer.table.data).value
                          /\ answer.kpi.value \in m.min..m.max
        /\ answer.kpi.status = "positive" <=> getKpiStatus(answer.kpi.value, answer.target) = "good"

(* An indicator that could be recorded is good where it came up to its     *)
(* target, and what is refused had come up to it.                          *)
RecordedByTarget == answer.status # "critical" =>
    answer.target = 0 \/ 10 * answer.value >= 9 * answer.target

(* The summary shows of each name in a category the indicator none is      *)
(* newer than, and counts them all.                                        *)
LatestAreNewest ==
    /\ \A c \in DOMAIN answer.of_category : \A name \in DOMAIN answer.of_category[c].kpis :
           LET k == answer.of_category[c].kpis[name]
           IN /\ k \in ToSet(rows) /\ k.category = c /\ k.name = name
              /\ \A i \in DOMAIN rows : rows[i].category = c /\ rows[i].name = name
                                            => rows[i].timestamp <= k.timestamp
    /\ \A i \in DOMAIN rows : rows[i].name \in DOMAIN answer.of_category[rows[i].category].kpis
    /\ Len(rows) = FoldSet(LAMBDA c, n : answer.of_category[c].total + n, 0, DOMAIN answer.of_category)

(* The progress is complete exactly where checkEscrowCompletion queues the *)
(* escrow's completion; where neither a milestone in work nor one to come  *)
(* is shown, none is or one waits for its payment or was rejected.         *)
ProgressAgrees ==
    /\ answer.percentage = 100 <=> rows # <<>> /\ \A i \in DOMAIN rows : rows[i].status = "completed"
    /\ answer.current = <<>> /\ answer.next = <<>> =>
           \A i \in DOMAIN rows : rows[i].status \in {"approved", "rejected", "completed"}

(* A text is the number of one row, and no number where several joined.    *)
TotalsAreJoined ==
    LET completed == SelectSeq(rows, LAMBDA t : t.status = "completed")
    IN  Len(completed) = Len(answer.totalDeposited) + Len(answer.totalReleased)
                         + Len(answer.totalRefunded) + Len(answer.totalFees)

(* Nobody is shown another's dashboard unless it is public and active; a   *)
(* user's own are all shown.                                               *)
DashboardsShown ==
    /\ \A i \in DOMAIN answer.all : answer.all[i].createdBy # answer.user
                                       => answer.all[i].isPublic /\ answer.all[i].isActive
    /\ ToSet(answer.own) \subseteq ToSet(answer.all)
    /\ \A i \in DOMAIN rows : rows[i].createdBy = answer.user \/ (rows[i].isPublic /\ rows[i].isActive)
                                => rows[i] \in ToSet(answer.all)

(* Every widget has an entry, and one that failed keeps none from another. *)
WidgetsAnswered ==
    /\ DOMAIN answer.data = {rows[i].id : i \in DOMAIN rows}
    /\ \A id \in DOMAIN answer.data : answer.data[id] = "error" =>
           \E i \in DOMAIN rows : rows[i].id = id /\ rows[i].type = "map"

SummariesAgree == /\ answer.of = "widget" => WidgetAgrees
                  /\ answer.of = "recorded" => RecordedByTarget
                  /\ answer.of = "kpis" => LatestAreNewest
                  /\ answer.of = "progress" => ProgressAgrees
                  /\ answer.of = "totals" => TotalsAreJoined
                  /\ answer.of = "dashboards" => DashboardsShown
                  /\ answer.of = "dashboard" => WidgetsAnswered
=============================================================================
