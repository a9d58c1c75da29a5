-------------------------------- MODULE Gateway --------------------------------
(***************************************************************************)
(* The API gateway around the controllers.  A request passes the version   *)
(* guard and the rate-limit guard, then, inside the interceptors, the      *)
(* pipes and its handler; ApiAnalyticsInterceptor keeps the call in memory,*)
(* and ResponseTransformInterceptor, around it, answers.  Timers work on   *)
(* the calls kept: a snapshot every five minutes, a cleanup every hour,    *)
(* one of old snapshots every day, and alerts every ten seconds from what  *)
(* the dashboard last showed.  A tick is five minutes.                     *)
(***************************************************************************)
EXTENDS Handlers, Deletion, FiniteSets, FiniteSetsExt

CONSTANTS strategy,                    \* where a version is read from
          Hour, Day, Kept, MaxClock,   \* in ticks; bound: the last tick
          maxMetrics, maxAlerts,       \* what is kept in memory
          Endpoints, Headers, Given    \* what requests ask for, and with what

VARIABLES clock, due,                  \* and the timers of this tick yet to run
          supported, deprecated,       \* VersioningService
          calls,                       \* ApiAnalyticsInterceptor.metrics
          snapshots,                   \* AnalyticsIntegrationService.snapshots
          board, alerts,               \* DashboardService.metrics.overview, .alerts
          answered, lost               \* history: every call answered, and those no snapshot saw

versions == <<supported, deprecated>>
monitors == <<calls, snapshots, board, alerts, lost>>
vars == <<handlers, clock, due, versions, monitors, answered>>

Default == "v1"
WellFormed == {"v1", "v2", "v3"}
Neutral == {"add", "deprecate", "check", "overview", "metrics"}
Excluded == {"metrics"}
Created == {"add", "deprecate"}
Versions == WellFormed \cup {"unknown"}

(* DashboardService.initializeMetrics.                                     *)
Blank == [total |-> 0, recent |-> 0, failed |-> 0]

Rest == /\ clock = 0 /\ due = {}
        /\ supported = {"v1", "v2"} /\ deprecated = {"v1"}
        /\ calls = <<>> /\ snapshots = <<[at |-> 0, seen |-> {}]>>
        /\ board = Blank /\ alerts = <<>>
        /\ answered = {} /\ lost = {}

Init == HandlersInit /\ ~faulty /\ Rest
-----------------------------------------------------------------------------
(* VersioningService.                                                      *)
normalizeVersion(v) == IF v \in WellFormed THEN v ELSE Default

isSupported(v) == normalizeVersion(v) \in supported

(* The global prefix puts /api/v1 in every path.                           *)
extractVersion(header) == IF strategy = "header" THEN normalizeVersion(header) ELSE "v1"

(* A neutral endpoint's version is not looked at.                          *)
Read(endpoint) == IF endpoint \in Neutral THEN {Default} ELSE Headers

(* Before the interceptors: an unsupported version.                        *)
canActivate(endpoint, header) == endpoint \in Neutral \/ isSupported(extractVersion(header))

(* It is refused, or has too many requests, or no right to the endpoint:   *)
(* no interceptor sees it.                                                 *)
refuse(p) ==
    /\ Request(p, "idle", NoRun)
    /\ UNCHANGED <<clock, due, versions, monitors, answered>>

(* ApiVersionPipe: a version named in the body has to be supported.        *)
VersionAccepted(given) == given # "empty" => isSupported(given)

(* ValidationPipe knows no property of the two version bodies, so it       *)
(* refuses any.                                                            *)
Known(endpoint, given) == endpoint \in Created => given = "empty"

Accepted(endpoint, given) == VersionAccepted(given) /\ Known(endpoint, given)
-----------------------------------------------------------------------------
(* ApiAnalyticsInterceptor.                                                *)
trackMetric(id, endpoint, version, failed) ==
    [id |-> id, at |-> clock, path |-> endpoint, version |-> version, failed |-> failed,
     status |-> IF endpoint \in Created THEN 201 ELSE 200]

Uncounted(cs) == {c \in cs : \A i \in DOMAIN snapshots : c.id \notin snapshots[i].seen}

Losing(cs) == lost' = lost \cup {[id |-> c.id, at |-> c.at, dropped |-> clock] : c \in Uncounted(cs)}

InMemory == {calls[i] : i \in DOMAIN calls}

addMetric(c) ==
    LET kept == Append(calls, c)
    IN IF Len(kept) > maxMetrics
       THEN calls' = Tail(kept) /\ Losing({Head(kept)})
       ELSE calls' = kept /\ UNCHANGED lost

(* The outer interceptor throws what is no exception, so Nest answers 500  *)
(* whatever status was chosen.                                             *)
Answer(failed) == IF failed THEN 500 ELSE 200

(* The call is kept first, with the status a success would have.           *)
Done(id, endpoint, version, failed) ==
    /\ IF endpoint \in Excluded
       THEN UNCHANGED <<calls, lost, answered>>
       ELSE /\ addMetric(trackMetric(id, endpoint, version, failed))
            /\ answered' = answered \cup {[id |-> id, at |-> clock, status |-> Answer(failed)]}

Recent == {c \in InMemory : clock - c.at < Hour}

Failed(cs) == {c \in cs : c.failed}

(* Each part of the dashboard from the calls in memory; only the error     *)
(* rate looks at the last hour alone.  The overview is kept for the alerts.*)
Overview == [total |-> Len(calls), recent |-> Cardinality(Recent), failed |-> Cardinality(Failed(Recent))]

ErrorMetrics == {c \in InMemory : c.failed \/ c.status >= 400}

EndpointMetrics ==
    [e \in Endpoints |-> [requests |-> Cardinality({c \in InMemory : c.path = e}),
                          errors |-> Cardinality({c \in ErrorMetrics : c.path = e})]]

VersionMetrics == [v \in Versions |-> Cardinality({c \in InMemory : c.version = v})]

updateMetrics == board' = Overview

addSupportedVersion(v) == supported' = supported \cup {normalizeVersion(v)}

deprecateVersion(v) == deprecated' = deprecated \cup {normalizeVersion(v)}

(* What the gateway's own handlers do, none of which waits.                *)
Effect(endpoint, given) ==
    /\ IF endpoint = "add" THEN addSupportedVersion(given) ELSE UNCHANGED supported
    /\ IF endpoint = "deprecate" THEN deprecateVersion(given) ELSE UNCHANGED deprecated
    /\ IF endpoint \in {"overview", "metrics"} THEN updateMetrics ELSE UNCHANGED board

handle(p, endpoint, header, given) ==
    /\ MayStart(p)
    /\ canActivate(endpoint, header)
    /\ LET version == IF endpoint \in Neutral THEN "unknown" ELSE extractVersion(header)
           taken == Accepted(endpoint, given)
       IN IF taken /\ endpoint \notin Neutral
          THEN /\ Request(p, "handler", [id |-> requests + 1, path |-> endpoint, version |-> version])
               /\ UNCHANGED <<versions, board, calls, lost, answered>>
          ELSE /\ Request(p, "idle", NoRun)
               /\ Done(requests', endpoint, version, ~taken)
               /\ IF taken THEN Effect(endpoint, given) ELSE UNCHANGED <<versions, board>>
    /\ UNCHANGED <<clock, due, snapshots, alerts>>

(* Another controller's handler comes to an end.                           *)
finish(p, failed) ==
    /\ pc[p] = "handler"
    /\ Done(run[p].id, run[p].path, run[p].version, failed)
    /\ End(p)
    /\ UNCHANGED <<clock, due, versions, snapshots, board, alerts>>
-----------------------------------------------------------------------------
(* A slip in takeSnapshot: the calls of the current tick alone.            *)
SnapshotCurrent ==
    /\ "snapshot" \in due
    /\ due' = due \ {"snapshot"}
    /\ snapshots' = Append(snapshots, [at |-> clock, seen |-> {c.id : c \in {d \in InMemory : d.at = clock}}])
    /\ UNCHANGED <<handlers, clock, versions, calls, board, alerts, answered, lost>>

takeSnapshot ==
    /\ "snapshot" \in due
    /\ due' = due \ {"snapshot"}
    /\ snapshots' = Append(snapshots, [at |-> clock, seen |-> {c.id : c \in InMemory}])
    /\ UNCHANGED <<handlers, clock, versions, calls, board, alerts, answered, lost>>

cleanupMetrics ==
    /\ "cleanup" \in due
    /\ due' = due \ {"cleanup"}
    /\ calls' = <<>>
    /\ Losing(InMemory)
    /\ UNCHANGED <<handlers, clock, versions, snapshots, board, alerts, answered>>

cleanupOldData ==
    /\ "old" \in due
    /\ due' = due \ {"old"}
    /\ snapshots' = Remaining(snapshots, {i \in DOMAIN snapshots : snapshots[i].at + Kept >= clock})
    /\ UNCHANGED <<handlers, clock, versions, calls, board, alerts, answered, lost>>

addAlert ==
    LET added == Append(alerts, [acknowledged |-> FALSE])
    IN alerts' = IF Len(added) > maxAlerts THEN Tail(added) ELSE added

(* The error rate is the one the dashboard last showed.  Alerts on memory  *)
(* and response times, which are the machine's, are left out.              *)
checkForAlerts ==
    /\ 10 * board.failed > board.recent
    /\ addAlert
    /\ UNCHANGED <<handlers, clock, due, versions, calls, snapshots, board, answered, lost>>

acknowledgeAlert(i) ==
    /\ i \in DOMAIN alerts
    /\ alerts' = [alerts EXCEPT ![i].acknowledged = TRUE]
    /\ UNCHANGED <<handlers, clock, due, versions, calls, snapshots, board, answered, lost>>

tick == /\ due = {} /\ clock < MaxClock
        /\ clock' = clock + 1
        /\ due' = {"snapshot"} \cup (IF clock' % Hour = 0 THEN {"cleanup"} ELSE {})
                               \cup (IF clock' % Day = 0 THEN {"old"} ELSE {})
        /\ UNCHANGED <<handlers, versions, monitors, answered>>

Next == \/ \E p \in Procs :
               \/ refuse(p)
               \/ \E endpoint \in Endpoints, given \in Given :
                      \E header \in Read(endpoint) : handle(p, endpoint, header, given)
        \/ \E p \in Procs, failed \in BOOLEAN : finish(p, failed)
        \/ takeSnapshot
        \/ cleanupMetrics
        \/ cleanupOldData
        \/ checkForAlerts
        \/ \E i \in 1..maxAlerts : acknowledgeAlert(i)
        \/ tick

Spec == Init /\ [][Next]_vars
-----------------------------------------------------------------------------
(* generateAnalyticsReport adds the snapshots' running totals.             *)
InPeriod(start, end) == {i \in DOMAIN snapshots : snapshots[i].at \in start..end}

totalRequests(start, end) == MapThenSumSet(LAMBDA i : Cardinality(snapshots[i].seen), InPeriod(start, end))

TypeOK == /\ clock \in 0..MaxClock
          /\ due \subseteq {"snapshot", "cleanup", "old"}
          /\ supported \subseteq WellFormed /\ deprecated \subseteq WellFormed
          /\ Len(calls) <= maxMetrics
          /\ Len(alerts) <= maxAlerts
          /\ board.total \in 0..maxMetrics

(* Whenever cleanups, the limit on memory and snapshots come, a report on  *)
(* any period counts each call of it that was answered before the last     *)
(* snapshot, but for calls dropped at most one tick after they were kept.  *)
ReportCoversPeriod ==
    /\ \A l \in lost : l.dropped <= l.at + 1
    /\ \A start \in 0..clock : \A end \in start..clock : InPeriod(start, end) # {} =>
           LET newest == snapshots[Max(InPeriod(start, end))].at
               owed == {a \in answered : /\ a.at \in start..(newest - 1)
                                         /\ a.at + Kept >= clock
                                         /\ \A l \in lost : l.id # a.id}
           IN owed # {} => totalRequests(start, end) >= Cardinality(owed)

(* Whatever fails inside the interceptors is answered 500 and kept with    *)
(* the status of a success; the dashboard still tells errors from the rest,*)
(* the same in each of its parts.                                          *)
ErrorsAgree ==
    /\ \A c \in InMemory : c.status < 400
    /\ ErrorMetrics = {c \in InMemory : \E a \in answered : a.id = c.id /\ a.status >= 400}
    /\ board.failed <= board.recent /\ board.recent <= board.total
    /\ Cardinality(ErrorMetrics) = MapThenSumSet(LAMBDA e : EndpointMetrics[e].errors, Endpoints)
    /\ Len(calls) = MapThenSumSet(LAMBDA e : EndpointMetrics[e].requests, Endpoints)
    /\ Len(calls) = MapThenSumSet(LAMBDA v : VersionMetrics[v], Versions)

(* No request adds a version or deprecates another: a body that names one  *)
(* is refused, and an empty one means the default.                         *)
VersionsFixed == supported = {"v1", "v2"} /\ deprecated = {"v1"}
=============================================================================
