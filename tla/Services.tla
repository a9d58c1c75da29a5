------------------------------- MODULE Services -------------------------------
(***************************************************************************)
(* The services around the escrow that keep rows, in one process: accounts,*)
(* rate limits, the audit trail, notifications, escrow notices, evidence,  *)
(* reports, integrations, metrics, the API gateway, the escrow's contract  *)
(* and users' records.                                                     *)
(* They share the process's handlers and no rows, so a handler of one      *)
(* cannot disturb one of another: a behaviour follows the handlers of one, *)
(* in every order and with every failure, while the others rest.  Backend  *)
(* adds what keeps no rows of its own; its steps are stutters here.        *)
(***************************************************************************)
EXTENDS Handlers, FiniteSets

CONSTANTS MaxCounted,                                       \* bound: requests the guards see
          Passwords, LongPasswords, maxAttempts,            \* Accounts
          Paths, AuthPaths, globalLimit, authLimit,         \* RateLimits
          MAX_REQUESTS, WINDOW_SIZE, MaxTime,
          Users, Entries, MaxLogged,                        \* AuditTrail
          Requested, maxRetries,                            \* Notifications
          Kinds,                                            \* EscrowNotices
          Attempts,                                         \* Reports
          MaxLong, MaxLongDisturbed,                        \* bounds: requests of the longer handlers
          MetricHour, MaxMetricClock, Recorders, Posted,    \* Metrics
          strategy, Hour, Day, Kept, MaxClock,              \* Gateway
          maxMetrics, maxAlerts, Endpoints, Headers, Given

(* "none" is no password; no account is locked before an attempt, no guard *)
(* lets nothing through, what is retried is tried once, and a snapshot is  *)
(* kept for more than the tick it was taken in; MetricsCollectionService   *)
(* has six recorders.  The bounds are numbers, and no more requests are    *)
(* followed where they overlap or fail than where they do not.             *)
ASSUME ConstantsAssumption ==
    /\ IsFiniteSet(Procs) /\ IsFiniteSet(Endpoints)
    /\ "none" \notin Passwords
    /\ {maxAttempts, maxRetries, MAX_REQUESTS, WINDOW_SIZE, Attempts, Kept} \subseteq Nat \ {0}
    /\ {MaxRequests, MaxDisturbed, MaxLong, MaxTime, MetricHour, MaxMetricClock,
        MaxClock, maxMetrics, maxAlerts} \subseteq Nat
    /\ MaxLong <= MaxRequests
    /\ Recorders \subseteq {"engagement", "transaction", "escrow", "dispute", "revenue", "performance"}

VARIABLES focus,                                            \* whose handlers run
          user, stored, issued, told, signedOut,
          now, limitStore, redis, inMemoryStore, passed,
          trail, stamp, untouched,
          status, jobs, logs,
          evidence, matched,
          report, job,
          integration,
          notices,
          metricClock, metrics, current, metricsQueue, rated, kpis,
          clock, due, supported, deprecated, calls, snapshots, board, alerts, answered, lost,
          escrow, deployments, stalled, contracts, replaced, payment, calledContract,
          account, records, toldRecords

accountsVars == <<user, stored, issued, told, signedOut>>
limitsVars == <<now, limitStore, redis, inMemoryStore, passed>>
auditVars == <<trail, stamp, untouched>>
noticeVars == <<status, jobs, logs>>
evidenceVars == <<evidence, matched>>
reportVars == <<report, job>>
metricVars == <<metricClock, metrics, current, metricsQueue, rated, kpis>>
gatewayVars == <<clock, due, supported, deprecated, calls, snapshots, board, alerts, answered, lost>>
contractVars == <<escrow, deployments, stalled, contracts, replaced, payment, calledContract>>
profileVars == <<account, records, toldRecords>>
vars == <<handlers, focus, accountsVars, limitsVars, auditVars, noticeVars, evidenceVars,
          reportVars, integration, notices, metricVars, gatewayVars, contractVars, profileVars>>

A == INSTANCE Accounts
R == INSTANCE RateLimits WITH MaxRequests <- MaxCounted, MaxDisturbed <- MaxLong
T == INSTANCE AuditTrail WITH MaxDisturbed <- MaxLogged
N == INSTANCE Notifications WITH MaxDisturbed <- MaxLong
E == INSTANCE Evidence
G == INSTANCE Reports
I == INSTANCE Integrations
U == INSTANCE EscrowNotices WITH MaxDisturbed <- MaxLong
M == INSTANCE Metrics WITH MaxRequests <- MaxLongDisturbed, MaxDisturbed <- MaxLongDisturbed,
         Hour <- MetricHour, MaxClock <- MaxMetricClock, clock <- metricClock
W == INSTANCE Gateway WITH MaxRequests <- MaxLong, MaxDisturbed <- MaxLongDisturbed
C == INSTANCE Contracts WITH MaxDisturbed <- MaxLong, calls <- calledContract
P == INSTANCE Profiles WITH MaxDisturbed <- MaxLong, told <- toldRecords

(* Notices are of the kinds the service has a method for.                  *)
ASSUME KindsAssumption == Kinds \subseteq DOMAIN U!Addressees

Init ==
    /\ HandlersInit
    /\ \/ focus = "accounts" /\ (A!Rest \/ \E text \in Passwords \ LongPasswords : A!Seeded(text))
       \/ /\ focus \in {"limits", "audit", "evidence", "reports", "integrations", "notices", "metrics",
                       "contracts", "profiles"}
          /\ A!Rest
       \/ focus = "notifications" /\ N!Apart /\ A!Rest
       \/ focus = "gateway" /\ W!Init /\ A!Rest
       \/ focus \in {"bodies", "listings", "summaries"} /\ ~overlap /\ ~faulty /\ A!Rest
    /\ R!Rest /\ T!Rest /\ N!Rest /\ E!Rest /\ G!Rest /\ I!Rest /\ U!Rest /\ M!Rest /\ W!Rest
    /\ C!Rest /\ P!Rest
-----------------------------------------------------------------------------
accountsStep ==
    /\ focus = "accounts" /\ A!Next
    /\ UNCHANGED <<focus, limitsVars, auditVars, noticeVars, evidenceVars, reportVars,
                   integration, notices, metricVars, gatewayVars, contractVars, profileVars>>

limitsStep ==
    /\ focus = "limits" /\ R!Next
    /\ UNCHANGED <<focus, accountsVars, auditVars, noticeVars, evidenceVars, reportVars,
                   integration, notices, metricVars, gatewayVars, contractVars, profileVars>>

auditStep ==
    /\ focus = "audit" /\ T!Next
    /\ UNCHANGED <<focus, accountsVars, limitsVars, noticeVars, evidenceVars, reportVars,
                   integration, notices, metricVars, gatewayVars, contractVars, profileVars>>

notificationsStep ==
    /\ focus = "notifications" /\ N!Next
    /\ UNCHANGED <<focus, accountsVars, limitsVars, auditVars, evidenceVars, reportVars,
                   integration, notices, metricVars, gatewayVars, contractVars, profileVars>>

evidenceStep ==
    /\ focus = "evidence" /\ E!Next
    /\ UNCHANGED <<focus, accountsVars, limitsVars, auditVars, noticeVars, reportVars,
                   integration, notices, metricVars, gatewayVars, contractVars, profileVars>>

reportsStep ==
    /\ focus = "reports" /\ G!Next
    /\ UNCHANGED <<focus, accountsVars, limitsVars, auditVars, noticeVars, evidenceVars,
                   integration, notices, metricVars, gatewayVars, contractVars, profileVars>>

integrationsStep ==
    /\ focus = "integrations" /\ I!Next
    /\ UNCHANGED <<focus, accountsVars, limitsVars, auditVars, noticeVars, evidenceVars,
                   reportVars, notices, metricVars, gatewayVars, contractVars, profileVars>>

noticesStep ==
    /\ focus = "notices" /\ U!Next
    /\ UNCHANGED <<focus, accountsVars, limitsVars, auditVars, noticeVars, evidenceVars,
                   reportVars, integration, metricVars, gatewayVars, contractVars, profileVars>>

metricsStep ==
    /\ focus = "metrics" /\ M!Next
    /\ UNCHANGED <<focus, accountsVars, limitsVars, auditVars, noticeVars, evidenceVars,
                   reportVars, integration, notices, gatewayVars, contractVars, profileVars>>

gatewayStep ==
    /\ focus = "gateway" /\ W!Next
    /\ UNCHANGED <<focus, accountsVars, limitsVars, auditVars, noticeVars, evidenceVars,
                   reportVars, integration, notices, metricVars, contractVars, profileVars>>

contractsStep ==
    /\ focus = "contracts" /\ C!Next
    /\ UNCHANGED <<focus, accountsVars, limitsVars, auditVars, noticeVars, evidenceVars,
                   reportVars, integration, notices, metricVars, gatewayVars, profileVars>>

profilesStep ==
    /\ focus = "profiles" /\ P!Next
    /\ UNCHANGED <<focus, accountsVars, limitsVars, auditVars, noticeVars, evidenceVars,
                   reportVars, integration, notices, metricVars, gatewayVars, contractVars>>

Next == \/ accountsStep
        \/ limitsStep
        \/ auditStep
        \/ notificationsStep
        \/ evidenceStep
        \/ reportsStep
        \/ integrationsStep
        \/ noticesStep
        \/ metricsStep
        \/ gatewayStep
        \/ contractsStep
        \/ profilesStep

Spec == Init /\ [][Next]_vars
-----------------------------------------------------------------------------
TypeOK == /\ focus = "accounts" => A!TypeOK
          /\ focus = "limits" => R!TypeOK
          /\ focus = "audit" => T!TypeOK
          /\ focus = "notifications" => N!TypeOK
          /\ focus = "evidence" => E!TypeOK
          /\ focus = "reports" => G!TypeOK
          /\ focus = "integrations" => I!TypeOK
          /\ focus = "notices" => U!TypeOK
          /\ focus = "metrics" => M!TypeOK
          /\ focus = "gateway" => W!TypeOK
          /\ focus = "contracts" => C!TypeOK
          /\ focus = "profiles" => P!TypeOK

(* Whatever copies of a row are saved, and in whichever order, the columns *)
(* of one row and the job behind it tell the same story: of an account,    *)
(* its attempts and its lock; of a notification and of a report, what its  *)
(* jobs came to; of evidence, that what is served was verified; of an      *)
(* integration, its errors; of an escrow's notices, who was told before    *)
(* whom; of an hour's indicators, how far its pass came, and of a rate,    *)
(* its two counts; of the gateway, its answers, what it keeps of them, and *)
(* the versions it serves; of an escrow, the contract deployed for it and  *)
(* the payments made over one; of a user's records, what was reported of   *)
(* them.                                                                   *)
RowsAgree == /\ focus = "accounts" => A!RowCoherent
             /\ focus = "notifications" => N!StatusMatchesJobs
             /\ focus = "reports" => G!ReportSettles
             /\ focus = "evidence" => E!ServedWasVerified
             /\ focus = "integrations" => I!ErrorsAgree
             /\ focus = "notices" => U!ToldInOrder
             /\ focus = "metrics" => M!RatesAreParts /\ M!KpisInOrder
             /\ focus = "gateway" => W!ErrorsAgree /\ W!VersionsFixed
             /\ focus = "contracts" => C!ContractKept /\ C!PaidOverNamed
             /\ focus = "profiles" => P!RecordsStand

(* Where handlers do not overlap and no call fails, the live value of a    *)
(* metric is no older than any of the last hour recorded by itself,        *)
(* whichever bulk calls, jobs and expiries came between.                   *)
LiveIsNewest == focus = "metrics" => M!LiveIsNewest

(* A report of the gateway counts each call of its period that was         *)
(* answered before its last snapshot, but for those dropped within a tick  *)
(* of being kept, whenever snapshots, cleanups and the limit on memory     *)
(* come.                                                                   *)
ReportCoversPeriod == focus = "gateway" => W!ReportCoversPeriod

(* The password last reported as set is the one the account holds, hashed  *)
(* once however often its row was saved since.                             *)
PasswordStands == focus = "accounts" => A!PasswordStands

(* Once a sign-out was reported no refresh token is stored before the next *)
(* sign-in.                                                                *)
SignedOutStays == focus = "accounts" => A!SignedOutStays

(* Where requests do not overlap and no call fails, fewer than three times *)
(* what RateLimitGuard allows get through while Redis keeps one count; it  *)
(* is not fewer than that, less one.                                       *)
FewerThanThrice == focus = "limits" => R!FewerThanThrice

(* An audit trail nothing was taken from is a chain where logs do not      *)
(* overlap, and where they do a hash has no more followers than handlers   *)
(* for each of its bearers.                                                *)
TrailIsChain == focus = "audit" => T!TrailIsChain
=============================================================================
