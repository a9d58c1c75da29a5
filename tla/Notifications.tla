---------------------------- MODULE Notifications ----------------------------
(***************************************************************************)
(* NotificationService and the processors of the channels' queues, for one *)
(* notification: the request stores it and queues a job for each channel   *)
(* the user's preferences leave; each job sends, keeps a delivery log and  *)
(* writes the one status of the notification.                              *)
(*                                                                         *)
(* Sms is handled as email is.  The preferences are read once, so what is  *)
(* enabled is any subset of the channels.                                  *)
(***************************************************************************)
EXTENDS Handlers

CONSTANTS Requested,   \* the sets of channels a notification asks for
          maxRetries   \* attempts of a job

VARIABLES status,      \* the notification's; "absent" before it is created
          jobs,        \* of each channel
          logs         \* delivery logs of each channel, counted by their status

vars == <<handlers, status, jobs, logs>>

Channels == UNION Requested

NotificationStatus == {"pending", "processing", "sent", "failed"}
DeliveryStatus == {"pending", "sent", "failed"}
Devices == 2  \* of the user, for push

NoJob == [state |-> "none", made |-> 0, stalled |-> FALSE]

Rest == /\ status = "absent"
        /\ jobs = [c \in Channels |-> NoJob]
        /\ logs = [c \in Channels |-> [s \in DeliveryStatus |-> 0]]

(* Rejected calls are looked at with one handler at a time.                *)
Apart == ~(overlap /\ faulty)

Init == HandlersInit /\ Apart /\ Rest

updateNotificationStatus(s) == status' = s
-----------------------------------------------------------------------------
createNotification(p, channels) ==
    /\ status = "absent"
    /\ Request(p, "preferences", [todo |-> channels])
    /\ status' = "pending"
    /\ UNCHANGED <<jobs, logs>>

getUserPreferences(p, enabled) ==
    /\ pc[p] = "preferences"
    /\ enabled \subseteq run[p].todo
    /\ GotoWith(p, "processing", [todo |-> enabled])
    /\ UNCHANGED <<status, jobs, logs>>

markProcessing(p) ==
    /\ pc[p] = "processing"
    /\ updateNotificationStatus("processing")
    /\ Goto(p, "queue")
    /\ UNCHANGED <<jobs, logs>>

(* A slip in queueNotification: once all are queued it writes "processing".*)
QueueThenMark(p) ==
    /\ pc[p] = "queue"
    /\ IF run[p].todo = {} THEN End(p) /\ status' = "processing" /\ UNCHANGED jobs
       ELSE \E c \in run[p].todo :
               /\ jobs' = [jobs EXCEPT ![c].state = "waiting"]
               /\ GotoWith(p, "queue", [todo |-> run[p].todo \ {c}])
               /\ UNCHANGED status
    /\ UNCHANGED logs

queueNotification(p) ==
    /\ pc[p] = "queue"
    /\ IF run[p].todo = {} THEN End(p) /\ UNCHANGED jobs
       ELSE \E c \in run[p].todo :
               /\ jobs' = [jobs EXCEPT ![c].state = "waiting"]
               /\ GotoWith(p, "queue", [todo |-> run[p].todo \ {c}])
    /\ UNCHANGED <<status, logs>>

(* A call of processNotification is rejected: it is caught, and written.   *)
processingFails(p) ==
    /\ faulty
    /\ pc[p] \in {"preferences", "processing", "queue"}
    /\ Goto(p, "unprocessed")
    /\ UNCHANGED <<status, jobs, logs>>

markUnprocessed(p) ==
    /\ pc[p] = "unprocessed"
    /\ \/ updateNotificationStatus("failed")
       \/ faulty /\ UNCHANGED status
    /\ End(p)
    /\ UNCHANGED <<jobs, logs>>
-----------------------------------------------------------------------------
(* A worker takes a job of channel c.                                      *)
process(p, c) ==
    /\ pc[p] = "idle"
    /\ overlap \/ Idle
    /\ jobs[c].state = "waiting"
    /\ jobs' = [jobs EXCEPT ![c].state = "active"]
    /\ GotoWith(p, IF c = "in-app" THEN "send" ELSE "log",
                [channel |-> c, device |-> 1, ok |-> TRUE])
    /\ UNCHANGED <<status, logs>>

Channel(p) == run[p].channel
MoreDevices(p) == Channel(p) = "push" /\ run[p].device < Devices

(* What follows a device of a push, or the one send of the others.         *)
NextSend(p) ==
    IF MoreDevices(p) THEN GotoWith(p, "log", [run[p] EXCEPT !.device = @ + 1])
                      ELSE Goto(p, "sent")

HasLog(p, s) == logs[Channel(p)][s] > 0

(* A log of p's channel goes from one status to another.                   *)
Moved(log, from, to) == IF from = to THEN log ELSE [log EXCEPT ![from] = @ - 1, ![to] = @ + 1]

updateLog(p, from, to) == logs' = [logs EXCEPT ![Channel(p)] = Moved(@, from, to)]

saveLog(p) ==
    /\ pc[p] = "log"
    /\ logs' = [logs EXCEPT ![Channel(p)]["pending"] = @ + 1]
    /\ Goto(p, "send")
    /\ UNCHANGED <<status, jobs>>

(* The provider accepts the message or not.  A device that push cannot     *)
(* reach is logged, and the others are tried.                              *)
send(p, accepted) ==
    /\ pc[p] = "send"
    /\ IF Channel(p) # "push" /\ ~accepted
       THEN Goto(p, IF Channel(p) = "in-app" THEN "failed" ELSE "findLog")
       ELSE IF Channel(p) = "in-app" THEN Goto(p, "sent")
       ELSE GotoWith(p, "mark", [run[p] EXCEPT !.ok = accepted])
    /\ UNCHANGED <<status, jobs, logs>>

markLog(p) ==
    /\ pc[p] = "mark"
    /\ updateLog(p, "pending", IF run[p].ok THEN "sent" ELSE "failed")
    /\ NextSend(p)
    /\ UNCHANGED <<status, jobs>>

markSent(p) ==
    /\ pc[p] = "sent"
    /\ updateNotificationStatus("sent")
    /\ jobs' = [jobs EXCEPT ![Channel(p)].state = "completed"]
    /\ End(p)
    /\ UNCHANGED logs

(* The failure is written to a log of the channel, whichever attempt's it  *)
(* is.                                                                     *)
findLog(p) ==
    /\ pc[p] = "findLog"
    /\ \E s \in DeliveryStatus : HasLog(p, s) /\ updateLog(p, s, "failed")
    /\ Goto(p, "failed")
    /\ UNCHANGED <<status, jobs>>

(* The job failed: Bull tries it again until its attempts are used up.     *)
Rethrow(p) ==
    /\ jobs' = [jobs EXCEPT ![Channel(p)].made = @ + 1,
                            ![Channel(p)].state =
                                IF jobs[Channel(p)].made + 1 < maxRetries THEN "waiting"
                                                                          ELSE "failed"]
    /\ End(p)

markFailed(p) ==
    /\ pc[p] = "failed"
    /\ updateNotificationStatus("failed")
    /\ Rethrow(p)
    /\ UNCHANGED logs

(* A call of the database is rejected: in the body it is caught, and for a *)
(* device of a push by the device's own catch block first; in the catch    *)
(* block it ends the attempt.                                              *)
jobFails(p) ==
    /\ faulty
    /\ \/ /\ pc[p] \in {"log", "mark", "sent"}
          /\ IF pc[p] = "mark" /\ Channel(p) = "push" /\ run[p].ok
             THEN GotoWith(p, "mark", [run[p] EXCEPT !.ok = FALSE])
             ELSE IF Channel(p) \notin {"push", "in-app"} /\ \E s \in DeliveryStatus : HasLog(p, s)
             THEN Goto(p, "findLog")
             ELSE Goto(p, "failed")
          /\ UNCHANGED jobs
       \/ pc[p] \in {"findLog", "failed"} /\ Rethrow(p)
    /\ UNCHANGED <<status, logs>>

(* The process dies in a handler.  A request is lost; a job is handed out  *)
(* once more by Bull, and given up the second time.                        *)
crash(p) ==
    /\ faulty
    /\ pc[p] # "idle"
    /\ End(p)
    /\ IF "channel" \in DOMAIN run[p]
       THEN jobs' = [jobs EXCEPT ![Channel(p)].stalled = TRUE,
                                 ![Channel(p)].state =
                                    IF jobs[Channel(p)].stalled THEN "failed" ELSE "waiting"]
       ELSE UNCHANGED jobs
    /\ UNCHANGED <<status, logs>>
-----------------------------------------------------------------------------
Next == \E p \in Procs :
            \/ \E channels \in Requested : createNotification(p, channels)
            \/ \E enabled \in SUBSET Channels : getUserPreferences(p, enabled)
            \/ markProcessing(p)
            \/ queueNotification(p)
            \/ processingFails(p)
            \/ markUnprocessed(p)
            \/ \E c \in Channels : process(p, c)
            \/ saveLog(p)
            \/ \E accepted \in BOOLEAN : send(p, accepted)
            \/ markLog(p)
            \/ markSent(p)
            \/ findLog(p)
            \/ markFailed(p)
            \/ jobFails(p)
            \/ crash(p)

Spec == Init /\ [][Next]_vars
-----------------------------------------------------------------------------
TypeOK ==
    /\ status \in NotificationStatus \cup {"absent"}
    /\ jobs \in [Channels -> [state : {"none", "waiting", "active", "completed", "failed"},
                              made : 0..maxRetries, stalled : BOOLEAN]]
    /\ logs \in [Channels -> [DeliveryStatus -> 0..Devices * (maxRetries + 2)]]

(* When all is done the status tells what the channels' jobs came to, in   *)
(* whichever order they ended and were tried again: sent if one was, and   *)
(* failed if one was not.  No write of the request comes after theirs.     *)
StatusMatchesJobs ==
    /\ ~faulty /\ Idle /\ (\E c \in Channels : jobs[c].state # "none")
    /\ (\A c \in Channels : jobs[c].state # "waiting")
    => \/ status = "sent" /\ \E c \in Channels : jobs[c].state = "completed"
       \/ status = "failed" /\ \E c \in Channels : jobs[c].state = "failed"
=============================================================================
