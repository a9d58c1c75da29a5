--------------------------------- MODULE Saga ---------------------------------
(***************************************************************************)
(* SagaOrchestratorService and TransactionService for one idempotency key. *)
(* No module of the application provides them and nothing consumes the     *)
(* jobs of saga-processing: the consumers here are external, executeSaga   *)
(* for execute-saga and one that carries out a step for execute-step.      *)
(*                                                                         *)
(* Status columns are updated in place, except by updateTransaction, which *)
(* saves a whole copy, and by executeStep, which saves the step it read.   *)
(***************************************************************************)
EXTENDS Naturals

CONSTANTS Last,        \* the steps of the saga's definition are 1..Last
          Procs,       \* the handlers that can be in flight at a time
          maxRetries,
          MaxRequests, \* bound: retries, cancellations and clean-ups,
          MaxOverlapping \* and of those when handlers may overlap

ASSUME ConstantsAssumption == Last \in Nat /\ maxRetries \in Nat

Steps == 1..Last

VARIABLES overlap,      \* may handlers overlap?
          faulty,       \* may calls be rejected and the process die?
          status,       \* of the transaction; "absent": not inserted yet
          retryCount,
          step,         \* the status of each step
          sagaJobs,     \* waiting execute-saga jobs
          stepJobs,     \* waiting execute-step jobs of each step
          pc, run,      \* each handler: where it stands, its step and copies
          queued,       \* history: the steps that were queued,
          carriedOut,   \* those carried out,
          compensated,  \* those whose compensation was queued,
          executions,   \* and how often the saga was executed
          requests

setting == <<overlap, faulty>>
rows == <<status, retryCount, step>>
queue == <<sagaJobs, stepJobs>>
history == <<queued, carriedOut, compensated, executions>>
vars == <<setting, rows, queue, pc, run, history, requests>>

(* copies: the steps as executeSaga read them; status and retryCount as    *)
(* updateTransaction did.                                                  *)
NoRun == [at |-> 0, copies |-> [i \in Steps |-> "pending"],
          status |-> "absent", retryCount |-> 0]

Init == /\ overlap \in BOOLEAN
        /\ faulty \in BOOLEAN
        /\ status = "absent"
        /\ retryCount = 0
        /\ step = [i \in Steps |-> "pending"]
        /\ sagaJobs = 0
        /\ stepJobs = [i \in Steps |-> 0]
        /\ pc = [p \in Procs |-> "idle"]
        /\ run = [p \in Procs |-> NoRun]
        /\ queued = {}
        /\ carriedOut = {}
        /\ compensated = {}
        /\ executions = 0
        /\ requests = 0

Goto(p, label) == pc' = [pc EXCEPT ![p] = label]
Move(p, from, to) == pc[p] = from /\ Goto(p, to)
End(p) == Goto(p, "idle") /\ run' = [run EXCEPT ![p] = NoRun]
MayStart(p) == pc[p] = "idle" /\ (overlap \/ \A q \in Procs : pc[q] = "idle")

Request(p, label) == /\ MayStart(p)
                     /\ requests < IF overlap THEN MaxOverlapping ELSE MaxRequests
                     /\ requests' = requests + 1
                     /\ Goto(p, label)
-----------------------------------------------------------------------------
(* A slip in startSaga: the saga of a known key is queued again.           *)
QueueKnown(p) ==
    /\ MayStart(p)
    /\ Goto(p, IF status = "absent" THEN "insert" ELSE "queueSaga")
    /\ UNCHANGED <<setting, rows, queue, run, history, requests>>

(* startSaga: if there is a transaction with this key, it is returned.     *)
startSaga(p) ==
    /\ MayStart(p)
    /\ status = "absent"
    /\ Goto(p, "insert")
    /\ UNCHANGED <<setting, rows, queue, run, history, requests>>

(* The transaction and its steps are committed together.  The key is       *)
(* unique: the second of two requests fails.                               *)
insert(p) ==
    /\ pc[p] = "insert"
    /\ IF status = "absent"
       THEN status' = "pending" /\ Goto(p, "queueSaga") /\ UNCHANGED run
       ELSE End(p) /\ UNCHANGED status
    /\ UNCHANGED <<setting, retryCount, step, queue, history, requests>>

(* If this fails, the roll back of what is committed fails as well, and    *)
(* the transaction stays, pending.                                         *)
queueSaga(p) ==
    /\ pc[p] = "queueSaga"
    /\ \/ sagaJobs' = sagaJobs + 1
       \/ faulty /\ UNCHANGED sagaJobs
    /\ End(p)
    /\ UNCHANGED <<setting, rows, stepJobs, history, requests>>

(* The consumer of execute-saga calls executeSaga.                         *)
takeSaga(p) ==
    /\ MayStart(p)
    /\ sagaJobs > 0
    /\ sagaJobs' = sagaJobs - 1
    /\ Goto(p, "readSteps")
    /\ UNCHANGED <<setting, rows, stepJobs, run, history, requests>>

(* retryFailedSaga looks at the retry count alone, not at the status.      *)
retryFailedSaga(p) ==
    /\ status # "absent"
    /\ retryCount < maxRetries
    /\ Request(p, "countRetry")
    /\ run' = [run EXCEPT ![p].retryCount = retryCount + 1]
    /\ UNCHANGED <<setting, rows, queue, history>>

countRetry(p) ==
    /\ Move(p, "countRetry", "resetSteps")
    /\ retryCount' = run[p].retryCount
    /\ status' = "pending"
    /\ UNCHANGED <<setting, step, queue, run, history, requests>>

resetSteps(p) ==
    /\ Move(p, "resetSteps", "readSteps")
    /\ step' = [i \in Steps |-> IF step[i] = "failed" THEN "pending" ELSE step[i]]
    /\ UNCHANGED <<setting, status, retryCount, queue, run, history, requests>>
-----------------------------------------------------------------------------
(* executeSaga reads the steps once and goes through its copies.           *)
readSteps(p) ==
    /\ Move(p, "readSteps", "begin")
    /\ run' = [run EXCEPT ![p].copies = step]
    /\ UNCHANGED <<setting, rows, queue, history, requests>>

(* The next step after i to be executed: none that was read as completed.  *)
Following(p, i) ==
    LET open == {j \in Steps : j > i /\ run[p].copies[j] # "completed"}
    IN  IF open = {} THEN Last + 1 ELSE CHOOSE j \in open : \A k \in open : j <= k

ToStep(p, i) == /\ run' = [run EXCEPT ![p].at = i]
                /\ Goto(p, IF i > Last THEN "complete" ELSE "stepPending")

begin(p) ==
    /\ pc[p] = "begin"
    /\ status' = "processing"
    /\ executions' = executions + 1
    /\ ToStep(p, Following(p, 0))
    /\ UNCHANGED <<setting, retryCount, step, queue, queued, carriedOut, compensated, requests>>

stepPending(p) ==
    /\ Move(p, "stepPending", "saveStep")
    /\ step' = [step EXCEPT ![run[p].at] = "pending"]
    /\ UNCHANGED <<setting, status, retryCount, queue, run, history, requests>>

(* The save of the step read at the start writes its status back.          *)
saveStep(p) ==
    /\ Move(p, "saveStep", "queueStep")
    /\ step' = [step EXCEPT ![run[p].at] = run[p].copies[run[p].at]]
    /\ UNCHANGED <<setting, status, retryCount, queue, run, history, requests>>

(* A slip in executeStep: an error of the queue is swallowed.              *)
QueueQuietly(p) ==
    LET i == run[p].at IN
    /\ pc[p] = "queueStep"
    /\ \/ stepJobs' = [stepJobs EXCEPT ![i] = @ + 1] /\ queued' = queued \cup {i}
       \/ faulty /\ UNCHANGED <<stepJobs, queued>>
    /\ ToStep(p, Following(p, i))
    /\ UNCHANGED <<setting, rows, sagaJobs, carriedOut, compensated, executions, requests>>

queueStep(p) ==
    LET i == run[p].at IN
    /\ pc[p] = "queueStep"
    /\ stepJobs' = [stepJobs EXCEPT ![i] = @ + 1]
    /\ queued' = queued \cup {i}
    /\ ToStep(p, Following(p, i))
    /\ UNCHANGED <<setting, rows, sagaJobs, carriedOut, compensated, executions, requests>>

(* A slip in executeSaga: a saga that no longer is pending is not          *)
(* completed.                                                              *)
CompletePending(p) ==
    /\ pc[p] = "complete"
    /\ status' = IF status = "pending" THEN "completed" ELSE status
    /\ End(p)
    /\ UNCHANGED <<setting, retryCount, step, queue, history, requests>>

(* The saga is completed when its steps are queued.                        *)
complete(p) ==
    /\ pc[p] = "complete"
    /\ status' = "completed"
    /\ End(p)
    /\ UNCHANGED <<setting, retryCount, step, queue, history, requests>>

(* A consumer of execute-step carries the step out and completes it.       *)
carryOutStep(i) ==
    /\ stepJobs[i] > 0
    /\ stepJobs' = [stepJobs EXCEPT ![i] = @ - 1]
    /\ carriedOut' = carriedOut \cup {i}
    /\ step' = [step EXCEPT ![i] = "completed"]
    /\ UNCHANGED <<setting, status, retryCount, sagaJobs, pc, run, queued, compensated,
                   executions, requests>>

(* A rejected call: of executeStep's three it fails the step first; all    *)
(* lead to compensateSaga.                                                 *)
executionFails(p) ==
    /\ faulty
    /\ pc[p] \in {"begin", "stepPending", "saveStep", "queueStep", "complete"}
    /\ \/ /\ pc[p] \in {"stepPending", "saveStep", "queueStep"}
          /\ step' = [step EXCEPT ![run[p].at] = "failed"]
       \/ UNCHANGED step
    /\ Goto(p, "compensating")
    /\ UNCHANGED <<setting, status, retryCount, queue, run, history, requests>>

(* A slip in compensateSaga: it compensates every step it read.            *)
AllSteps(p, i) == {j \in Steps : j < i}

(* The steps before i that were completed when they were read.             *)
CompletedBefore(p, i) == {j \in Steps : j < i /\ run[p].copies[j] = "completed"}

ToCompensation(p, i) ==
    LET before == CompletedBefore(p, i)
    IN  /\ run' = [run EXCEPT ![p].at = IF before = {} THEN 0
                       ELSE CHOOSE j \in before : \A k \in before : k <= j]
        /\ Goto(p, IF before = {} THEN "compensated" ELSE "compensateStep")

compensateSaga(p) ==
    /\ pc[p] = "compensating"
    /\ status' = "compensating"
    /\ ToCompensation(p, Last + 1)
    /\ UNCHANGED <<setting, retryCount, step, queue, history, requests>>

(* In reverse order; nothing consumes the job.                             *)
compensateStep(p) ==
    /\ pc[p] = "compensateStep"
    /\ compensated' = compensated \cup {run[p].at}
    /\ ToCompensation(p, run[p].at)
    /\ UNCHANGED <<setting, rows, queue, queued, carriedOut, executions, requests>>

endCompensation(p) ==
    /\ pc[p] = "compensated"
    /\ \/ status' = "compensated"
       \/ faulty /\ status' = "failed"
    /\ End(p)
    /\ UNCHANGED <<setting, retryCount, step, queue, history, requests>>

(* A rejected call of the compensation fails the saga.                     *)
compensationFails(p) ==
    /\ faulty
    /\ pc[p] \in {"compensating", "compensateStep"}
    /\ status' = "failed"
    /\ End(p)
    /\ UNCHANGED <<setting, retryCount, step, queue, history, requests>>
-----------------------------------------------------------------------------
(* A slip in cancelTransaction: a completed one is not refused.            *)
CancelCompleted(p) ==
    /\ status \notin {"absent", "compensated"}
    /\ Request(p, "readForUpdate")
    /\ UNCHANGED <<setting, rows, queue, run, history>>

(* cancelTransaction checks one read and updates another.                  *)
cancelTransaction(p) ==
    /\ status \notin {"absent", "completed", "compensated"}
    /\ Request(p, "readForUpdate")
    /\ UNCHANGED <<setting, rows, queue, run, history>>

(* The transaction was listed as pending and expired.                      *)
cleanupExpiredTransactions(p) ==
    /\ status = "pending"
    /\ Request(p, "readForUpdate")
    /\ UNCHANGED <<setting, rows, queue, run, history>>

readForUpdate(p) ==
    /\ Move(p, "readForUpdate", "saveCancelled")
    /\ run' = [run EXCEPT ![p].status = status, ![p].retryCount = retryCount]
    /\ UNCHANGED <<setting, rows, queue, history, requests>>

saveCancelled(p) ==
    /\ pc[p] = "saveCancelled"
    /\ status' = "cancelled"
    /\ retryCount' = run[p].retryCount
    /\ End(p)
    /\ UNCHANGED <<setting, step, queue, history, requests>>

(* The process dies, or a call of a handler without a catch is rejected.   *)
crash(p) ==
    /\ faulty
    /\ pc[p] # "idle"
    /\ End(p)
    /\ UNCHANGED <<setting, rows, queue, history, requests>>
-----------------------------------------------------------------------------
Continue(p) == \/ insert(p)
               \/ queueSaga(p)
               \/ countRetry(p)
               \/ resetSteps(p)
               \/ readSteps(p)
               \/ begin(p)
               \/ stepPending(p)
               \/ saveStep(p)
               \/ queueStep(p)
               \/ complete(p)
               \/ executionFails(p)
               \/ compensateSaga(p)
               \/ compensateStep(p)
               \/ endCompensation(p)
               \/ compensationFails(p)
               \/ readForUpdate(p)
               \/ saveCancelled(p)

Next == \/ \E i \in Steps : carryOutStep(i)
        \/ \E p \in Procs : \/ startSaga(p)
                            \/ takeSaga(p)
                            \/ retryFailedSaga(p)
                            \/ cancelTransaction(p)
                            \/ cleanupExpiredTransactions(p)
                            \/ Continue(p)
                            \/ crash(p)

(* Handlers whose calls return go on, and the consumers take the jobs.     *)
Fairness == /\ \A p \in Procs : WF_vars(Continue(p)) /\ SF_vars(takeSaga(p))
            /\ \A i \in Steps : WF_vars(carryOutStep(i))

Spec == Init /\ [][Next]_vars
FairSpec == Spec /\ Fairness
-----------------------------------------------------------------------------
(* A completed saga left no step out, whatever failed and was retried      *)
(* before.                                                                 *)
CompletedLeftNoneOut == status = "completed" => queued = Steps

(* Only what was carried out is compensated, however stale the copy of the *)
(* steps that compensateSaga goes through.                                 *)
CompensatedWasCarriedOut == compensated \subseteq carriedOut

(* "Maximum retry attempts exceeded": the saga is executed once and at     *)
(* most maxRetries times more, as long as handlers do not overlap; where   *)
(* they do, the count of retries still keeps to its limit.                 *)
ExecutionsBounded == /\ retryCount <= maxRetries
                     /\ ~overlap => executions <= 1 + maxRetries

(* "Cannot cancel transaction in status": a completed or compensated one   *)
(* does not become cancelled, as long as handlers do not overlap.          *)
CancelRespectsEnd == [][~overlap /\ status \in {"completed", "compensated"}
                           => status' # "cancelled"]_vars

(* A saga ends when nothing fails.                                         *)
SagaEnds == status = "pending" ~> status \in {"completed", "cancelled"} \/ faulty
=============================================================================
