--------------------------- MODULE BlockchainEvents ---------------------------
(***************************************************************************)
(* The processing of stored events: EventProcessorService behind its       *)
(* circuit breaker, the event-processing queue that runs it, the status    *)
(* updates of BlockchainEventService (each reads a row, changes its copy   *)
(* and saves the whole copy), and the operator's calls.                    *)
(***************************************************************************)
EXTENDS Naturals, FiniteSets

CONSTANTS Events,
          Procs,         \* the runs and requests in flight at a time
          maxRetries,    \* of a row: attempts of its job, failures it is allowed
          EditStatuses,  \* the statuses an operator's update is sent with
          MaxRequests,   \* bound: calls of operators
          MaxFaults      \* bound: timeouts of the breaker, crashes

EventStatus == {"pending", "processing", "processed", "failed", "dead_letter"}

ASSUME ConstantsAssumption ==
    /\ Events # {}
    /\ IsFiniteSet(Procs)
    /\ maxRetries \in Nat \ {0}
    /\ EditStatuses \subseteq EventStatus
    /\ MaxRequests \in Nat
    /\ MaxFaults \in Nat

VARIABLES faulty,     \* may calls fail, time out, and the process die?
          row,        \* status and retryCount of each event
          created,    \* events emitted but not yet queued
          jobs,       \* waiting jobs of each event, by attempts left
          breaker,    \* "testing": half open, with its one call in flight
          pc,         \* where each run or request stands
          run,        \* its event, attempts left, copy, and is it given up?
          handled,    \* history: how often an event was acted on,
          failures,   \* its processing failed,
          resets,     \* and it was set to pending again
          timeouts,   \* timeouts so far
          requests, crashes

store == <<row, created, jobs>>
history == <<handled, failures, resets>>
bounds == <<timeouts, requests, crashes>>
vars == <<faulty, store, breaker, pc, run, history, bounds>>

NoRun(e) == [event |-> e, left |-> 0, copy |-> [status |-> "absent", retryCount |-> 0],
             alone |-> FALSE]
SomeEvent == CHOOSE e \in Events : TRUE

Init == /\ faulty \in BOOLEAN
        /\ row = [e \in Events |-> [status |-> "absent", retryCount |-> 0]]
        /\ created = {}
        /\ jobs = [e \in Events |-> [k \in 1..maxRetries |-> 0]]
        /\ breaker = "closed"
        /\ pc = [p \in Procs |-> "idle"]
        /\ run = [p \in Procs |-> NoRun(SomeEvent)]
        /\ handled = [e \in Events |-> 0]
        /\ failures = [e \in Events |-> 0]
        /\ resets = [e \in Events |-> 0]
        /\ timeouts = 0 /\ requests = 0 /\ crashes = 0

Goto(p, label) == pc' = [pc EXCEPT ![p] = label]
End(p) == Goto(p, "idle") /\ run' = [run EXCEPT ![p] = NoRun(SomeEvent)]
Step(p, from, to) == pc[p] = from /\ Goto(p, to)
Event(p) == run[p].event
AddJob(e, k) == jobs' = [jobs EXCEPT ![e][k] = @ + 1]
-----------------------------------------------------------------------------
(* createEvent saves the row and emits; handleEventCreated queues the job, *)
(* and swallows an error of the queue.                                     *)
createEvent(e) ==
    /\ row[e].status = "absent"
    /\ row' = [row EXCEPT ![e].status = "pending"]
    /\ created' = created \cup {e}
    /\ UNCHANGED <<faulty, jobs, breaker, pc, run, history, bounds>>

(* A slip in handleEventCreated: nothing is queued.                        *)
AddNone(e) ==
    /\ e \in created
    /\ created' = created \ {e}
    /\ UNCHANGED <<faulty, row, jobs, breaker, pc, run, history, bounds>>

handleEventCreated(e) ==
    /\ e \in created
    /\ created' = created \ {e}
    /\ \/ AddJob(e, maxRetries)
       \/ faulty /\ UNCHANGED jobs
    /\ UNCHANGED <<faulty, row, breaker, pc, run, history, bounds>>

(* The job fails: Bull runs it again as long as it has attempts left.      *)
Retried(e, k) == IF k > 1 THEN AddJob(e, k - 1) ELSE UNCHANGED jobs

(* A failure may open the breaker, depending on those of the last ten      *)
(* seconds; that of its one call in the half-open state does.              *)
BreakerFails == breaker' \in IF breaker = "testing" THEN {"open"} ELSE {breaker, "open"}

(* circuitBreaker.fire: when it is open, or half open with its call in     *)
(* flight, the job fails at once.                                          *)
fire(p, e, k) ==
    /\ pc[p] = "idle"
    /\ jobs[e][k] > 0
    /\ breaker \in {"closed", "halfOpen"}
    /\ jobs' = [jobs EXCEPT ![e][k] = @ - 1]
    /\ breaker' = IF breaker = "halfOpen" THEN "testing" ELSE breaker
    /\ Goto(p, "read")
    /\ run' = [run EXCEPT ![p] = [NoRun(e) EXCEPT !.left = k]]
    /\ UNCHANGED <<faulty, row, created, history, bounds>>

rejectJob(e, k) ==
    /\ jobs[e][k] > 0
    /\ breaker \in {"open", "testing"}
    /\ jobs' = [jobs EXCEPT ![e] = [i \in 1..maxRetries |->
                   @[i] - (IF i = k THEN 1 ELSE 0) + (IF i = k - 1 THEN 1 ELSE 0)]]
    /\ UNCHANGED <<faulty, row, created, breaker, pc, run, history, bounds>>

(* resetTimeout.                                                           *)
resetBreaker ==
    /\ breaker = "open"
    /\ breaker' = "halfOpen"
    /\ UNCHANGED <<faulty, store, pc, run, history, bounds>>

(* The run ends, and with it the job, unless it was given up before.       *)
Succeed(p) == /\ End(p)
              /\ breaker' = IF breaker = "testing" /\ ~run[p].alone THEN "closed" ELSE breaker
              /\ UNCHANGED jobs

Fail(p) == /\ End(p)
           /\ IF run[p].alone THEN UNCHANGED <<jobs, breaker>>
              ELSE Retried(Event(p), run[p].left) /\ BreakerFails
-----------------------------------------------------------------------------
(* A slip in processEventInternal: an event that failed is processed too.  *)
ReadUnprocessed(p) ==
    /\ pc[p] = "read"
    /\ IF row[Event(p)].status \in {"pending", "processing", "failed"}
       THEN Goto(p, "mark") /\ UNCHANGED <<run, jobs, breaker>>
       ELSE Succeed(p)
    /\ UNCHANGED <<faulty, row, created, history, bounds>>

(* processEventInternal: an event that is not pending is left alone, and   *)
(* the job counts as done.                                                 *)
getEventById(p) ==
    /\ pc[p] = "read"
    /\ IF row[Event(p)].status = "pending"
       THEN Goto(p, "mark") /\ UNCHANGED <<run, jobs, breaker>>
       ELSE Succeed(p)
    /\ UNCHANGED <<faulty, row, created, history, bounds>>

(* updateEvent reads the row; its save writes the whole copy.              *)
readCopy(p) ==
    /\ \/ Step(p, "mark", "saveProcessing")
       \/ Step(p, "done", "saveProcessed")
    /\ run' = [run EXCEPT ![p].copy = row[Event(p)]]
    /\ UNCHANGED <<faulty, store, breaker, history, bounds>>

saveProcessing(p) ==
    /\ Step(p, "saveProcessing", "handle")
    /\ row' = [row EXCEPT ![Event(p)] = [run[p].copy EXCEPT !.status = "processing"]]
    /\ UNCHANGED <<faulty, created, jobs, breaker, run, history, bounds>>

(* processEventByType.                                                     *)
processEventByType(p) ==
    /\ Step(p, "handle", "done")
    /\ handled' = [handled EXCEPT ![Event(p)] = @ + 1]
    /\ UNCHANGED <<faulty, store, breaker, run, failures, resets, bounds>>

markAsProcessed(p) ==
    /\ pc[p] = "saveProcessed"
    /\ row' = [row EXCEPT ![Event(p)] = [run[p].copy EXCEPT !.status = "processed"]]
    /\ Succeed(p)
    /\ UNCHANGED <<faulty, created, history, bounds>>

(* An error of the handler, or of markAsProcessed, leads to markAsFailed.  *)
throwHandling(p) ==
    /\ faulty
    /\ pc[p] \in {"handle", "done", "saveProcessed"}
    /\ Goto(p, "failed")
    /\ failures' = [failures EXCEPT ![Event(p)] = @ + 1]
    /\ UNCHANGED <<faulty, store, breaker, run, handled, resets, bounds>>

(* A slip in markAsFailed: the first failure counts twice.                 *)
CountTwice(p) ==
    LET count == row[Event(p)].retryCount + 2 IN
    /\ Step(p, "failed", "saveFailed")
    /\ run' = [run EXCEPT ![p].copy =
                  [status |-> IF count >= maxRetries THEN "dead_letter" ELSE "failed",
                   retryCount |-> count]]
    /\ UNCHANGED <<faulty, store, breaker, history, bounds>>

(* markAsFailed reads the retry count; its updateEvent writes both columns. *)
markAsFailed(p) ==
    LET count == row[Event(p)].retryCount + 1 IN
    /\ Step(p, "failed", "saveFailed")
    /\ run' = [run EXCEPT ![p].copy =
                  [status |-> IF count >= maxRetries THEN "dead_letter" ELSE "failed",
                   retryCount |-> count]]
    /\ UNCHANGED <<faulty, store, breaker, history, bounds>>

saveFailed(p) ==
    /\ pc[p] = "saveFailed"
    /\ row' = [row EXCEPT ![Event(p)] = run[p].copy]
    /\ IF run[p].alone THEN UNCHANGED <<jobs, breaker>>
       ELSE Retried(Event(p), run[p].left) /\ BreakerFails
    /\ End(p)
    /\ UNCHANGED <<faulty, created, history, bounds>>

(* An error of the reads, of the first save or of markAsFailed itself.     *)
throw(p) ==
    /\ faulty
    /\ pc[p] \in {"read", "mark", "saveProcessing", "failed", "saveFailed"}
    /\ Fail(p)
    /\ UNCHANGED <<faulty, row, created, history, bounds>>

(* After 30 seconds the breaker gives the run up and the job fails, but    *)
(* the run goes on.                                                        *)
timeout(p) ==
    /\ faulty
    /\ timeouts < MaxFaults
    /\ pc[p] \in {"read", "mark", "saveProcessing", "handle", "done", "saveProcessed",
                  "failed", "saveFailed"}
    /\ ~run[p].alone
    /\ timeouts' = timeouts + 1
    /\ run' = [run EXCEPT ![p].alone = TRUE]
    /\ Retried(Event(p), run[p].left)
    /\ BreakerFails
    /\ UNCHANGED <<faulty, row, created, pc, history, requests, crashes>>

(* The process dies while it runs a job, and Bull runs the job again.      *)
crash(p) ==
    /\ faulty
    /\ crashes < MaxFaults
    /\ \A q \in Procs : (pc[q] # "idle") <=> (q = p)
    /\ crashes' = crashes + 1
    /\ created' = {}
    /\ breaker' = "closed"
    /\ End(p)
    /\ IF run[p].left > 0 /\ ~run[p].alone THEN AddJob(Event(p), run[p].left)
       ELSE UNCHANGED jobs
    /\ UNCHANGED <<faulty, row, history, timeouts, requests>>
-----------------------------------------------------------------------------
Request(p, e, label, copy) ==
    /\ pc[p] = "idle"
    /\ requests < MaxRequests
    /\ requests' = requests + 1
    /\ run' = [run EXCEPT ![p] = [NoRun(e) EXCEPT !.copy = copy]]
    /\ Goto(p, label)
    /\ UNCHANGED <<faulty, store, breaker, history, timeouts, crashes>>

(* The operator's retry: the status is checked, then both columns are      *)
(* reset, and then a job with a single attempt is added.                   *)
retryDeadLetterEvent(p, e) ==
    /\ row[e].status = "dead_letter"
    /\ Request(p, e, "saveReset", [status |-> "pending", retryCount |-> 0])

(* The operator's update of an event, with a status or without.            *)
updateEvent(p, e) ==
    /\ row[e].status # "absent"
    /\ \E s \in {row[e].status} \cup EditStatuses :
          Request(p, e, "saveEdit", [row[e] EXCEPT !.status = s])

saveRequested(p) ==
    /\ pc[p] \in {"saveReset", "saveEdit"}
    /\ row' = [row EXCEPT ![Event(p)] = run[p].copy]
    /\ resets' = [resets EXCEPT ![Event(p)] =
                     IF run[p].copy.status = "pending" THEN @ + 1 ELSE @]
    /\ IF pc[p] = "saveReset" THEN Goto(p, "queueReset") /\ UNCHANGED run ELSE End(p)
    /\ UNCHANGED <<faulty, created, jobs, breaker, handled, failures, bounds>>

queueReset(p) ==
    /\ pc[p] = "queueReset"
    /\ \/ AddJob(Event(p), 1)
       \/ faulty /\ UNCHANGED jobs
    /\ End(p)
    /\ UNCHANGED <<faulty, row, created, breaker, history, bounds>>
-----------------------------------------------------------------------------
Continue(p) == \/ getEventById(p)
               \/ readCopy(p)
               \/ saveProcessing(p)
               \/ processEventByType(p)
               \/ markAsProcessed(p)
               \/ throwHandling(p)
               \/ markAsFailed(p)
               \/ saveFailed(p)
               \/ throw(p)
               \/ saveRequested(p)
               \/ queueReset(p)

TakeJob(p) == \E e \in Events, k \in 1..maxRetries : fire(p, e, k)

Next == \/ resetBreaker
        \/ \E e \in Events : createEvent(e) \/ handleEventCreated(e)
        \/ \E e \in Events, k \in 1..maxRetries : rejectJob(e, k)
        \/ \E p \in Procs : TakeJob(p) \/ Continue(p) \/ timeout(p) \/ crash(p)
        \/ \E p \in Procs, e \in Events : retryDeadLetterEvent(p, e) \/ updateEvent(p, e)

(* A created event is queued, a free worker takes a waiting job, and a run *)
(* whose calls return goes on.                                             *)
Fairness == /\ \A e \in Events : WF_vars(handleEventCreated(e))
            /\ \A p \in Procs : WF_vars(Continue(p)) /\ SF_vars(TakeJob(p))

Spec == Init /\ [][Next]_vars
FairSpec == Spec /\ Fairness
-----------------------------------------------------------------------------
(* An event goes to the dead letters only after maxRetries of its attempts *)
(* failed: refusals of the open breaker, time outs and lost updates of     *)
(* the count never get it there sooner, nor count more than what failed.   *)
DeadLetterIsExhausted == \A e \in Events :
    /\ row[e].retryCount <= failures[e]
    /\ row[e].status = "dead_letter" => failures[e] >= maxRetries

(* An event is acted on once: no retry of the queue repeats it, nor does   *)
(* the job that runs again after the process died, as long as no run       *)
(* outlives its time out.  Each time it is set to pending again it may be  *)
(* acted on once more; from then on each crash may leave a job beside the  *)
(* one of a retried dead letter, and both may read it as pending.          *)
HandledOncePerReset == timeouts = 0 => \A e \in Events :
    handled[e] <= 1 + resets[e] + (IF resets[e] = 0 THEN 0 ELSE crashes)

(* When nothing fails a created event is acted on.                         *)
CreatedGetsHandled ==
    \A e \in Events : e \in created ~> handled[e] > 0 \/ faulty
=============================================================================
