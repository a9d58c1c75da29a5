------------------------ MODULE BlockchainEvents_proofs ------------------------
(***************************************************************************)
(* Theorems about BlockchainEvents for any events, runs in flight, retries *)
(* and bounds, with the breaker, time outs, crashes and operators.         *)
(***************************************************************************)
EXTENDS BlockchainEvents, TLAPS, FiniteSetTheorems

-----------------------------------------------------------------------------
(* The inductive invariant, in named parts.                                *)

RunLabels == {"read", "mark", "saveProcessing", "handle", "done", "saveProcessed",
              "failed", "saveFailed"}
SaveLabels == {"saveProcessing", "saveProcessed", "saveFailed", "saveEdit", "saveReset"}
Labels == RunLabels \cup {"idle", "saveReset", "saveEdit", "queueReset"}
Copy == [status : EventStatus \cup {"absent"}, retryCount : Nat]
Attempts == 1..maxRetries
Run == [event : Events, left : 0..maxRetries, copy : Copy, alone : BOOLEAN]

TypeOK == /\ row \in [Events -> Copy]
          /\ created \subseteq Events
          /\ jobs \in [Events -> [Attempts -> Nat]]
          /\ pc \in [Procs -> Labels]
          /\ run \in [Procs -> Run]
          /\ handled \in [Events -> Nat]
          /\ failures \in [Events -> Nat]
          /\ resets \in [Events -> Nat]
          /\ timeouts \in Nat
          /\ crashes \in Nat

At(p, e, labels) == Event(p) = e /\ pc[p] \in labels

(* Nothing happens to an event that is not created yet, and no copy undoes *)
(* the creation; a request has no attempts.                                *)
Present ==
    /\ \A e \in Events : row[e].status = "absent" =>
          /\ e \notin created
          /\ \A k \in Attempts : jobs[e][k] = 0
          /\ \A p \in Procs : At(p, e, Labels) => pc[p] = "idle"
          /\ row[e].retryCount = 0 /\ handled[e] = 0
    /\ \A p \in Procs : pc[p] \in SaveLabels => run[p].copy.status # "absent"
    /\ \A p \in Procs : pc[p] \notin RunLabels => run[p].left = 0

(* The count of a row, and the one of a copy, leaves out the runs that     *)
(* have failed and have not read the count.                                *)
FailingRun(p, e) == At(p, e, {"failed"})
Failing(e) == {p \in Procs : FailingRun(p, e)}
Counted(c, e) == /\ c.retryCount + Cardinality(Failing(e)) <= failures[e]
                 /\ c.status = "dead_letter" => failures[e] >= maxRetries
Exhausted == /\ \A e \in Events : Counted(row[e], e)
             /\ \A p \in Procs : pc[p] \in SaveLabels => Counted(run[p].copy, Event(p))

(* Until an event goes to the dead letters for the first time, one job is  *)
(* all there is: created, waiting, or in one run.                          *)
Running(p, e) == At(p, e, RunLabels)
OneJob(e) ==
    /\ \A k \in Attempts : jobs[e][k] <= 1
    /\ \A k, l \in Attempts : jobs[e][k] > 0 /\ jobs[e][l] > 0 => k = l
    /\ \A p, q \in Procs : Running(p, e) /\ Running(q, e) => p = q
    /\ \A k \in Attempts, p \in Procs : ~ (jobs[e][k] > 0 /\ Running(p, e))
    /\ e \in created => /\ \A k \in Attempts : jobs[e][k] = 0
                        /\ \A p \in Procs : ~ Running(p, e)

(* What it has left in attempts the count has not used up: the count gets  *)
(* to maxRetries with the last attempt.                                    *)
Leaves(e, n) ==
    /\ row[e].retryCount + n <= maxRetries
    /\ \A q \in Procs : At(q, e, {"saveProcessing", "saveProcessed", "saveEdit"}) =>
                            run[q].copy.retryCount + n <= maxRetries
Spared(e) ==
    /\ row[e].status = "absent" \/ e \in created => Leaves(e, maxRetries)
    /\ \A k \in Attempts : jobs[e][k] > 0 => Leaves(e, k)
    /\ \A p \in Procs : Running(p, e) => run[p].left > 0 /\ Leaves(e, run[p].left)
    /\ \A p \in Procs : At(p, e, {"saveFailed"}) =>
          LET c == run[p].copy IN
          /\ c.status \in {"failed", "dead_letter"}
          /\ c.retryCount + run[p].left <= maxRetries + 1
          /\ c.status = "dead_letter" => c.retryCount >= maxRetries

NeverDead(e) ==
    /\ row[e].status # "dead_letter"
    /\ \A p \in Procs : /\ ~ At(p, e, {"saveReset", "queueReset"})
                        /\ At(p, e, {"saveEdit"}) => run[p].copy.status # "dead_letter"

(* A job that may yet act on the event finds it acted on less often.       *)
Early == {"mark", "saveProcessing", "handle"}
Due(e) ==
    /\ handled[e] <= 1 + resets[e]
    /\ \A p \in Procs : At(p, e, Early) => handled[e] <= resets[e]
    /\ row[e].status = "pending" =>
          /\ e \in created => handled[e] <= resets[e]
          /\ \A k \in Attempts : jobs[e][k] > 0 => handled[e] <= resets[e]
          /\ \A p \in Procs : Running(p, e) => handled[e] <= resets[e]
          /\ \A p \in Procs : At(p, e, {"handle"}) => handled[e] + 1 <= resets[e]

First(e) == OneJob(e) /\ Spared(e) /\ NeverDead(e) /\ Due(e)

(* From then on a job has a single attempt, was added with a reset, and    *)
(* acts at most once unless it runs again after a crash.                   *)
GoingRun(p, e) == At(p, e, {"read", "mark", "saveProcessing", "handle", "queueReset"})
Going(e) == {p \in Procs : GoingRun(p, e)}
Slack(e) == IF resets[e] = 0 THEN 0 ELSE crashes
Later(e) ==
    /\ e \notin created /\ row[e].status # "absent"
    /\ \A k \in Attempts : k > 1 => jobs[e][k] = 0
    /\ \A p \in Procs : /\ Running(p, e) => run[p].left <= 1
                        /\ At(p, e, {"saveReset"}) => run[p].copy.status = "pending"
    /\ handled[e] + jobs[e][1] + Cardinality(Going(e)) <= 1 + resets[e] + Slack(e)
    /\ resets[e] = 0 => /\ jobs[e][1] = 0
                        /\ \A p \in Procs : ~ Running(p, e) /\ ~ GoingRun(p, e)

Acts == timeouts = 0 => /\ \A p \in Procs : ~ run[p].alone
                        /\ \A e \in Events : First(e) \/ Later(e)

NoDeadEdits == "dead_letter" \notin EditStatuses

IInv == TypeOK /\ Present /\ Exhausted /\ Acts
-----------------------------------------------------------------------------
(* What the parts of a step change.                                        *)

LEMMA SomeEventType == SomeEvent \in Events
  BY ConstantsAssumption DEF SomeEvent

LEMMA NoRunType ==
    ASSUME NEW e \in Events
    PROVE  /\ NoRun(e) \in Run
           /\ NoRun(e).event = e
           /\ NoRun(e).left = 0
           /\ ~ NoRun(e).alone
  BY ConstantsAssumption DEF NoRun, Run, Copy

LEMMA RunType ==
    ASSUME TypeOK, NEW p \in Procs
    PROVE  /\ run[p] \in Run
           /\ Event(p) \in Events
           /\ run[p].left \in 0..maxRetries
           /\ run[p].left \in Nat
           /\ run[p].copy \in Copy
           /\ run[p].copy.retryCount \in Nat
           /\ run[p].alone \in BOOLEAN
           /\ pc[p] \in Labels
  BY ConstantsAssumption DEF TypeOK, Run, Copy, Event

LEMMA RowType ==
    ASSUME TypeOK, NEW e \in Events
    PROVE  /\ row[e] \in Copy
           /\ row[e].retryCount \in Nat
           /\ row[e].status \in EventStatus \cup {"absent"}
           /\ handled[e] \in Nat
           /\ failures[e] \in Nat
           /\ resets[e] \in Nat
           /\ \A k \in Attempts : jobs[e][k] \in Nat
  BY DEF TypeOK, Copy

LEMMA AttemptsType ==
    /\ maxRetries \in Attempts /\ 1 \in Attempts /\ maxRetries \in Nat
    /\ \A k \in Attempts : k \in Nat /\ k > 0
    /\ \A k \in Attempts : k > 1 => k - 1 \in Attempts
  BY ConstantsAssumption DEF Attempts

(* Run p goes to a label; the others stand.                                *)
Moves(p, l) == /\ pc' \in [Procs -> Labels]
               /\ run' \in [Procs -> Run]
               /\ pc'[p] = l
               /\ \A q \in Procs \ {p} : pc'[q] = pc[q] /\ run'[q] = run[q]
Stand == pc' = pc /\ run' = run

LEMMA GotoEffect ==
    ASSUME TypeOK, NEW p \in Procs, NEW l \in Labels, Goto(p, l),
           \/ run' = run
           \/ \E r \in Run : run' = [run EXCEPT ![p] = r]
    PROVE  Moves(p, l)
  BY DEF TypeOK, Goto, Moves

LEMMA EndEffect ==
    ASSUME TypeOK, NEW p \in Procs, End(p)
    PROVE  Moves(p, "idle") /\ run'[p] = NoRun(SomeEvent)
  <1> DEFINE r == NoRun(SomeEvent)
  <1>1. r \in Run
    BY SomeEventType, NoRunType
  <1>2. run' = [run EXCEPT ![p] = r] /\ Goto(p, "idle")
    BY DEF End
  <1> HIDE DEF r
  <1>3. Moves(p, "idle") /\ run'[p] = r
    BY <1>1, <1>2, GotoEffect DEF Labels, TypeOK
  <1> QED
    BY <1>3 DEF r

(* The jobs after one of k attempts is added or taken.                     *)
JobsElse(e, k) == \A f \in Events, l \in Attempts :
                      f # e \/ l # k => jobs'[f][l] = jobs[f][l]
JobsType == jobs' \in [Events -> [Attempts -> Nat]]
Added(e, k) == JobsType /\ jobs'[e][k] = jobs[e][k] + 1 /\ JobsElse(e, k)
Taken(e, k) == JobsType /\ jobs'[e][k] = jobs[e][k] - 1 /\ JobsElse(e, k)

LEMMA ChangeJobs ==
    ASSUME TypeOK, NEW e \in Events, NEW k \in Attempts, NEW n \in Nat,
           jobs' = [jobs EXCEPT ![e] = [jobs[e] EXCEPT ![k] = n]]
    PROVE  JobsType /\ jobs'[e][k] = n /\ JobsElse(e, k)
  <1> DEFINE new == [jobs[e] EXCEPT ![k] = n]
  <1>1. new \in [Attempts -> Nat] /\ new[k] = n /\ \A l \in Attempts : l # k => new[l] = jobs[e][l]
    BY DEF TypeOK
  <1>2. jobs' = [jobs EXCEPT ![e] = new]
    OBVIOUS
  <1> HIDE DEF new
  <1>3. jobs' \in [Events -> [Attempts -> Nat]] /\ jobs'[e] = new
    BY <1>1, <1>2 DEF TypeOK
  <1>4. \A f \in Events : f # e => jobs'[f] = jobs[f]
    BY <1>2 DEF TypeOK
  <1> QED
    BY <1>1, <1>3, <1>4 DEF JobsType, JobsElse

LEMMA AddJobEffect ==
    ASSUME TypeOK, NEW e \in Events, NEW k \in Attempts, AddJob(e, k)
    PROVE  Added(e, k)
  <1>1. jobs[e][k] + 1 \in Nat
    BY RowType
  <1>2. jobs' = [jobs EXCEPT ![e] = [jobs[e] EXCEPT ![k] = jobs[e][k] + 1]]
    BY DEF AddJob, TypeOK
  <1> QED
    BY <1>1, <1>2, ChangeJobs DEF Added

LEMMA TakeJobEffect ==
    ASSUME TypeOK, NEW e \in Events, NEW k \in Attempts, jobs[e][k] > 0,
           jobs' = [jobs EXCEPT ![e][k] = @ - 1]
    PROVE  Taken(e, k)
  <1>1. jobs[e][k] - 1 \in Nat
    BY RowType
  <1>2. jobs' = [jobs EXCEPT ![e] = [jobs[e] EXCEPT ![k] = jobs[e][k] - 1]]
    BY DEF TypeOK
  <1> QED
    BY <1>1, <1>2, ChangeJobs DEF Taken

(* A rejected job has an attempt less, and is gone without one.            *)
Rejected(e, k) ==
    /\ JobsType
    /\ \A f \in Events : f # e => jobs'[f] = jobs[f]
    /\ \A i \in Attempts : jobs'[e][i] = IF i = k THEN jobs[e][i] - 1
                                         ELSE IF i = k - 1 THEN jobs[e][i] + 1 ELSE jobs[e][i]

LEMMA RejectEffect ==
    ASSUME TypeOK, NEW e \in Events, NEW k \in Attempts, rejectJob(e, k)
    PROVE  Rejected(e, k)
  <1> DEFINE new == [i \in Attempts |->
                        jobs[e][i] - (IF i = k THEN 1 ELSE 0) + (IF i = k - 1 THEN 1 ELSE 0)]
  <1>1. jobs' = [jobs EXCEPT ![e] = new]
    BY DEF rejectJob, Attempts, TypeOK
  <1>2. jobs[e][k] > 0
    BY DEF rejectJob
  <1>3. \A i \in Attempts : new[i] = IF i = k THEN jobs[e][i] - 1
                                    ELSE IF i = k - 1 THEN jobs[e][i] + 1 ELSE jobs[e][i]
    BY RowType, AttemptsType
  <1>4. \A i \in Attempts : new[i] \in Nat
    BY <1>2, <1>3, RowType
  <1>5. new \in [Attempts -> Nat]
    BY <1>4
  <1> HIDE DEF new
  <1>6. jobs' \in [Events -> [Attempts -> Nat]] /\ jobs'[e] = new
    BY <1>1, <1>5 DEF TypeOK
  <1>7. \A f \in Events : f # e => jobs'[f] = jobs[f]
    BY <1>1 DEF TypeOK
  <1> QED
    BY <1>3, <1>6, <1>7 DEF Rejected, JobsType

(* A failed run's job waits with an attempt less, if it has one.           *)
Again(e, k) == IF k > 1 THEN Added(e, k - 1) ELSE jobs' = jobs

LEMMA RetriedEffect ==
    ASSUME TypeOK, NEW e \in Events, NEW k \in 0..maxRetries, Retried(e, k)
    PROVE  Again(e, k) /\ JobsType
  <1>1. CASE k > 1
    <2>1. k - 1 \in Attempts
      BY <1>1, ConstantsAssumption DEF Attempts
    <2> QED
      BY <1>1, <2>1, AddJobEffect DEF Retried, Again, Added
  <1>2. CASE ~ (k > 1)
    BY <1>2 DEF Retried, Again, JobsType, TypeOK
  <1> QED
    BY <1>1, <1>2

(* A row that is saved.                                                    *)
Saved(e, c) == /\ row' \in [Events -> Copy]
               /\ row'[e] = c
               /\ \A f \in Events : f # e => row'[f] = row[f]

LEMMA SaveEffect ==
    ASSUME TypeOK, NEW e \in Events, NEW c \in Copy, row' = [row EXCEPT ![e] = c]
    PROVE  Saved(e, c)
  BY DEF TypeOK, Saved

LEMMA WithStatus ==
    ASSUME NEW c \in Copy, NEW s \in EventStatus
    PROVE  /\ [c EXCEPT !.status = s] \in Copy
           /\ [c EXCEPT !.status = s].status = s
           /\ [c EXCEPT !.status = s].retryCount = c.retryCount
  BY DEF Copy
-----------------------------------------------------------------------------
(* What each action changes.                                               *)

Counters == <<handled, failures, resets, timeouts, crashes>>

LEMMA createEventEffect ==
    ASSUME TypeOK, NEW e \in Events, createEvent(e)
    PROVE  /\ row[e].status = "absent"
           /\ row' \in [Events -> Copy]
           /\ row'[e].status = "pending"
           /\ row'[e].retryCount = row[e].retryCount
           /\ \A f \in Events : f # e => row'[f] = row[f]
           /\ created' = created \cup {e}
           /\ jobs' = jobs
           /\ Stand
           /\ Counters' = Counters
  <1> DEFINE c == [row[e] EXCEPT !.status = "pending"]
  <1>1. "pending" \in EventStatus /\ row[e] \in Copy
    BY RowType DEF EventStatus
  <1>2. c \in Copy /\ c.status = "pending" /\ c.retryCount = row[e].retryCount
    BY <1>1, WithStatus
  <1>3. row' = [row EXCEPT ![e] = c]
    BY DEF createEvent, TypeOK
  <1> HIDE DEF c
  <1>4. Saved(e, c)
    BY <1>2, <1>3, SaveEffect
  <1> QED
    BY <1>2, <1>4 DEF createEvent, Saved, Stand, Counters, history, bounds

LEMMA handleEventCreatedEffect ==
    ASSUME TypeOK, NEW e \in Events, handleEventCreated(e)
    PROVE  /\ e \in created
           /\ created' = created \ {e}
           /\ jobs' = jobs \/ Added(e, maxRetries)
           /\ row' = row
           /\ Stand
           /\ Counters' = Counters
  BY AddJobEffect, AttemptsType DEF handleEventCreated, Stand, Counters, history, bounds

LEMMA rejectJobEffect ==
    ASSUME TypeOK, NEW e \in Events, NEW k \in Attempts, rejectJob(e, k)
    PROVE  /\ jobs[e][k] > 0
           /\ Rejected(e, k)
           /\ created' = created
           /\ row' = row
           /\ Stand
           /\ Counters' = Counters
  BY RejectEffect DEF rejectJob, Stand, Counters, history, bounds

LEMMA fireEffect ==
    ASSUME TypeOK, NEW p \in Procs, NEW e \in Events, NEW k \in Attempts, fire(p, e, k)
    PROVE  /\ pc[p] = "idle"
           /\ jobs[e][k] > 0
           /\ Taken(e, k)
           /\ Moves(p, "read")
           /\ run'[p].event = e
           /\ run'[p].left = k
           /\ ~ run'[p].alone
           /\ row' = row
           /\ created' = created
           /\ Counters' = Counters
  <1> DEFINE r == [NoRun(e) EXCEPT !.left = k]
  <1>1. r \in Run /\ r.event = e /\ r.left = k /\ ~ r.alone
    BY NoRunType DEF Run, Attempts
  <1>2. run' = [run EXCEPT ![p] = r] /\ Goto(p, "read")
    BY DEF fire
  <1> HIDE DEF r
  <1>3. Moves(p, "read") /\ run'[p] = r
    BY <1>1, <1>2, GotoEffect DEF Labels, RunLabels, TypeOK
  <1> QED
    BY <1>1, <1>3, TakeJobEffect DEF fire, Counters, history, bounds

LEMMA getEventByIdEffect ==
    ASSUME TypeOK, NEW p \in Procs, getEventById(p)
    PROVE  /\ pc[p] = "read"
           /\ \/ /\ row[Event(p)].status = "pending"
                 /\ Moves(p, "mark")
                 /\ run' = run
              \/ Moves(p, "idle") /\ run'[p] = NoRun(SomeEvent)
           /\ jobs' = jobs
           /\ row' = row
           /\ created' = created
           /\ Counters' = Counters
  <1>1. "mark" \in Labels
    BY DEF Labels, RunLabels
  <1> QED
    BY <1>1, GotoEffect, EndEffect DEF getEventById, Succeed, Counters, history, bounds

LEMMA readCopyEffect ==
    ASSUME TypeOK, NEW p \in Procs, readCopy(p)
    PROVE  /\ \/ pc[p] = "mark" /\ Moves(p, "saveProcessing")
              \/ pc[p] = "done" /\ Moves(p, "saveProcessed")
           /\ run'[p].event = Event(p)
           /\ run'[p].left = run[p].left
           /\ run'[p].alone = run[p].alone
           /\ run'[p].copy = row[Event(p)]
           /\ jobs' = jobs
           /\ row' = row
           /\ created' = created
           /\ Counters' = Counters
  <1> DEFINE r == [run[p] EXCEPT !.copy = row[Event(p)]]
  <1>1. /\ r \in Run /\ r.event = Event(p) /\ r.left = run[p].left
        /\ r.alone = run[p].alone /\ r.copy = row[Event(p)]
    BY RunType, RowType DEF Run, Event
  <1>2. run' = [run EXCEPT ![p] = r]
    BY DEF readCopy, TypeOK
  <1> HIDE DEF r
  <1>3. run'[p] = r
    BY <1>2 DEF TypeOK
  <1>4. ASSUME NEW l \in Labels, Goto(p, l)
        PROVE  Moves(p, l)
    BY <1>1, <1>2, <1>4, GotoEffect
  <1>5. \/ pc[p] = "mark" /\ Moves(p, "saveProcessing")
        \/ pc[p] = "done" /\ Moves(p, "saveProcessed")
    BY <1>4 DEF readCopy, Step, Labels, RunLabels
  <1> QED
    BY <1>1, <1>3, <1>5 DEF readCopy, store, Counters, history, bounds

LEMMA saveProcessingEffect ==
    ASSUME TypeOK, NEW p \in Procs, saveProcessing(p)
    PROVE  /\ pc[p] = "saveProcessing"
           /\ Moves(p, "handle")
           /\ run' = run
           /\ row' \in [Events -> Copy]
           /\ row'[Event(p)].status = "processing"
           /\ row'[Event(p)].retryCount = run[p].copy.retryCount
           /\ \A f \in Events : f # Event(p) => row'[f] = row[f]
           /\ jobs' = jobs
           /\ created' = created
           /\ Counters' = Counters
  <1> DEFINE e == Event(p)
             c == [run[p].copy EXCEPT !.status = "processing"]
  <1>1. "processing" \in EventStatus /\ run[p].copy \in Copy /\ e \in Events
    BY RunType DEF EventStatus
  <1>2. c \in Copy /\ c.status = "processing" /\ c.retryCount = run[p].copy.retryCount
    BY <1>1, WithStatus
  <1>3. row' = [row EXCEPT ![e] = c]
    BY DEF saveProcessing
  <1>4. "handle" \in Labels
    BY DEF Labels, RunLabels
  <1>5. Moves(p, "handle")
    BY <1>4, GotoEffect DEF saveProcessing, Step
  <1> HIDE DEF c, e
  <1>6. Saved(e, c)
    BY <1>1, <1>2, <1>3, SaveEffect
  <1> QED
    BY <1>2, <1>5, <1>6 DEF saveProcessing, Step, Saved, Counters, history, bounds, e

LEMMA processEventByTypeEffect ==
    ASSUME TypeOK, NEW p \in Procs, processEventByType(p)
    PROVE  /\ pc[p] = "handle"
           /\ Moves(p, "done")
           /\ run' = run
           /\ handled' \in [Events -> Nat]
           /\ handled'[Event(p)] = handled[Event(p)] + 1
           /\ \A f \in Events : f # Event(p) => handled'[f] = handled[f]
           /\ row' = row /\ jobs' = jobs /\ created' = created
           /\ <<failures, resets, timeouts, crashes>>' = <<failures, resets, timeouts, crashes>>
  <1>1. "done" \in Labels
    BY DEF Labels, RunLabels
  <1>2. Moves(p, "done")
    BY <1>1, GotoEffect DEF processEventByType, Step
  <1>3. Event(p) \in Events
    BY RunType
  <1> HIDE DEF Event
  <1> QED
    BY <1>2, <1>3 DEF processEventByType, Step, TypeOK, store, bounds

LEMMA markAsProcessedEffect ==
    ASSUME TypeOK, NEW p \in Procs, markAsProcessed(p)
    PROVE  /\ pc[p] = "saveProcessed"
           /\ Moves(p, "idle") /\ run'[p] = NoRun(SomeEvent)
           /\ row' \in [Events -> Copy]
           /\ row'[Event(p)].status = "processed"
           /\ row'[Event(p)].retryCount = run[p].copy.retryCount
           /\ \A f \in Events : f # Event(p) => row'[f] = row[f]
           /\ jobs' = jobs
           /\ created' = created
           /\ Counters' = Counters
  <1> DEFINE e == Event(p)
             c == [run[p].copy EXCEPT !.status = "processed"]
  <1>1. "processed" \in EventStatus /\ run[p].copy \in Copy /\ e \in Events
    BY RunType DEF EventStatus
  <1>2. c \in Copy /\ c.status = "processed" /\ c.retryCount = run[p].copy.retryCount
    BY <1>1, WithStatus
  <1>3. row' = [row EXCEPT ![e] = c]
    BY DEF markAsProcessed
  <1>5. Moves(p, "idle") /\ run'[p] = NoRun(SomeEvent)
    BY EndEffect DEF markAsProcessed, Succeed
  <1> HIDE DEF c, e
  <1>6. Saved(e, c)
    BY <1>1, <1>2, <1>3, SaveEffect
  <1> QED
    BY <1>2, <1>5, <1>6
    DEF markAsProcessed, Succeed, Saved, Counters, history, bounds, e

LEMMA throwHandlingEffect ==
    ASSUME TypeOK, NEW p \in Procs, throwHandling(p)
    PROVE  /\ pc[p] \in {"handle", "done", "saveProcessed"}
           /\ Moves(p, "failed")
           /\ run' = run
           /\ failures' \in [Events -> Nat]
           /\ failures'[Event(p)] = failures[Event(p)] + 1
           /\ \A f \in Events : f # Event(p) => failures'[f] = failures[f]
           /\ row' = row /\ jobs' = jobs /\ created' = created
           /\ <<handled, resets, timeouts, crashes>>' = <<handled, resets, timeouts, crashes>>
  <1>1. "failed" \in Labels
    BY DEF Labels, RunLabels
  <1>2. Moves(p, "failed")
    BY <1>1, GotoEffect DEF throwHandling
  <1>3. Event(p) \in Events
    BY RunType
  <1> HIDE DEF Event
  <1> QED
    BY <1>2, <1>3 DEF throwHandling, TypeOK, store, bounds

LEMMA markAsFailedEffect ==
    ASSUME TypeOK, NEW p \in Procs, markAsFailed(p)
    PROVE  /\ pc[p] = "failed"
           /\ Moves(p, "saveFailed")
           /\ run'[p].event = Event(p)
           /\ run'[p].left = run[p].left
           /\ run'[p].alone = run[p].alone
           /\ run'[p].copy.retryCount = row[Event(p)].retryCount + 1
           /\ run'[p].copy.status \in {"failed", "dead_letter"}
           /\ run'[p].copy.status = "dead_letter" =>
                  run'[p].copy.retryCount >= maxRetries
           /\ jobs' = jobs
           /\ row' = row
           /\ created' = created
           /\ Counters' = Counters
  <1> DEFINE n == row[Event(p)].retryCount + 1
             c == [status |-> IF n >= maxRetries THEN "dead_letter" ELSE "failed",
                   retryCount |-> n]
             r == [run[p] EXCEPT !.copy = c]
  <1>1. n \in Nat
    BY RunType, RowType
  <1>2. /\ c \in Copy /\ c.retryCount = n /\ c.status \in {"failed", "dead_letter"}
        /\ c.status = "dead_letter" => n >= maxRetries
    <2> HIDE DEF n
    <2> QED
      BY <1>1 DEF Copy, EventStatus
  <1>3. run' = [run EXCEPT ![p] = r]
    BY DEF markAsFailed, TypeOK
  <1> HIDE DEF c
  <1>4. /\ r \in Run /\ r.event = Event(p) /\ r.left = run[p].left
        /\ r.alone = run[p].alone /\ r.copy = c
    BY <1>2, RunType DEF Run, Event
  <1> HIDE DEF r
  <1>5. run'[p] = r
    BY <1>3 DEF TypeOK
  <1>6. "saveFailed" \in Labels
    BY DEF Labels, RunLabels
  <1>7. Moves(p, "saveFailed")
    BY <1>3, <1>4, <1>6, GotoEffect DEF markAsFailed, Step
  <1> QED
    BY <1>2, <1>4, <1>5, <1>7 DEF markAsFailed, Step, store, Counters, history, bounds

LEMMA saveFailedEffect ==
    ASSUME TypeOK, NEW p \in Procs, saveFailed(p)
    PROVE  /\ pc[p] = "saveFailed"
           /\ Moves(p, "idle") /\ run'[p] = NoRun(SomeEvent)
           /\ Saved(Event(p), run[p].copy)
           /\ JobsType
           /\ IF run[p].alone THEN jobs' = jobs ELSE Again(Event(p), run[p].left)
           /\ created' = created
           /\ Counters' = Counters
  <1>1. Saved(Event(p), run[p].copy)
    BY RunType, SaveEffect DEF saveFailed
  <1>2. JobsType /\ IF run[p].alone THEN jobs' = jobs ELSE Again(Event(p), run[p].left)
    BY RunType, RetriedEffect DEF saveFailed, JobsType, TypeOK
  <1> QED
    BY <1>1, <1>2, EndEffect DEF saveFailed, Counters, history, bounds

LEMMA throwEffect ==
    ASSUME TypeOK, NEW p \in Procs, throw(p)
    PROVE  /\ pc[p] \in {"read", "mark", "saveProcessing", "failed", "saveFailed"}
           /\ Moves(p, "idle") /\ run'[p] = NoRun(SomeEvent)
           /\ JobsType
           /\ IF run[p].alone THEN jobs' = jobs ELSE Again(Event(p), run[p].left)
           /\ row' = row
           /\ created' = created
           /\ Counters' = Counters
  <1>1. JobsType /\ IF run[p].alone THEN jobs' = jobs ELSE Again(Event(p), run[p].left)
    BY RunType, RetriedEffect DEF throw, Fail, JobsType, TypeOK
  <1> QED
    BY <1>1, EndEffect DEF throw, Fail, Counters, history, bounds

LEMMA timeoutEffect ==
    ASSUME TypeOK, NEW p \in Procs, timeout(p)
    PROVE  /\ Moves(p, pc[p])
           /\ pc[p] \in RunLabels
           /\ run'[p].event = Event(p)
           /\ run'[p].copy = run[p].copy
           /\ run'[p].left = run[p].left
           /\ JobsType
           /\ row' = row
           /\ created' = created
           /\ timeouts' = timeouts + 1
           /\ <<handled, failures, resets, crashes>>' = <<handled, failures, resets, crashes>>
           /\ Again(Event(p), run[p].left)
  <1> DEFINE r == [run[p] EXCEPT !.alone = TRUE]
  <1>1. r \in Run /\ r.event = Event(p) /\ r.copy = run[p].copy /\ r.left = run[p].left
    BY RunType DEF Run, Event
  <1>2. run' = [run EXCEPT ![p] = r]
    BY DEF timeout, TypeOK
  <1> HIDE DEF r
  <1>3. run'[p] = r
    BY <1>2 DEF TypeOK
  <1>4. Moves(p, pc[p])
    BY <1>1, <1>2 DEF timeout, TypeOK, Moves
  <1>5. JobsType /\ Again(Event(p), run[p].left)
    BY RunType, RetriedEffect DEF timeout
  <1> QED
    BY <1>1, <1>3, <1>4, <1>5 DEF timeout, history, RunLabels

LEMMA crashEffect ==
    ASSUME TypeOK, NEW p \in Procs, crash(p)
    PROVE  /\ pc[p] # "idle"
           /\ \A q \in Procs \ {p} : pc[q] = "idle"
           /\ Moves(p, "idle") /\ run'[p] = NoRun(SomeEvent)
           /\ JobsType
           /\ IF run[p].left > 0 /\ ~ run[p].alone THEN Added(Event(p), run[p].left)
              ELSE jobs' = jobs
           /\ row' = row
           /\ created' = {}
           /\ crashes' = crashes + 1
           /\ <<handled, failures, resets, timeouts>>' = <<handled, failures, resets, timeouts>>
  <1>1. run[p].left > 0 => run[p].left \in Attempts
    BY RunType DEF Attempts
  <1>2. JobsType /\ IF run[p].left > 0 /\ ~ run[p].alone THEN Added(Event(p), run[p].left)
                    ELSE jobs' = jobs
    <2>1. CASE run[p].left > 0 /\ ~ run[p].alone
      BY <1>1, <2>1, RunType, AddJobEffect DEF crash, Added
    <2>2. CASE ~ (run[p].left > 0 /\ ~ run[p].alone)
      BY <2>2 DEF crash, JobsType, TypeOK
    <2> QED
      BY <2>1, <2>2
  <1> QED
    BY <1>2, EndEffect DEF crash, history

LEMMA retryDeadLetterEventEffect ==
    ASSUME TypeOK, NEW p \in Procs, NEW e \in Events, retryDeadLetterEvent(p, e)
    PROVE  /\ pc[p] = "idle"
           /\ row[e].status = "dead_letter"
           /\ Moves(p, "saveReset")
           /\ run'[p].event = e
           /\ run'[p].left = 0
           /\ ~ run'[p].alone
           /\ run'[p].copy = [status |-> "pending", retryCount |-> 0]
           /\ jobs' = jobs
           /\ row' = row
           /\ created' = created
           /\ Counters' = Counters
  <1> DEFINE c == [status |-> "pending", retryCount |-> 0]
             r == [NoRun(e) EXCEPT !.copy = c]
  <1>1. c \in Copy
    BY DEF Copy, EventStatus
  <1>2. run' = [run EXCEPT ![p] = r] /\ Goto(p, "saveReset")
    BY DEF retryDeadLetterEvent, Request
  <1> HIDE DEF c
  <1>3. r \in Run /\ r.event = e /\ r.left = 0 /\ ~ r.alone /\ r.copy = c
    BY <1>1, NoRunType DEF Run
  <1> HIDE DEF r
  <1>4. Moves(p, "saveReset") /\ run'[p] = r
    BY <1>2, <1>3, GotoEffect DEF Labels, TypeOK
  <1> QED
    BY <1>3, <1>4 DEF retryDeadLetterEvent, Request, store, Counters, history, c

LEMMA updateEventEffect ==
    ASSUME TypeOK, NEW p \in Procs, NEW e \in Events, updateEvent(p, e)
    PROVE  /\ pc[p] = "idle"
           /\ row[e].status # "absent"
           /\ Moves(p, "saveEdit")
           /\ run'[p].event = e
           /\ run'[p].left = 0
           /\ ~ run'[p].alone
           /\ run'[p].copy.status \in {row[e].status} \cup EditStatuses
           /\ run'[p].copy.retryCount = row[e].retryCount
           /\ jobs' = jobs
           /\ row' = row
           /\ created' = created
           /\ Counters' = Counters
  <1>s. row[e].status # "absent"
    BY DEF updateEvent
  <1>1. PICK s \in {row[e].status} \cup EditStatuses :
            Request(p, e, "saveEdit", [row[e] EXCEPT !.status = s])
    BY DEF updateEvent
  <1> DEFINE c == [row[e] EXCEPT !.status = s]
             r == [NoRun(e) EXCEPT !.copy = c]
  <1>2. s \in EventStatus
    BY <1>s, <1>1, ConstantsAssumption, RowType
  <1>3. c \in Copy /\ c.status = s /\ c.retryCount = row[e].retryCount
    BY <1>2, RowType, WithStatus
  <1>4. run' = [run EXCEPT ![p] = r] /\ Goto(p, "saveEdit")
    BY <1>1 DEF Request
  <1> HIDE DEF c
  <1>5. r \in Run /\ r.event = e /\ r.left = 0 /\ ~ r.alone /\ r.copy = c
    BY <1>3, NoRunType DEF Run
  <1> HIDE DEF r
  <1>6. Moves(p, "saveEdit") /\ run'[p] = r
    BY <1>4, <1>5, GotoEffect DEF Labels, TypeOK
  <1> QED
    BY <1>1, <1>s, <1>3, <1>5, <1>6 DEF Request, store, Counters, history

LEMMA saveRequestedEffect ==
    ASSUME TypeOK, NEW p \in Procs, saveRequested(p)
    PROVE  /\ \/ pc[p] = "saveReset" /\ Moves(p, "queueReset") /\ run' = run
              \/ pc[p] = "saveEdit" /\ Moves(p, "idle") /\ run'[p] = NoRun(SomeEvent)
           /\ Saved(Event(p), run[p].copy)
           /\ resets' \in [Events -> Nat]
           /\ resets'[Event(p)] = IF run[p].copy.status = "pending"
                                  THEN resets[Event(p)] + 1 ELSE resets[Event(p)]
           /\ \A f \in Events : f # Event(p) => resets'[f] = resets[f]
           /\ jobs' = jobs
           /\ created' = created
           /\ <<handled, failures, timeouts, crashes>>' = <<handled, failures, timeouts, crashes>>
  <1>1. \/ pc[p] = "saveReset" /\ Moves(p, "queueReset") /\ run' = run
        \/ pc[p] = "saveEdit" /\ Moves(p, "idle") /\ run'[p] = NoRun(SomeEvent)
    BY GotoEffect, EndEffect DEF saveRequested, Labels
  <1>2. Saved(Event(p), run[p].copy)
    BY RunType, SaveEffect DEF saveRequested
  <1>3. Event(p) \in Events
    BY RunType
  <1> HIDE DEF Event
  <1>4. /\ resets' \in [Events -> Nat]
        /\ resets'[Event(p)] = IF run[p].copy.status = "pending"
                               THEN resets[Event(p)] + 1 ELSE resets[Event(p)]
        /\ \A f \in Events : f # Event(p) => resets'[f] = resets[f]
    BY <1>3 DEF saveRequested, TypeOK
  <1> QED
    BY <1>1, <1>2, <1>4 DEF saveRequested, bounds

LEMMA queueResetEffect ==
    ASSUME TypeOK, NEW p \in Procs, queueReset(p)
    PROVE  /\ pc[p] = "queueReset"
           /\ Moves(p, "idle") /\ run'[p] = NoRun(SomeEvent)
           /\ jobs' = jobs \/ Added(Event(p), 1)
           /\ row' = row
           /\ created' = created
           /\ Counters' = Counters
  BY EndEffect, AddJobEffect, AttemptsType, RunType
  DEF queueReset, Counters, history, bounds

LEMMA resetBreakerEffect ==
    ASSUME resetBreaker
    PROVE  jobs' = jobs /\ row' = row /\ created' = created /\ Stand /\ Counters' = Counters
  BY DEF resetBreaker, store, Stand, Counters, history, bounds
-----------------------------------------------------------------------------
(* The parts of the invariant, one after the other.                        *)

LEMMA TypeStep ==
    ASSUME TypeOK, Next
    PROVE  TypeOK'
  <1>1. CASE resetBreaker
    BY <1>1, resetBreakerEffect, RunType
    DEF TypeOK, Counters, Stand, Moves, Saved, Added, Taken, Rejected, JobsType
  <1>2. ASSUME NEW e \in Events, createEvent(e)
        PROVE  TypeOK'
    BY <1>2, createEventEffect, RunType
    DEF TypeOK, Counters, Stand, Moves, Saved, Added, Taken, Rejected, JobsType
  <1>3. ASSUME NEW e \in Events, handleEventCreated(e)
        PROVE  TypeOK'
    BY <1>3, handleEventCreatedEffect, RunType
    DEF TypeOK, Counters, Stand, Moves, Saved, Added, Taken, Rejected, JobsType
  <1>4. ASSUME NEW e \in Events, NEW k \in Attempts, rejectJob(e, k)
        PROVE  TypeOK'
    BY <1>4, rejectJobEffect, RunType
    DEF TypeOK, Counters, Stand, Moves, Saved, Added, Taken, Rejected, JobsType
  <1>5. ASSUME NEW p \in Procs, NEW e \in Events, NEW k \in Attempts, fire(p, e, k)
        PROVE  TypeOK'
    BY <1>5, fireEffect, RunType
    DEF TypeOK, Counters, Stand, Moves, Saved, Added, Taken, Rejected, JobsType
  <1>6. ASSUME NEW p \in Procs, getEventById(p)
        PROVE  TypeOK'
    BY <1>6, getEventByIdEffect, RunType
    DEF TypeOK, Counters, Stand, Moves, Saved, Added, Taken, Rejected, JobsType
  <1>7. ASSUME NEW p \in Procs, readCopy(p)
        PROVE  TypeOK'
    BY <1>7, readCopyEffect, RunType
    DEF TypeOK, Counters, Stand, Moves, Saved, Added, Taken, Rejected, JobsType
  <1>8. ASSUME NEW p \in Procs, saveProcessing(p)
        PROVE  TypeOK'
    BY <1>8, saveProcessingEffect, RunType
    DEF TypeOK, Counters, Stand, Moves, Saved, Added, Taken, Rejected, JobsType
  <1>9. ASSUME NEW p \in Procs, processEventByType(p)
        PROVE  TypeOK'
    BY <1>9, processEventByTypeEffect, RunType
    DEF TypeOK, Counters, Stand, Moves, Saved, Added, Taken, Rejected, JobsType
  <1>10. ASSUME NEW p \in Procs, markAsProcessed(p)
        PROVE  TypeOK'
    BY <1>10, markAsProcessedEffect, RunType
    DEF TypeOK, Counters, Stand, Moves, Saved, Added, Taken, Rejected, JobsType
  <1>11. ASSUME NEW p \in Procs, throwHandling(p)
        PROVE  TypeOK'
    BY <1>11, throwHandlingEffect, RunType
    DEF TypeOK, Counters, Stand, Moves, Saved, Added, Taken, Rejected, JobsType
  <1>12. ASSUME NEW p \in Procs, markAsFailed(p)
        PROVE  TypeOK'
    BY <1>12, markAsFailedEffect, RunType
    DEF TypeOK, Counters, Stand, Moves, Saved, Added, Taken, Rejected, JobsType
  <1>13. ASSUME NEW p \in Procs, saveFailed(p)
        PROVE  TypeOK'
    BY <1>13, saveFailedEffect, RunType
    DEF TypeOK, Counters, Stand, Moves, Saved, Added, Taken, Rejected, JobsType
  <1>14. ASSUME NEW p \in Procs, throw(p)
        PROVE  TypeOK'
    BY <1>14, throwEffect, RunType
    DEF TypeOK, Counters, Stand, Moves, Saved, Added, Taken, Rejected, JobsType
  <1>15. ASSUME NEW p \in Procs, timeout(p)
        PROVE  TypeOK'
    BY <1>15, timeoutEffect, RunType
    DEF TypeOK, Counters, Stand, Moves, Saved, Added, Taken, Rejected, JobsType
  <1>16. ASSUME NEW p \in Procs, crash(p)
        PROVE  TypeOK'
    BY <1>16, crashEffect, RunType
    DEF TypeOK, Counters, Stand, Moves, Saved, Added, Taken, Rejected, JobsType
  <1>17. ASSUME NEW p \in Procs, NEW e \in Events, retryDeadLetterEvent(p, e)
        PROVE  TypeOK'
    BY <1>17, retryDeadLetterEventEffect, RunType
    DEF TypeOK, Counters, Stand, Moves, Saved, Added, Taken, Rejected, JobsType
  <1>18. ASSUME NEW p \in Procs, NEW e \in Events, updateEvent(p, e)
        PROVE  TypeOK'
    BY <1>18, updateEventEffect, RunType
    DEF TypeOK, Counters, Stand, Moves, Saved, Added, Taken, Rejected, JobsType
  <1>19. ASSUME NEW p \in Procs, saveRequested(p)
        PROVE  TypeOK'
    BY <1>19, saveRequestedEffect, RunType
    DEF TypeOK, Counters, Stand, Moves, Saved, Added, Taken, Rejected, JobsType
  <1>20. ASSUME NEW p \in Procs, queueReset(p)
        PROVE  TypeOK'
    BY <1>20, queueResetEffect, RunType
    DEF TypeOK, Counters, Stand, Moves, Saved, Added, Taken, Rejected, JobsType
  <1> QED
    BY <1>1, <1>2, <1>3, <1>4, <1>5, <1>6, <1>7, <1>8, <1>9, <1>10,
       <1>11, <1>12, <1>13, <1>14, <1>15, <1>16, <1>17, <1>18, <1>19,
       <1>20
    DEF Next, TakeJob, Continue, Attempts


LEMMA PresentStep ==
    ASSUME TypeOK, Present, Next
    PROVE  Present'
  <1>1. CASE resetBreaker
    BY <1>1, resetBreakerEffect, RunType, RowType
    DEF Present, At, Event, RunLabels, SaveLabels, Counters, Stand
  <1>2. ASSUME NEW e \in Events, createEvent(e)
        PROVE  Present'
    BY <1>2, createEventEffect, RunType, RowType
    DEF Present, At, Event, RunLabels, SaveLabels, Counters, Stand
  <1>3. ASSUME NEW e \in Events, handleEventCreated(e)
        PROVE  Present'
    BY <1>3, handleEventCreatedEffect, RunType, RowType, AttemptsType
    DEF Present, At, Event, RunLabels, SaveLabels, Counters, Stand, Added, Rejected, JobsElse
  <1>4. ASSUME NEW e \in Events, NEW k \in Attempts, rejectJob(e, k)
        PROVE  Present'
    BY <1>4, rejectJobEffect, RunType, RowType, AttemptsType
    DEF Present, At, Event, RunLabels, SaveLabels, Counters, Stand, Added, Rejected, JobsElse
  <1>5. ASSUME NEW p \in Procs, NEW e \in Events, NEW k \in Attempts, fire(p, e, k)
        PROVE  Present'
    <2> USE <1>5, fireEffect
    <2>1. row[e].status # "absent"
      BY RowType DEF Present
    <2>2. \A f \in Events, l \in Attempts : f # e => jobs'[f][l] = jobs[f][l]
      BY DEF Taken, JobsElse
    <2>3. \A f \in Events : row[f].status = "absent" =>
              \A q \in Procs : At(q, f, Labels)' => pc'[q] = "idle"
      BY <2>1, RunType DEF Present, At, Event, Moves
    <2>4. \A q \in Procs : pc'[q] \in SaveLabels => run'[q].copy.status # "absent"
      BY <2>1, ConstantsAssumption DEF Present, Moves, SaveLabels, EventStatus
    <2>5. \A q \in Procs : pc'[q] \notin RunLabels => run'[q].left = 0
      BY DEF Present, Moves, RunLabels
    <2>6. handled' = handled
      BY DEF Counters
    <2> QED
      BY <2>1, <2>2, <2>3, <2>4, <2>5, <2>6 DEF Present
  <1>6. ASSUME NEW p \in Procs, getEventById(p)
        PROVE  Present'
    BY <1>6, getEventByIdEffect, RunType, RowType, NoRunType, SomeEventType
    DEF Present, At, Event, RunLabels, SaveLabels, Counters, Moves
  <1>7. ASSUME NEW p \in Procs, readCopy(p)
        PROVE  Present'
    <2> USE <1>7, readCopyEffect
    <2>1. row[Event(p)].status # "absent" /\ Event(p) \in Events
      BY RunType DEF Present, At, Event, Labels
    <2>2. \A f \in Events : row[f].status = "absent" =>
              \A q \in Procs : At(q, f, Labels)' => pc'[q] = "idle"
      BY <2>1, RunType DEF Present, At, Event, Moves
    <2>3. \A q \in Procs : pc'[q] \in SaveLabels => run'[q].copy.status # "absent"
      BY <2>1 DEF Present, Moves, SaveLabels
    <2>4. \A q \in Procs : pc'[q] \notin RunLabels => run'[q].left = 0
      BY DEF Present, Moves, RunLabels
    <2>5. handled' = handled
      BY DEF Counters
    <2> QED
      BY <2>2, <2>3, <2>4, <2>5 DEF Present
  <1>8. ASSUME NEW p \in Procs, saveProcessing(p)
        PROVE  Present'
    BY <1>8, saveProcessingEffect, RunType, RowType, NoRunType, SomeEventType
    DEF Present, At, Event, RunLabels, SaveLabels, Counters, Moves
  <1>9. ASSUME NEW p \in Procs, processEventByType(p)
        PROVE  Present'
    BY <1>9, processEventByTypeEffect, RunType, RowType, NoRunType, SomeEventType
    DEF Present, At, Event, RunLabels, SaveLabels, Counters, Moves
  <1>10. ASSUME NEW p \in Procs, markAsProcessed(p)
        PROVE  Present'
    <2> USE <1>10, markAsProcessedEffect
    <2>1. \A f \in Events : row'[f].status = "absent" =>
              row[f].status = "absent" /\ f # Event(p) /\ row'[f] = row[f]
      BY RunType
    <2>2. \A f \in Events : row[f].status = "absent" =>
              \A q \in Procs : At(q, f, Labels)' => pc'[q] = "idle"
      BY RunType DEF Present, At, Event, Moves
    <2>3. \A q \in Procs : pc'[q] \in SaveLabels => run'[q].copy.status # "absent"
      BY DEF Present, Moves, SaveLabels
    <2>4. \A q \in Procs : pc'[q] \notin RunLabels => run'[q].left = 0
      BY NoRunType, SomeEventType DEF Present, Moves, RunLabels
    <2>5. handled' = handled
      BY DEF Counters
    <2> QED
      BY <2>1, <2>2, <2>3, <2>4, <2>5 DEF Present
  <1>11. ASSUME NEW p \in Procs, throwHandling(p)
        PROVE  Present'
    BY <1>11, throwHandlingEffect, RunType, RowType, NoRunType, SomeEventType
    DEF Present, At, Event, RunLabels, SaveLabels, Counters, Moves
  <1>12. ASSUME NEW p \in Procs, markAsFailed(p)
        PROVE  Present'
    BY <1>12, markAsFailedEffect, RunType, RowType, NoRunType, SomeEventType
    DEF Present, At, Event, RunLabels, SaveLabels, Counters, Moves
  <1>13. ASSUME NEW p \in Procs, saveFailed(p)
        PROVE  Present'
    <2> USE <1>13, saveFailedEffect
    <2>1. row[Event(p)].status # "absent" /\ Event(p) \in Events
      BY RunType DEF Present, At, Event, RunLabels
    <2>2. \A f \in Events : row'[f].status = "absent" =>
              row[f].status = "absent" /\ f # Event(p) /\ row'[f] = row[f]
      BY <2>1, RunType DEF Present, SaveLabels, Saved
    <2>3. \A f \in Events, l \in Attempts : f # Event(p) => jobs'[f][l] = jobs[f][l]
      BY <2>1, RunType, AttemptsType DEF Again, Added, JobsElse, Attempts
    <2>4. \A f \in Events : f # Event(p) /\ row[f].status = "absent" =>
              \A q \in Procs : At(q, f, Labels)' => pc'[q] = "idle"
      BY RunType DEF Present, At, Event, Moves
    <2>5. \A q \in Procs : pc'[q] \in SaveLabels => run'[q].copy.status # "absent"
      BY RunType DEF Present, Moves, SaveLabels
    <2>6. \A q \in Procs : pc'[q] \notin RunLabels => run'[q].left = 0
      BY NoRunType, SomeEventType DEF Present, Moves, RunLabels
    <2>7. \A f \in Events : f \in created' => f \in created
      OBVIOUS
    <2>8. handled' = handled
      BY DEF Counters
    <2> QED
      BY <2>2, <2>3, <2>4, <2>5, <2>6, <2>7, <2>8 DEF Present
  <1>14. ASSUME NEW p \in Procs, throw(p)
        PROVE  Present'
    <2> USE <1>14, throwEffect
    <2>1. row[Event(p)].status # "absent" /\ Event(p) \in Events
      BY RunType DEF Present, At, Event, RunLabels
    <2>2. \A f \in Events : row'[f].status = "absent" =>
              row[f].status = "absent" /\ f # Event(p) /\ row'[f] = row[f]
      BY <2>1 DEF Present, SaveLabels, Saved
    <2>3. \A f \in Events, l \in Attempts : f # Event(p) => jobs'[f][l] = jobs[f][l]
      BY <2>1, RunType, AttemptsType DEF Again, Added, JobsElse, Attempts
    <2>4. \A f \in Events : f # Event(p) /\ row[f].status = "absent" =>
              \A q \in Procs : At(q, f, Labels)' => pc'[q] = "idle"
      BY RunType DEF Present, At, Event, Moves
    <2>5. \A q \in Procs : pc'[q] \in SaveLabels => run'[q].copy.status # "absent"
      BY RunType DEF Present, Moves, SaveLabels
    <2>6. \A q \in Procs : pc'[q] \notin RunLabels => run'[q].left = 0
      BY NoRunType, SomeEventType DEF Present, Moves, RunLabels
    <2>7. \A f \in Events : f \in created' => f \in created
      OBVIOUS
    <2>8. handled' = handled
      BY DEF Counters
    <2> QED
      BY <2>2, <2>3, <2>4, <2>5, <2>6, <2>7, <2>8 DEF Present
  <1>15. ASSUME NEW p \in Procs, timeout(p)
        PROVE  Present'
    <2> USE <1>15, timeoutEffect
    <2>1. row[Event(p)].status # "absent" /\ Event(p) \in Events
      BY RunType DEF Present, At, Event, RunLabels
    <2>2. \A f \in Events : row'[f].status = "absent" =>
              row[f].status = "absent" /\ f # Event(p) /\ row'[f] = row[f]
      BY <2>1 DEF Present, SaveLabels, Saved
    <2>3. \A f \in Events, l \in Attempts : f # Event(p) => jobs'[f][l] = jobs[f][l]
      BY <2>1, RunType, AttemptsType DEF Again, Added, JobsElse, Attempts
    <2>4. \A f \in Events : f # Event(p) /\ row[f].status = "absent" =>
              \A q \in Procs : At(q, f, Labels)' => pc'[q] = "idle"
      BY RunType DEF Present, At, Event, Moves
    <2>5. \A q \in Procs : pc'[q] \in SaveLabels => run'[q].copy.status # "absent"
      BY RunType DEF Present, Moves, SaveLabels
    <2>6. \A q \in Procs : pc'[q] \notin RunLabels => run'[q].left = 0
      BY NoRunType, SomeEventType DEF Present, Moves, RunLabels
    <2>7. \A f \in Events : f \in created' => f \in created
      OBVIOUS
    <2>8. handled' = handled
      BY DEF Counters
    <2> QED
      BY <2>2, <2>3, <2>4, <2>5, <2>6, <2>7, <2>8 DEF Present
  <1>16. ASSUME NEW p \in Procs, crash(p)
        PROVE  Present'
    <2> USE <1>16, crashEffect
    <2>1. row[Event(p)].status # "absent" /\ Event(p) \in Events
      BY RunType DEF Present, At, Event, RunLabels
    <2>2. \A f \in Events : row'[f].status = "absent" =>
              row[f].status = "absent" /\ f # Event(p) /\ row'[f] = row[f]
      BY <2>1 DEF Present, SaveLabels, Saved
    <2>3. \A f \in Events, l \in Attempts : f # Event(p) => jobs'[f][l] = jobs[f][l]
      BY <2>1, RunType, AttemptsType DEF Again, Added, JobsElse, Attempts
    <2>4. \A f \in Events : f # Event(p) /\ row[f].status = "absent" =>
              \A q \in Procs : At(q, f, Labels)' => pc'[q] = "idle"
      BY RunType DEF Present, At, Event, Moves
    <2>5. \A q \in Procs : pc'[q] \in SaveLabels => run'[q].copy.status # "absent"
      BY RunType DEF Present, Moves, SaveLabels
    <2>6. \A q \in Procs : pc'[q] \notin RunLabels => run'[q].left = 0
      BY NoRunType, SomeEventType DEF Present, Moves, RunLabels
    <2>7. \A f \in Events : f \in created' => f \in created
      OBVIOUS
    <2>8. handled' = handled
      BY DEF Counters
    <2> QED
      BY <2>2, <2>3, <2>4, <2>5, <2>6, <2>7, <2>8 DEF Present
  <1>17. ASSUME NEW p \in Procs, NEW e \in Events, retryDeadLetterEvent(p, e)
        PROVE  Present'
    BY <1>17, retryDeadLetterEventEffect, RunType, RowType, NoRunType, SomeEventType
    DEF Present, At, Event, RunLabels, SaveLabels, Counters, Moves
  <1>18. ASSUME NEW p \in Procs, NEW e \in Events, updateEvent(p, e)
        PROVE  Present'
    <2> USE <1>18, updateEventEffect
    <2>1. row[e].status # "absent"
      BY RowType DEF Present
    <2>2. \A f \in Events, l \in Attempts : f # e => jobs'[f][l] = jobs[f][l]
      BY DEF Taken, JobsElse
    <2>3. \A f \in Events : row[f].status = "absent" =>
              \A q \in Procs : At(q, f, Labels)' => pc'[q] = "idle"
      BY <2>1, RunType DEF Present, At, Event, Moves
    <2>4. \A q \in Procs : pc'[q] \in SaveLabels => run'[q].copy.status # "absent"
      BY <2>1, ConstantsAssumption DEF Present, Moves, SaveLabels, EventStatus
    <2>5. \A q \in Procs : pc'[q] \notin RunLabels => run'[q].left = 0
      BY DEF Present, Moves, RunLabels
    <2>6. handled' = handled
      BY DEF Counters
    <2> QED
      BY <2>1, <2>2, <2>3, <2>4, <2>5, <2>6 DEF Present
  <1>19. ASSUME NEW p \in Procs, saveRequested(p)
        PROVE  Present'
    BY <1>19, saveRequestedEffect, RunType, RowType, NoRunType, SomeEventType
    DEF Present, At, Event, RunLabels, SaveLabels, Counters, Moves, Saved
  <1>20. ASSUME NEW p \in Procs, queueReset(p)
        PROVE  Present'
    <2> USE <1>20, queueResetEffect
    <2>1. row[Event(p)].status # "absent" /\ Event(p) \in Events
      BY RunType DEF Present, At, Event, Labels
    <2>2. \A f \in Events, l \in Attempts : f # Event(p) => jobs'[f][l] = jobs[f][l]
      BY <2>1, AttemptsType DEF Added, JobsElse
    <2>3. \A f \in Events : row[f].status = "absent" =>
              \A q \in Procs : At(q, f, Labels)' => pc'[q] = "idle"
      BY RunType DEF Present, At, Event, Moves
    <2>4. \A q \in Procs : pc'[q] \in SaveLabels => run'[q].copy.status # "absent"
      BY DEF Present, Moves, SaveLabels
    <2>5. \A q \in Procs : pc'[q] \notin RunLabels => run'[q].left = 0
      BY NoRunType, SomeEventType DEF Present, Moves, RunLabels
    <2>6. handled' = handled
      BY DEF Counters
    <2> QED
      BY <2>1, <2>2, <2>3, <2>4, <2>5, <2>6 DEF Present
  <1> QED
    BY <1>1, <1>2, <1>3, <1>4, <1>5, <1>6, <1>7, <1>8, <1>9, <1>10,
       <1>11, <1>12, <1>13, <1>14, <1>15, <1>16, <1>17, <1>18, <1>19,
       <1>20
    DEF Next, TakeJob, Continue, Attempts

-----------------------------------------------------------------------------
(* The count of failures.                                                  *)

(* Sets of runs that differ in p at most.                                  *)
LEMMA CountChange ==
    ASSUME NEW S \in SUBSET Procs, NEW T \in SUBSET Procs, NEW p \in Procs,
           S \ {p} = T \ {p}
    PROVE  /\ Cardinality(S) \in Nat
           /\ Cardinality(T) \in Nat
           /\ Cardinality(T) + (IF p \in S THEN 1 ELSE 0)
                 = Cardinality(S) + (IF p \in T THEN 1 ELSE 0)
  <1>1. IsFiniteSet(S) /\ IsFiniteSet(T)
    BY ConstantsAssumption, FS_Subset
  <1>2. Cardinality(S) \in Nat /\ Cardinality(T) \in Nat
    BY <1>1, FS_CardinalityType
  <1>3. Cardinality(S \ {p}) = IF p \in S THEN Cardinality(S) - 1 ELSE Cardinality(S)
    BY <1>1, FS_RemoveElement
  <1>4. Cardinality(T \ {p}) = IF p \in T THEN Cardinality(T) - 1 ELSE Cardinality(T)
    BY <1>1, FS_RemoveElement
  <1>5. Cardinality(S \ {p}) = Cardinality(T \ {p})
    OBVIOUS
  <1> QED
    BY <1>2, <1>3, <1>4, <1>5

LEMMA FailingType ==
    ASSUME NEW e \in Events
    PROVE  Cardinality(Failing(e)) \in Nat
  <1>1. Failing(e) \in SUBSET Procs
    BY DEF Failing
  <1> QED
    BY <1>1, ConstantsAssumption, FS_Subset, FS_CardinalityType

LEMMA FailingChange ==
    ASSUME NEW p \in Procs, NEW l, Moves(p, l), NEW e \in Events
    PROVE  /\ Cardinality(Failing(e)) \in Nat
           /\ Cardinality(Failing(e)') \in Nat
           /\ Cardinality(Failing(e)') + (IF FailingRun(p, e) THEN 1 ELSE 0)
                 = Cardinality(Failing(e)) + (IF FailingRun(p, e)' THEN 1 ELSE 0)
  <1> DEFINE S == Failing(e)
             T == Failing(e)'
  <1>1. S \in SUBSET Procs /\ T \in SUBSET Procs
    BY DEF Failing
  <1>2. \A q \in Procs : (q \in S <=> FailingRun(q, e)) /\ (q \in T <=> FailingRun(q, e)')
    BY DEF Failing
  <1>3. \A q \in Procs \ {p} : FailingRun(q, e)' <=> FailingRun(q, e)
    BY DEF FailingRun, At, Event, Moves
  <1> HIDE DEF S, T
  <1>4. S \ {p} = T \ {p}
    BY <1>1, <1>2, <1>3
  <1>5. /\ Cardinality(S) \in Nat
        /\ Cardinality(T) \in Nat
        /\ Cardinality(T) + (IF p \in S THEN 1 ELSE 0)
              = Cardinality(S) + (IF p \in T THEN 1 ELSE 0)
    BY <1>1, <1>4, CountChange
  <1>6. (p \in S <=> FailingRun(p, e)) /\ (p \in T <=> FailingRun(p, e)')
    BY <1>2
  <1> HIDE DEF FailingRun
  <1>7. /\ Cardinality(S) \in Nat
        /\ Cardinality(T) \in Nat
        /\ Cardinality(T) + (IF FailingRun(p, e) THEN 1 ELSE 0)
              = Cardinality(S) + (IF FailingRun(p, e)' THEN 1 ELSE 0)
    BY <1>5, <1>6
  <1> QED
    BY <1>7 DEF S, T

(* The failures keep up with the runs that have failed.                    *)
Drift == \A e \in Events :
    /\ Cardinality(Failing(e)') + failures[e] <= Cardinality(Failing(e)) + failures'[e]
    /\ failures[e] <= failures'[e]

LEMMA OneFewer ==
    ASSUME TypeOK, NEW p \in Procs, NEW l, Moves(p, l), failures' = failures,
           \A f \in Events : FailingRun(p, f)' => FailingRun(p, f)
    PROVE  Drift
  <1> SUFFICES ASSUME NEW f \in Events
               PROVE  /\ Cardinality(Failing(f)') + failures[f]
                            <= Cardinality(Failing(f)) + failures'[f]
                      /\ failures[f] <= failures'[f]
    BY DEF Drift
  <1>1. /\ Cardinality(Failing(f)) \in Nat
        /\ Cardinality(Failing(f)') \in Nat
        /\ Cardinality(Failing(f)') + (IF FailingRun(p, f) THEN 1 ELSE 0)
              = Cardinality(Failing(f)) + (IF FailingRun(p, f)' THEN 1 ELSE 0)
    BY FailingChange
  <1>2. FailingRun(p, f)' => FailingRun(p, f)
    OBVIOUS
  <1>3. failures[f] \in Nat
    BY RowType
  <1> QED
    BY <1>1, <1>2, <1>3

LEMMA DriftStep ==
    ASSUME TypeOK, Next
    PROVE  Drift
  <1>1. CASE resetBreaker
    <2>1. Stand /\ failures' = failures
      BY <1>1, resetBreakerEffect DEF Counters
    <2>2. \A f \in Events : Failing(f)' = Failing(f)
      BY <2>1 DEF Failing, FailingRun, At, Event, Stand
    <2> QED
      BY <2>1, <2>2, FailingType, RowType DEF Drift
  <1>2. ASSUME NEW e \in Events, createEvent(e)
        PROVE  Drift
    <2>1. Stand /\ failures' = failures
      BY <1>2, createEventEffect DEF Counters
    <2>2. \A f \in Events : Failing(f)' = Failing(f)
      BY <2>1 DEF Failing, FailingRun, At, Event, Stand
    <2> QED
      BY <2>1, <2>2, FailingType, RowType DEF Drift
  <1>3. ASSUME NEW e \in Events, handleEventCreated(e)
        PROVE  Drift
    <2>1. Stand /\ failures' = failures
      BY <1>3, handleEventCreatedEffect DEF Counters
    <2>2. \A f \in Events : Failing(f)' = Failing(f)
      BY <2>1 DEF Failing, FailingRun, At, Event, Stand
    <2> QED
      BY <2>1, <2>2, FailingType, RowType DEF Drift
  <1>4. ASSUME NEW e \in Events, NEW k \in Attempts, rejectJob(e, k)
        PROVE  Drift
    <2>1. Stand /\ failures' = failures
      BY <1>4, rejectJobEffect DEF Counters
    <2>2. \A f \in Events : Failing(f)' = Failing(f)
      BY <2>1 DEF Failing, FailingRun, At, Event, Stand
    <2> QED
      BY <2>1, <2>2, FailingType, RowType DEF Drift
  <1>5. ASSUME NEW p \in Procs, NEW e \in Events, NEW k \in Attempts, fire(p, e, k)
        PROVE  Drift
    <2>1. failures' = failures
      BY <1>5, fireEffect DEF Counters
    <2>2. PICK l : Moves(p, l)
      BY <1>5, fireEffect
    <2>3. \A f \in Events : FailingRun(p, f)' => FailingRun(p, f)
      BY <1>5, fireEffect DEF Moves, FailingRun, At, Event
    <2> QED
      BY <2>1, <2>2, <2>3, OneFewer
  <1>6. ASSUME NEW p \in Procs, getEventById(p)
        PROVE  Drift
    <2>1. failures' = failures
      BY <1>6, getEventByIdEffect DEF Counters
    <2>2. PICK l : Moves(p, l)
      BY <1>6, getEventByIdEffect
    <2>3. \A f \in Events : FailingRun(p, f)' => FailingRun(p, f)
      BY <1>6, getEventByIdEffect DEF Moves, FailingRun, At, Event
    <2> QED
      BY <2>1, <2>2, <2>3, OneFewer
  <1>7. ASSUME NEW p \in Procs, readCopy(p)
        PROVE  Drift
    <2>1. failures' = failures
      BY <1>7, readCopyEffect DEF Counters
    <2>2. PICK l : Moves(p, l)
      BY <1>7, readCopyEffect
    <2>3. \A f \in Events : FailingRun(p, f)' => FailingRun(p, f)
      BY <1>7, readCopyEffect DEF Moves, FailingRun, At, Event
    <2> QED
      BY <2>1, <2>2, <2>3, OneFewer
  <1>8. ASSUME NEW p \in Procs, saveProcessing(p)
        PROVE  Drift
    <2>1. failures' = failures
      BY <1>8, saveProcessingEffect DEF Counters
    <2>2. PICK l : Moves(p, l)
      BY <1>8, saveProcessingEffect
    <2>3. \A f \in Events : FailingRun(p, f)' => FailingRun(p, f)
      BY <1>8, saveProcessingEffect DEF Moves, FailingRun, At, Event
    <2> QED
      BY <2>1, <2>2, <2>3, OneFewer
  <1>9. ASSUME NEW p \in Procs, processEventByType(p)
        PROVE  Drift
    <2>1. failures' = failures
      BY <1>9, processEventByTypeEffect DEF Counters
    <2>2. PICK l : Moves(p, l)
      BY <1>9, processEventByTypeEffect
    <2>3. \A f \in Events : FailingRun(p, f)' => FailingRun(p, f)
      BY <1>9, processEventByTypeEffect DEF Moves, FailingRun, At, Event
    <2> QED
      BY <2>1, <2>2, <2>3, OneFewer
  <1>10. ASSUME NEW p \in Procs, markAsProcessed(p)
        PROVE  Drift
    <2>1. failures' = failures
      BY <1>10, markAsProcessedEffect DEF Counters
    <2>2. PICK l : Moves(p, l)
      BY <1>10, markAsProcessedEffect
    <2>3. \A f \in Events : FailingRun(p, f)' => FailingRun(p, f)
      BY <1>10, markAsProcessedEffect DEF Moves, FailingRun, At, Event
    <2> QED
      BY <2>1, <2>2, <2>3, OneFewer
  <1>11. ASSUME NEW p \in Procs, throwHandling(p)
        PROVE  Drift
    <2> USE <1>11, throwHandlingEffect
    <2>1. \A f \in Events : FailingRun(p, f)' => f = Event(p)
      BY DEF Moves, FailingRun, At, Event
    <2>2. \A f \in Events : failures'[f] = IF f = Event(p) THEN failures[f] + 1 ELSE failures[f]
      OBVIOUS
    <2>3. PICK l : Moves(p, l)
      OBVIOUS
    <2>4. ASSUME NEW f \in Events
          PROVE  /\ Cardinality(Failing(f)') + failures[f]
                       <= Cardinality(Failing(f)) + failures'[f]
                 /\ failures[f] <= failures'[f]
      <3>1. /\ Cardinality(Failing(f)) \in Nat
            /\ Cardinality(Failing(f)') \in Nat
            /\ Cardinality(Failing(f)') + (IF FailingRun(p, f) THEN 1 ELSE 0)
                  = Cardinality(Failing(f)) + (IF FailingRun(p, f)' THEN 1 ELSE 0)
        BY <2>3, FailingChange
      <3>2. FailingRun(p, f)' => f = Event(p)
        BY <2>1
      <3>3. failures[f] \in Nat
        BY RowType
      <3>4. failures'[f] = IF f = Event(p) THEN failures[f] + 1 ELSE failures[f]
        BY <2>2
      <3> QED
        BY <3>1, <3>2, <3>3, <3>4
    <2> QED
      BY <2>4 DEF Drift
  <1>12. ASSUME NEW p \in Procs, markAsFailed(p)
        PROVE  Drift
    <2>1. failures' = failures
      BY <1>12, markAsFailedEffect DEF Counters
    <2>2. PICK l : Moves(p, l)
      BY <1>12, markAsFailedEffect
    <2>3. \A f \in Events : FailingRun(p, f)' => FailingRun(p, f)
      BY <1>12, markAsFailedEffect DEF Moves, FailingRun, At, Event
    <2> QED
      BY <2>1, <2>2, <2>3, OneFewer
  <1>13. ASSUME NEW p \in Procs, saveFailed(p)
        PROVE  Drift
    <2>1. failures' = failures
      BY <1>13, saveFailedEffect DEF Counters
    <2>2. PICK l : Moves(p, l)
      BY <1>13, saveFailedEffect
    <2>3. \A f \in Events : FailingRun(p, f)' => FailingRun(p, f)
      BY <1>13, saveFailedEffect DEF Moves, FailingRun, At, Event
    <2> QED
      BY <2>1, <2>2, <2>3, OneFewer
  <1>14. ASSUME NEW p \in Procs, throw(p)
        PROVE  Drift
    <2>1. failures' = failures
      BY <1>14, throwEffect DEF Counters
    <2>2. PICK l : Moves(p, l)
      BY <1>14, throwEffect
    <2>3. \A f \in Events : FailingRun(p, f)' => FailingRun(p, f)
      BY <1>14, throwEffect DEF Moves, FailingRun, At, Event
    <2> QED
      BY <2>1, <2>2, <2>3, OneFewer
  <1>15. ASSUME NEW p \in Procs, timeout(p)
        PROVE  Drift
    <2>1. failures' = failures
      BY <1>15, timeoutEffect
    <2>2. Moves(p, pc[p])
      BY <1>15, timeoutEffect
    <2>3. \A f \in Events : FailingRun(p, f)' => FailingRun(p, f)
      BY <1>15, timeoutEffect DEF Moves, FailingRun, At, Event
    <2> QED
      BY <2>1, <2>2, <2>3, OneFewer
  <1>16. ASSUME NEW p \in Procs, crash(p)
        PROVE  Drift
    <2>1. failures' = failures
      BY <1>16, crashEffect DEF Counters
    <2>2. PICK l : Moves(p, l)
      BY <1>16, crashEffect
    <2>3. \A f \in Events : FailingRun(p, f)' => FailingRun(p, f)
      BY <1>16, crashEffect DEF Moves, FailingRun, At, Event
    <2> QED
      BY <2>1, <2>2, <2>3, OneFewer
  <1>17. ASSUME NEW p \in Procs, NEW e \in Events, retryDeadLetterEvent(p, e)
        PROVE  Drift
    <2>1. failures' = failures
      BY <1>17, retryDeadLetterEventEffect DEF Counters
    <2>2. PICK l : Moves(p, l)
      BY <1>17, retryDeadLetterEventEffect
    <2>3. \A f \in Events : FailingRun(p, f)' => FailingRun(p, f)
      BY <1>17, retryDeadLetterEventEffect DEF Moves, FailingRun, At, Event
    <2> QED
      BY <2>1, <2>2, <2>3, OneFewer
  <1>18. ASSUME NEW p \in Procs, NEW e \in Events, updateEvent(p, e)
        PROVE  Drift
    <2>1. failures' = failures
      BY <1>18, updateEventEffect DEF Counters
    <2>2. PICK l : Moves(p, l)
      BY <1>18, updateEventEffect
    <2>3. \A f \in Events : FailingRun(p, f)' => FailingRun(p, f)
      BY <1>18, updateEventEffect DEF Moves, FailingRun, At, Event
    <2> QED
      BY <2>1, <2>2, <2>3, OneFewer
  <1>19. ASSUME NEW p \in Procs, saveRequested(p)
        PROVE  Drift
    <2>1. failures' = failures
      BY <1>19, saveRequestedEffect DEF Counters
    <2>2. PICK l : Moves(p, l)
      BY <1>19, saveRequestedEffect
    <2>3. \A f \in Events : FailingRun(p, f)' => FailingRun(p, f)
      BY <1>19, saveRequestedEffect DEF Moves, FailingRun, At, Event
    <2> QED
      BY <2>1, <2>2, <2>3, OneFewer
  <1>20. ASSUME NEW p \in Procs, queueReset(p)
        PROVE  Drift
    <2>1. failures' = failures
      BY <1>20, queueResetEffect DEF Counters
    <2>2. PICK l : Moves(p, l)
      BY <1>20, queueResetEffect
    <2>3. \A f \in Events : FailingRun(p, f)' => FailingRun(p, f)
      BY <1>20, queueResetEffect DEF Moves, FailingRun, At, Event
    <2> QED
      BY <2>1, <2>2, <2>3, OneFewer
  <1> QED
    BY <1>1, <1>2, <1>3, <1>4, <1>5, <1>6, <1>7, <1>8, <1>9, <1>10,
       <1>11, <1>12, <1>13, <1>14, <1>15, <1>16, <1>17, <1>18, <1>19,
       <1>20
    DEF Next, TakeJob, Continue, Attempts

(* What a row or a copy counts, after the step.                            *)
After(c, e) == /\ c.retryCount + Cardinality(Failing(e)') <= failures'[e]
               /\ c.status = "dead_letter" => failures'[e] >= maxRetries

LEMMA DriftKeeps ==
    ASSUME TypeOK, Next, NEW c \in Copy, NEW e \in Events, Counted(c, e)
    PROVE  After(c, e)
  <1>1. c.retryCount \in Nat /\ failures[e] \in Nat /\ maxRetries \in Nat
    BY RowType, ConstantsAssumption DEF Copy
  <1>2. failures'[e] \in Nat
    BY TypeStep DEF TypeOK
  <1>3. Cardinality(Failing(e)) \in Nat
    BY FailingType
  <1>4. Cardinality(Failing(e)') \in Nat
    <2>1. Failing(e)' \in SUBSET Procs
      BY DEF Failing
    <2> QED
      BY <2>1, ConstantsAssumption, FS_Subset, FS_CardinalityType
  <1>5. /\ Cardinality(Failing(e)') + failures[e] <= Cardinality(Failing(e)) + failures'[e]
        /\ failures[e] <= failures'[e]
    BY DriftStep DEF Drift
  <1> QED
    BY <1>1, <1>2, <1>3, <1>4, <1>5 DEF Counted, After

LEMMA RowsCounted ==
    ASSUME TypeOK, Exhausted, Next
    PROVE  \A e \in Events : After(row'[e], e)
  <1>1. ASSUME NEW e \in Events
        PROVE  After(row[e], e)
    BY RowType, DriftKeeps DEF Exhausted
  <1>2. ASSUME NEW p \in Procs, pc[p] \in SaveLabels, NEW e \in Events, e = Event(p)
        PROVE  After(run[p].copy, e)
    BY <1>2, RunType, DriftKeeps DEF Exhausted
  <1>3. ASSUME NEW c, NEW d, NEW e \in Events, After(c, e),
               d.retryCount = c.retryCount, d.status # "dead_letter"
        PROVE  After(d, e)
    BY <1>3 DEF After
  <1>4. CASE row' = row
    BY <1>1, <1>4
  <1>5. ASSUME NEW e \in Events, createEvent(e)
        PROVE  \A f \in Events : After(row'[f], f)
    <2>1. After(row'[e], e)
      BY <1>1, <1>3, <1>5, createEventEffect
    <2> QED
      BY <1>1, <1>5, <2>1, createEventEffect
  <1>6. ASSUME NEW p \in Procs, saveProcessing(p) \/ markAsProcessed(p)
        PROVE  \A f \in Events : After(row'[f], f)
    <2>1. PICK e \in Events : e = Event(p)
      BY RunType
    <2>2. /\ pc[p] \in SaveLabels
          /\ row'[e].retryCount = run[p].copy.retryCount
          /\ row'[e].status # "dead_letter"
          /\ \A f \in Events : f # e => row'[f] = row[f]
      BY <1>6, <2>1, saveProcessingEffect, markAsProcessedEffect DEF SaveLabels
    <2>3. After(row'[e], e)
      BY <1>2, <1>3, <2>1, <2>2
    <2> QED
      BY <1>1, <2>2, <2>3
  <1>7. ASSUME NEW p \in Procs, saveFailed(p) \/ saveRequested(p)
        PROVE  \A f \in Events : After(row'[f], f)
    <2>1. PICK e \in Events : e = Event(p)
      BY RunType
    <2>2. pc[p] \in SaveLabels /\ Saved(e, run[p].copy)
      BY <1>7, <2>1, saveFailedEffect, saveRequestedEffect DEF SaveLabels
    <2> QED
      BY <1>1, <1>2, <2>1, <2>2 DEF Saved
  <1> QED
    BY <1>4, <1>5, <1>6, <1>7
    DEF Next, TakeJob, Continue, resetBreaker, handleEventCreated, rejectJob, fire,
        getEventById, readCopy, processEventByType, throwHandling, markAsFailed, throw,
        timeout, crash, retryDeadLetterEvent, updateEvent, Request, queueReset, store

(* The label, event and copy of a run after the step.                      *)
Copied(q) == \E e \in Events, c \in Copy : e = Event(q)' /\ c = run'[q].copy /\ After(c, e)

LEMMA CopiesCounted ==
    ASSUME NoDeadEdits, TypeOK, Exhausted, Next
    PROVE  \A q \in Procs : pc'[q] \in SaveLabels => Copied(q)
  <1>1. ASSUME NEW e \in Events
        PROVE  After(row[e], e) /\ row[e] \in Copy /\ Counted(row[e], e)
    BY RowType, DriftKeeps DEF Exhausted
  <1>2. ASSUME NEW q \in Procs, pc[q] \in SaveLabels, Event(q)' = Event(q),
               run'[q].copy = run[q].copy
        PROVE  Copied(q)
    <2>1. Event(q) \in Events /\ run[q].copy \in Copy /\ Counted(run[q].copy, Event(q))
      BY <1>2, RunType DEF Exhausted
    <2>2. PICK e \in Events, c \in Copy : e = Event(q) /\ c = run[q].copy
      BY <2>1
    <2>3. After(c, e)
      BY <2>1, <2>2, DriftKeeps
    <2> QED
      BY <1>2, <2>2, <2>3 DEF Copied
  <1>3. ASSUME NEW p \in Procs, NEW l, Moves(p, l), pc'[p] \in SaveLabels => Copied(p)
        PROVE  \A q \in Procs : pc'[q] \in SaveLabels => Copied(q)
    BY <1>2, <1>3 DEF Moves, Event
  <1>4. ASSUME NEW p \in Procs, NEW l, Moves(p, l), l \notin SaveLabels
        PROVE  \A q \in Procs : pc'[q] \in SaveLabels => Copied(q)
    BY <1>3, <1>4 DEF Moves
  <1>5. CASE Stand
    BY <1>2, <1>5 DEF Stand, Event
  <1>6. ASSUME NEW p \in Procs, readCopy(p)
        PROVE  \A q \in Procs : pc'[q] \in SaveLabels => Copied(q)
    <2>1. PICK e \in Events : e = Event(p)
      BY RunType
    <2>2. Event(p)' = e /\ run'[p].copy = row[e]
      BY <1>6, <2>1, readCopyEffect DEF Event
    <2>3. Copied(p)
      BY <1>1, <2>2 DEF Copied
    <2> QED
      BY <1>3, <1>6, <2>3, readCopyEffect
  <1>7. ASSUME NEW p \in Procs, markAsFailed(p)
        PROVE  \A q \in Procs : pc'[q] \in SaveLabels => Copied(q)
    <2>1. PICK e \in Events : e = Event(p)
      BY RunType
    <2>2. run'[p] \in Run
      BY TypeStep DEF TypeOK
    <2>3. PICK c \in Copy : c = run'[p].copy
      BY <2>2 DEF Run
    <2>4. /\ Event(p)' = e
          /\ c.retryCount = row[e].retryCount + 1
          /\ c.status = "dead_letter" => c.retryCount >= maxRetries
      BY <1>7, <2>1, <2>3, markAsFailedEffect DEF Event
    <2>5. FailingRun(p, e) /\ ~ FailingRun(p, e)'
      BY <1>7, <2>1, markAsFailedEffect DEF FailingRun, At, Moves
    <2>6. /\ Cardinality(Failing(e)) \in Nat
          /\ Cardinality(Failing(e)') \in Nat
          /\ Cardinality(Failing(e)') + 1 = Cardinality(Failing(e))
      BY <1>7, <2>5, FailingChange, markAsFailedEffect
    <2>7. failures'[e] = failures[e] /\ failures[e] \in Nat /\ row[e].retryCount \in Nat
      BY <1>7, RowType, markAsFailedEffect DEF Counters
    <2>8. row[e].retryCount + Cardinality(Failing(e)) <= failures[e] /\ maxRetries \in Nat
      BY <1>1, ConstantsAssumption DEF Counted
    <2>9. After(c, e)
      BY <2>4, <2>6, <2>7, <2>8 DEF After
    <2> QED
      BY <1>3, <1>7, <2>3, <2>4, <2>9, markAsFailedEffect DEF Copied
  <1>8. ASSUME NEW p \in Procs, timeout(p)
        PROVE  \A q \in Procs : pc'[q] \in SaveLabels => Copied(q)
    <2>1. pc'[p] = pc[p] /\ Event(p)' = Event(p) /\ run'[p].copy = run[p].copy
      BY <1>8, timeoutEffect DEF Moves, Event
    <2> QED
      BY <1>2, <1>3, <1>8, <2>1, timeoutEffect
  <1>9. ASSUME NEW p \in Procs, NEW e \in Events, retryDeadLetterEvent(p, e)
        PROVE  \A q \in Procs : pc'[q] \in SaveLabels => Copied(q)
    <2>1. PICK c : c = [status |-> "pending", retryCount |-> 0]
      OBVIOUS
    <2>2. c \in Copy /\ Event(p)' = e /\ c = run'[p].copy
      BY <1>9, <2>1, retryDeadLetterEventEffect DEF Copy, EventStatus, Event
    <2>3. Cardinality(Failing(e)') \in Nat /\ failures'[e] \in Nat
      <3>1. Failing(e)' \in SUBSET Procs
        BY DEF Failing
      <3> QED
        BY <3>1, ConstantsAssumption, FS_Subset, FS_CardinalityType, TypeStep DEF TypeOK
    <2>4. After(c, e)
      BY <1>1, <2>1, <2>3, RowType DEF After
    <2> QED
      BY <1>3, <1>9, <2>2, <2>4, retryDeadLetterEventEffect DEF Copied
  <1>10. ASSUME NEW p \in Procs, NEW e \in Events, updateEvent(p, e)
         PROVE  \A q \in Procs : pc'[q] \in SaveLabels => Copied(q)
    <2>1. run'[p] \in Run
      BY TypeStep DEF TypeOK
    <2>2. PICK c \in Copy : c = run'[p].copy
      BY <2>1 DEF Run
    <2>3. /\ Event(p)' = e
          /\ c.status \in {row[e].status} \cup EditStatuses
          /\ c.retryCount = row[e].retryCount
      BY <1>10, <2>2, updateEventEffect DEF Event
    <2>4. After(c, e)
      BY <1>1, <2>3 DEF After, NoDeadEdits
    <2> QED
      BY <1>3, <1>10, <2>2, <2>3, <2>4, updateEventEffect DEF Copied
  <1>11. ASSUME NEW e \in Events, createEvent(e)
         PROVE  \A q \in Procs : pc'[q] \in SaveLabels => Copied(q)
    BY <1>5, <1>11, createEventEffect
  <1>12. ASSUME NEW e \in Events, handleEventCreated(e)
         PROVE  \A q \in Procs : pc'[q] \in SaveLabels => Copied(q)
    BY <1>5, <1>12, handleEventCreatedEffect
  <1>13. ASSUME NEW e \in Events, NEW k \in Attempts, rejectJob(e, k)
         PROVE  \A q \in Procs : pc'[q] \in SaveLabels => Copied(q)
    BY <1>5, <1>13, rejectJobEffect
  <1>14. ASSUME NEW p \in Procs, NEW e \in Events, NEW k \in Attempts, fire(p, e, k)
         PROVE  \A q \in Procs : pc'[q] \in SaveLabels => Copied(q)
    BY <1>4, <1>14, fireEffect DEF SaveLabels
  <1>15. ASSUME NEW p \in Procs, getEventById(p)
         PROVE  \A q \in Procs : pc'[q] \in SaveLabels => Copied(q)
    BY <1>4, <1>15, getEventByIdEffect DEF SaveLabels
  <1>16. ASSUME NEW p \in Procs, saveProcessing(p)
         PROVE  \A q \in Procs : pc'[q] \in SaveLabels => Copied(q)
    BY <1>4, <1>16, saveProcessingEffect DEF SaveLabels
  <1>17. ASSUME NEW p \in Procs, processEventByType(p)
         PROVE  \A q \in Procs : pc'[q] \in SaveLabels => Copied(q)
    BY <1>4, <1>17, processEventByTypeEffect DEF SaveLabels
  <1>18. ASSUME NEW p \in Procs, markAsProcessed(p)
         PROVE  \A q \in Procs : pc'[q] \in SaveLabels => Copied(q)
    BY <1>4, <1>18, markAsProcessedEffect DEF SaveLabels
  <1>19. ASSUME NEW p \in Procs, throwHandling(p)
         PROVE  \A q \in Procs : pc'[q] \in SaveLabels => Copied(q)
    BY <1>4, <1>19, throwHandlingEffect DEF SaveLabels
  <1>20. ASSUME NEW p \in Procs, saveFailed(p)
         PROVE  \A q \in Procs : pc'[q] \in SaveLabels => Copied(q)
    BY <1>4, <1>20, saveFailedEffect DEF SaveLabels
  <1>21. ASSUME NEW p \in Procs, throw(p)
         PROVE  \A q \in Procs : pc'[q] \in SaveLabels => Copied(q)
    BY <1>4, <1>21, throwEffect DEF SaveLabels
  <1>22. ASSUME NEW p \in Procs, crash(p)
         PROVE  \A q \in Procs : pc'[q] \in SaveLabels => Copied(q)
    BY <1>4, <1>22, crashEffect DEF SaveLabels
  <1>23. ASSUME NEW p \in Procs, saveRequested(p)
         PROVE  \A q \in Procs : pc'[q] \in SaveLabels => Copied(q)
    BY <1>4, <1>23, saveRequestedEffect DEF SaveLabels
  <1>24. ASSUME NEW p \in Procs, queueReset(p)
         PROVE  \A q \in Procs : pc'[q] \in SaveLabels => Copied(q)
    BY <1>4, <1>24, queueResetEffect DEF SaveLabels
  <1>25. CASE resetBreaker
    BY <1>5, <1>25, resetBreakerEffect
  <1> QED
    BY <1>6, <1>7, <1>8, <1>9, <1>10, <1>11, <1>12, <1>13, <1>14, <1>15,
       <1>16, <1>17, <1>18, <1>19, <1>20, <1>21, <1>22, <1>23, <1>24,
       <1>25
    DEF Next, TakeJob, Continue, Attempts

LEMMA ExhaustedStep ==
    ASSUME NoDeadEdits, TypeOK, Exhausted, Next
    PROVE  Exhausted'
  <1>1. ASSUME NEW e \in Events
        PROVE  Counted(row[e], e)'
    BY RowsCounted DEF Counted, After
  <1>2. ASSUME NEW q \in Procs, pc'[q] \in SaveLabels
        PROVE  Counted(run[q].copy, Event(q))'
    <2>1. PICK e \in Events, c \in Copy : e = Event(q)' /\ c = run'[q].copy /\ After(c, e)
      BY <1>2, CopiesCounted DEF Copied
    <2>2. Failing(Event(q))' = Failing(e)'
      BY <2>1 DEF Failing, FailingRun
    <2> QED
      BY <2>1, <2>2 DEF Counted, After
  <1> QED
    BY <1>1, <1>2 DEF Exhausted
-----------------------------------------------------------------------------
(* How often an event is acted on.                                         *)

LEMMA GoingType ==
    ASSUME NEW e \in Events
    PROVE  Cardinality(Going(e)) \in Nat
  <1>1. Going(e) \in SUBSET Procs
    BY DEF Going
  <1> QED
    BY <1>1, ConstantsAssumption, FS_Subset, FS_CardinalityType

LEMMA GoingChange ==
    ASSUME NEW p \in Procs, NEW l, Moves(p, l), NEW e \in Events
    PROVE  /\ Cardinality(Going(e)) \in Nat
           /\ Cardinality(Going(e)') \in Nat
           /\ Cardinality(Going(e)') + (IF GoingRun(p, e) THEN 1 ELSE 0)
                 = Cardinality(Going(e)) + (IF GoingRun(p, e)' THEN 1 ELSE 0)
  <1> DEFINE S == Going(e)
             T == Going(e)'
  <1>1. S \in SUBSET Procs /\ T \in SUBSET Procs
    BY DEF Going
  <1>2. \A q \in Procs : (q \in S <=> GoingRun(q, e)) /\ (q \in T <=> GoingRun(q, e)')
    BY DEF Going
  <1>3. \A q \in Procs \ {p} : GoingRun(q, e)' <=> GoingRun(q, e)
    BY DEF GoingRun, At, Event, Moves
  <1> HIDE DEF S, T
  <1>4. S \ {p} = T \ {p}
    BY <1>1, <1>2, <1>3
  <1>5. /\ Cardinality(S) \in Nat
        /\ Cardinality(T) \in Nat
        /\ Cardinality(T) + (IF p \in S THEN 1 ELSE 0)
              = Cardinality(S) + (IF p \in T THEN 1 ELSE 0)
    BY <1>1, <1>4, CountChange
  <1>6. (p \in S <=> GoingRun(p, e)) /\ (p \in T <=> GoingRun(p, e)')
    BY <1>2
  <1> HIDE DEF GoingRun
  <1>7. /\ Cardinality(S) \in Nat
        /\ Cardinality(T) \in Nat
        /\ Cardinality(T) + (IF GoingRun(p, e) THEN 1 ELSE 0)
              = Cardinality(S) + (IF GoingRun(p, e)' THEN 1 ELSE 0)
    BY <1>5, <1>6
  <1> QED
    BY <1>7 DEF S, T

(* Nothing comes up about an event: what there is may only go away.        *)
Quiet(f) ==
    /\ row'[f] = row[f]
    /\ \A k \in Attempts : jobs'[f][k] = jobs[f][k]
    /\ handled'[f] = handled[f]
    /\ resets'[f] = resets[f]
    /\ f \in created' => f \in created
    /\ crashes' >= crashes
    /\ \A q \in Procs : At(q, f, Labels)' =>
          pc'[q] = "idle" \/ (pc'[q] = pc[q] /\ run'[q] = run[q])

LEMMA QuietKeeps ==
    ASSUME TypeOK, TypeOK', NEW f \in Events, Quiet(f)
    PROVE  (First(f) => First(f)') /\ (Later(f) => Later(f)')
  <1>1. ASSUME NEW q \in Procs, At(q, f, Labels \ {"idle"})'
        PROVE  pc'[q] = pc[q] /\ run'[q] = run[q] /\ Event(q) = f
    BY <1>1 DEF Quiet, At, Event
  <1>2. ASSUME NEW L \in SUBSET (Labels \ {"idle"}), NEW q \in Procs, At(q, f, L)'
        PROVE  At(q, f, L) /\ run'[q] = run[q]
    BY <1>1, <1>2 DEF At, Event
  <1>3. ASSUME NEW q \in Procs
        PROVE  /\ Running(q, f)' => Running(q, f) /\ run'[q] = run[q]
               /\ GoingRun(q, f)' => GoingRun(q, f)
               /\ At(q, f, {"saveProcessing", "saveProcessed", "saveEdit"})' =>
                     At(q, f, {"saveProcessing", "saveProcessed", "saveEdit"}) /\ run'[q] = run[q]
               /\ At(q, f, {"saveFailed"})' => At(q, f, {"saveFailed"}) /\ run'[q] = run[q]
               /\ At(q, f, {"saveEdit"})' => At(q, f, {"saveEdit"}) /\ run'[q] = run[q]
               /\ At(q, f, {"saveReset"})' => At(q, f, {"saveReset"}) /\ run'[q] = run[q]
               /\ At(q, f, {"saveReset", "queueReset"})' => At(q, f, {"saveReset", "queueReset"})
               /\ At(q, f, Early)' => At(q, f, Early)
               /\ At(q, f, {"handle"})' => At(q, f, {"handle"})
    BY <1>1 DEF At, Event, Running, GoingRun, RunLabels, Labels, Early
  <1>4. Quiet(f)
    OBVIOUS
  <1>5. ASSUME First(f)
        PROVE  First(f)'
    <2>1. OneJob(f)'
      BY <1>3, <1>4, <1>5 DEF First, OneJob, Quiet
    <2>2. ASSUME NEW n, Leaves(f, n)
          PROVE  Leaves(f, n)'
      BY <1>3, <1>4, <2>2 DEF Leaves, Quiet
    <2>3. Spared(f)'
      BY <1>3, <1>4, <1>5, <2>2 DEF First, Spared, Quiet
    <2>4. NeverDead(f)'
      BY <1>3, <1>4, <1>5 DEF First, NeverDead, Quiet
    <2>5. Due(f)'
      BY <1>3, <1>4, <1>5 DEF First, Due, Quiet
    <2> QED
      BY <2>1, <2>3, <2>4, <2>5 DEF First
  <1>6. ASSUME Later(f)
        PROVE  Later(f)'
    <2>1. Cardinality(Going(f)') <= Cardinality(Going(f))
      <3>1. Going(f)' \subseteq Going(f) /\ Going(f) \subseteq Procs
        BY <1>3 DEF Going
      <3> QED
        BY <3>1, ConstantsAssumption, FS_Subset
    <2>2. /\ Cardinality(Going(f)) \in Nat /\ Cardinality(Going(f)') \in Nat
          /\ handled[f] \in Nat /\ resets[f] \in Nat /\ jobs[f][1] \in Nat
          /\ crashes \in Nat /\ crashes' \in Nat
      <3>1. Going(f)' \in SUBSET Procs
        BY DEF Going
      <3>2. Cardinality(Going(f)') \in Nat
        BY <3>1, ConstantsAssumption, FS_Subset, FS_CardinalityType
      <3> QED
        BY <3>2, GoingType, RowType, AttemptsType DEF TypeOK
    <2>3. handled'[f] + jobs'[f][1] + Cardinality(Going(f)') <= 1 + resets'[f] + Slack(f)'
      BY <1>4, <1>6, <2>1, <2>2, AttemptsType DEF Later, Quiet, Slack
    <2>4. /\ f \notin created' /\ row'[f].status # "absent"
          /\ \A k \in Attempts : k > 1 => jobs'[f][k] = 0
      BY <1>4, <1>6 DEF Later, Quiet
    <2>5. \A q \in Procs : /\ Running(q, f)' => run'[q].left <= 1
                           /\ At(q, f, {"saveReset"})' => run'[q].copy.status = "pending"
      BY <1>3, <1>6 DEF Later
    <2>6. resets'[f] = 0 => /\ jobs'[f][1] = 0
                            /\ \A q \in Procs : ~ Running(q, f)' /\ ~ GoingRun(q, f)'
      BY <1>3, <1>4, <1>6, AttemptsType DEF Later, Quiet
    <2> QED
      BY <2>3, <2>4, <2>5, <2>6 DEF Later
  <1> QED
    BY <1>5, <1>6

(* What stays true of the runs that do not take the step.                  *)
Copying == {"saveProcessing", "saveProcessed", "saveEdit"}
Stands(q, e) ==
    /\ run'[q] = run[q]
    /\ Running(q, e)' <=> Running(q, e)
    /\ GoingRun(q, e)' <=> GoingRun(q, e)
    /\ \A L \in {Copying, {"saveFailed"}, {"saveEdit"}, {"saveReset"},
                 {"saveReset", "queueReset"}, Early, {"handle"}} :
          At(q, e, L)' <=> At(q, e, L)

LEMMA OthersStand ==
    ASSUME NEW p \in Procs, NEW l, Moves(p, l), NEW e
    PROVE  \A q \in Procs \ {p} : Stands(q, e)
  <1> SUFFICES ASSUME NEW q \in Procs \ {p}
               PROVE  Stands(q, e)
    OBVIOUS
  <1>1. run'[q] = run[q] /\ pc'[q] = pc[q]
    BY DEF Moves
  <1>2. ASSUME NEW L
        PROVE  At(q, e, L)' <=> At(q, e, L)
    BY <1>1 DEF At, Event
  <1> QED
    BY <1>1, <1>2 DEF Stands, Running, GoingRun

(* A step about e leaves the other events alone.                           *)
Kept(e) == \A f \in Events : f # e => Quiet(f)

LEMMA KeptByMove ==
    ASSUME TypeOK, NEW p \in Procs, NEW l, Moves(p, l), NEW e,
           l = "idle" \/ run'[p].event = e,
           NEW f \in Events, f # e,
           row'[f] = row[f], \A k \in Attempts : jobs'[f][k] = jobs[f][k],
           handled'[f] = handled[f], resets'[f] = resets[f],
           f \in created' => f \in created, crashes' >= crashes
    PROVE  Quiet(f)
  <1>1. ASSUME NEW q \in Procs, At(q, f, Labels)'
        PROVE  pc'[q] = "idle" \/ (pc'[q] = pc[q] /\ run'[q] = run[q])
    BY <1>1 DEF Moves, At, Event
  <1> QED
    BY <1>1 DEF Quiet

LEMMA KeptStanding ==
    ASSUME TypeOK, Stand, NEW f \in Events,
           row'[f] = row[f], \A k \in Attempts : jobs'[f][k] = jobs[f][k],
           handled'[f] = handled[f], resets'[f] = resets[f],
           f \in created' => f \in created, crashes' >= crashes
    PROVE  Quiet(f)
  BY DEF Quiet, Stand

LEMMA CrashesGrow ==
    ASSUME TypeOK
    PROVE  /\ crashes \in Nat
           /\ crashes' = crashes \/ crashes' = crashes + 1 => crashes' >= crashes
  BY DEF TypeOK

LEMMA createEventKept ==
    ASSUME TypeOK, NEW e \in Events, createEvent(e)
    PROVE  Kept(e)
  <1> SUFFICES ASSUME NEW f \in Events, f # e
               PROVE  Quiet(f)
    BY DEF Kept
  <1>1. /\ row'[f] = row[f]
        /\ \A i \in Attempts : jobs'[f][i] = jobs[f][i]
        /\ handled'[f] = handled[f] /\ resets'[f] = resets[f]
        /\ f \in created' => f \in created
        /\ crashes' >= crashes
    BY createEventEffect, CrashesGrow
    DEF Counters, Saved, Added, Taken, Rejected, Again, JobsElse
  <1> QED
    BY <1>1, createEventEffect, KeptStanding

LEMMA handleEventCreatedKept ==
    ASSUME TypeOK, NEW e \in Events, handleEventCreated(e)
    PROVE  Kept(e)
  <1> SUFFICES ASSUME NEW f \in Events, f # e
               PROVE  Quiet(f)
    BY DEF Kept
  <1>1. /\ row'[f] = row[f]
        /\ \A i \in Attempts : jobs'[f][i] = jobs[f][i]
        /\ handled'[f] = handled[f] /\ resets'[f] = resets[f]
        /\ f \in created' => f \in created
        /\ crashes' >= crashes
    BY handleEventCreatedEffect, CrashesGrow, RunType, AttemptsType
    DEF Counters, Saved, Added, Taken, Rejected, Again, JobsElse
  <1> QED
    BY <1>1, handleEventCreatedEffect, KeptStanding

LEMMA rejectJobKept ==
    ASSUME TypeOK, NEW e \in Events, NEW k \in Attempts, rejectJob(e, k)
    PROVE  Kept(e)
  <1> SUFFICES ASSUME NEW f \in Events, f # e
               PROVE  Quiet(f)
    BY DEF Kept
  <1>1. /\ row'[f] = row[f]
        /\ \A i \in Attempts : jobs'[f][i] = jobs[f][i]
        /\ handled'[f] = handled[f] /\ resets'[f] = resets[f]
        /\ f \in created' => f \in created
        /\ crashes' >= crashes
    BY rejectJobEffect, CrashesGrow
    DEF Counters, Saved, Added, Taken, Rejected, Again, JobsElse
  <1> QED
    BY <1>1, rejectJobEffect, KeptStanding

LEMMA fireKept ==
    ASSUME TypeOK, NEW p \in Procs, NEW e \in Events, NEW k \in Attempts, fire(p, e, k)
    PROVE  Kept(e)
  <1> SUFFICES ASSUME NEW f \in Events, f # e
               PROVE  Quiet(f)
    BY DEF Kept
  <1>1. /\ row'[f] = row[f]
        /\ \A i \in Attempts : jobs'[f][i] = jobs[f][i]
        /\ handled'[f] = handled[f] /\ resets'[f] = resets[f]
        /\ f \in created' => f \in created
        /\ crashes' >= crashes
    BY fireEffect, CrashesGrow
    DEF Counters, Saved, Added, Taken, Rejected, Again, JobsElse
  <1>2. PICK l : Moves(p, l) /\ (l = "idle" \/ run'[p].event = e)
    BY fireEffect DEF Event
  <1> QED
    BY <1>1, <1>2, KeptByMove

LEMMA getEventByIdKept ==
    ASSUME TypeOK, NEW p \in Procs, getEventById(p)
    PROVE  Kept(Event(p))
  <1> SUFFICES ASSUME NEW f \in Events, f # Event(p)
               PROVE  Quiet(f)
    BY DEF Kept
  <1>1. /\ row'[f] = row[f]
        /\ \A i \in Attempts : jobs'[f][i] = jobs[f][i]
        /\ handled'[f] = handled[f] /\ resets'[f] = resets[f]
        /\ f \in created' => f \in created
        /\ crashes' >= crashes
    BY getEventByIdEffect, CrashesGrow
    DEF Counters, Saved, Added, Taken, Rejected, Again, JobsElse
  <1>2. PICK l : Moves(p, l) /\ (l = "idle" \/ run'[p].event = Event(p))
    BY getEventByIdEffect DEF Event
  <1> QED
    BY <1>1, <1>2, KeptByMove

LEMMA readCopyKept ==
    ASSUME TypeOK, NEW p \in Procs, readCopy(p)
    PROVE  Kept(Event(p))
  <1> SUFFICES ASSUME NEW f \in Events, f # Event(p)
               PROVE  Quiet(f)
    BY DEF Kept
  <1>1. /\ row'[f] = row[f]
        /\ \A i \in Attempts : jobs'[f][i] = jobs[f][i]
        /\ handled'[f] = handled[f] /\ resets'[f] = resets[f]
        /\ f \in created' => f \in created
        /\ crashes' >= crashes
    BY readCopyEffect, CrashesGrow
    DEF Counters, Saved, Added, Taken, Rejected, Again, JobsElse
  <1>2. PICK l : Moves(p, l) /\ (l = "idle" \/ run'[p].event = Event(p))
    BY readCopyEffect DEF Event
  <1> QED
    BY <1>1, <1>2, KeptByMove

LEMMA saveProcessingKept ==
    ASSUME TypeOK, NEW p \in Procs, saveProcessing(p)
    PROVE  Kept(Event(p))
  <1> SUFFICES ASSUME NEW f \in Events, f # Event(p)
               PROVE  Quiet(f)
    BY DEF Kept
  <1>1. /\ row'[f] = row[f]
        /\ \A i \in Attempts : jobs'[f][i] = jobs[f][i]
        /\ handled'[f] = handled[f] /\ resets'[f] = resets[f]
        /\ f \in created' => f \in created
        /\ crashes' >= crashes
    BY saveProcessingEffect, CrashesGrow
    DEF Counters, Saved, Added, Taken, Rejected, Again, JobsElse
  <1>2. PICK l : Moves(p, l) /\ (l = "idle" \/ run'[p].event = Event(p))
    BY saveProcessingEffect DEF Event
  <1> QED
    BY <1>1, <1>2, KeptByMove

LEMMA processEventByTypeKept ==
    ASSUME TypeOK, NEW p \in Procs, processEventByType(p)
    PROVE  Kept(Event(p))
  <1> SUFFICES ASSUME NEW f \in Events, f # Event(p)
               PROVE  Quiet(f)
    BY DEF Kept
  <1>1. /\ row'[f] = row[f]
        /\ \A i \in Attempts : jobs'[f][i] = jobs[f][i]
        /\ handled'[f] = handled[f] /\ resets'[f] = resets[f]
        /\ f \in created' => f \in created
        /\ crashes' >= crashes
    BY processEventByTypeEffect, CrashesGrow
    DEF Counters, Saved, Added, Taken, Rejected, Again, JobsElse
  <1>2. PICK l : Moves(p, l) /\ (l = "idle" \/ run'[p].event = Event(p))
    BY processEventByTypeEffect DEF Event
  <1> QED
    BY <1>1, <1>2, KeptByMove

LEMMA markAsProcessedKept ==
    ASSUME TypeOK, NEW p \in Procs, markAsProcessed(p)
    PROVE  Kept(Event(p))
  <1> SUFFICES ASSUME NEW f \in Events, f # Event(p)
               PROVE  Quiet(f)
    BY DEF Kept
  <1>1. /\ row'[f] = row[f]
        /\ \A i \in Attempts : jobs'[f][i] = jobs[f][i]
        /\ handled'[f] = handled[f] /\ resets'[f] = resets[f]
        /\ f \in created' => f \in created
        /\ crashes' >= crashes
    BY markAsProcessedEffect, CrashesGrow
    DEF Counters, Saved, Added, Taken, Rejected, Again, JobsElse
  <1>2. PICK l : Moves(p, l) /\ (l = "idle" \/ run'[p].event = Event(p))
    BY markAsProcessedEffect DEF Event
  <1> QED
    BY <1>1, <1>2, KeptByMove

LEMMA throwHandlingKept ==
    ASSUME TypeOK, NEW p \in Procs, throwHandling(p)
    PROVE  Kept(Event(p))
  <1> SUFFICES ASSUME NEW f \in Events, f # Event(p)
               PROVE  Quiet(f)
    BY DEF Kept
  <1>1. /\ row'[f] = row[f]
        /\ \A i \in Attempts : jobs'[f][i] = jobs[f][i]
        /\ handled'[f] = handled[f] /\ resets'[f] = resets[f]
        /\ f \in created' => f \in created
        /\ crashes' >= crashes
    BY throwHandlingEffect, CrashesGrow
    DEF Counters, Saved, Added, Taken, Rejected, Again, JobsElse
  <1>2. PICK l : Moves(p, l) /\ (l = "idle" \/ run'[p].event = Event(p))
    BY throwHandlingEffect DEF Event
  <1> QED
    BY <1>1, <1>2, KeptByMove

LEMMA markAsFailedKept ==
    ASSUME TypeOK, NEW p \in Procs, markAsFailed(p)
    PROVE  Kept(Event(p))
  <1> SUFFICES ASSUME NEW f \in Events, f # Event(p)
               PROVE  Quiet(f)
    BY DEF Kept
  <1>1. /\ row'[f] = row[f]
        /\ \A i \in Attempts : jobs'[f][i] = jobs[f][i]
        /\ handled'[f] = handled[f] /\ resets'[f] = resets[f]
        /\ f \in created' => f \in created
        /\ crashes' >= crashes
    BY markAsFailedEffect, CrashesGrow
    DEF Counters, Saved, Added, Taken, Rejected, Again, JobsElse
  <1>2. PICK l : Moves(p, l) /\ (l = "idle" \/ run'[p].event = Event(p))
    BY markAsFailedEffect DEF Event
  <1> QED
    BY <1>1, <1>2, KeptByMove

LEMMA saveFailedKept ==
    ASSUME TypeOK, NEW p \in Procs, saveFailed(p)
    PROVE  Kept(Event(p))
  <1> SUFFICES ASSUME NEW f \in Events, f # Event(p)
               PROVE  Quiet(f)
    BY DEF Kept
  <1>1. /\ row'[f] = row[f]
        /\ \A i \in Attempts : jobs'[f][i] = jobs[f][i]
        /\ handled'[f] = handled[f] /\ resets'[f] = resets[f]
        /\ f \in created' => f \in created
        /\ crashes' >= crashes
    BY saveFailedEffect, CrashesGrow, RunType, AttemptsType
    DEF Counters, Saved, Added, Taken, Rejected, Again, JobsElse, Attempts
  <1>2. PICK l : Moves(p, l) /\ (l = "idle" \/ run'[p].event = Event(p))
    BY saveFailedEffect DEF Event
  <1> QED
    BY <1>1, <1>2, KeptByMove

LEMMA throwKept ==
    ASSUME TypeOK, NEW p \in Procs, throw(p)
    PROVE  Kept(Event(p))
  <1> SUFFICES ASSUME NEW f \in Events, f # Event(p)
               PROVE  Quiet(f)
    BY DEF Kept
  <1>1. /\ row'[f] = row[f]
        /\ \A i \in Attempts : jobs'[f][i] = jobs[f][i]
        /\ handled'[f] = handled[f] /\ resets'[f] = resets[f]
        /\ f \in created' => f \in created
        /\ crashes' >= crashes
    BY throwEffect, CrashesGrow, RunType, AttemptsType
    DEF Counters, Saved, Added, Taken, Rejected, Again, JobsElse, Attempts
  <1>2. PICK l : Moves(p, l) /\ (l = "idle" \/ run'[p].event = Event(p))
    BY throwEffect DEF Event
  <1> QED
    BY <1>1, <1>2, KeptByMove

LEMMA crashKept ==
    ASSUME TypeOK, NEW p \in Procs, crash(p)
    PROVE  Kept(Event(p))
  <1> SUFFICES ASSUME NEW f \in Events, f # Event(p)
               PROVE  Quiet(f)
    BY DEF Kept
  <1>1. /\ row'[f] = row[f]
        /\ \A i \in Attempts : jobs'[f][i] = jobs[f][i]
        /\ handled'[f] = handled[f] /\ resets'[f] = resets[f]
        /\ f \in created' => f \in created
        /\ crashes' >= crashes
    BY crashEffect, CrashesGrow, RunType, AttemptsType
    DEF Counters, Saved, Added, Taken, Rejected, Again, JobsElse, Attempts
  <1>2. PICK l : Moves(p, l) /\ (l = "idle" \/ run'[p].event = Event(p))
    BY crashEffect DEF Event
  <1> QED
    BY <1>1, <1>2, KeptByMove

LEMMA retryDeadLetterEventKept ==
    ASSUME TypeOK, NEW p \in Procs, NEW e \in Events, retryDeadLetterEvent(p, e)
    PROVE  Kept(e)
  <1> SUFFICES ASSUME NEW f \in Events, f # e
               PROVE  Quiet(f)
    BY DEF Kept
  <1>1. /\ row'[f] = row[f]
        /\ \A i \in Attempts : jobs'[f][i] = jobs[f][i]
        /\ handled'[f] = handled[f] /\ resets'[f] = resets[f]
        /\ f \in created' => f \in created
        /\ crashes' >= crashes
    BY retryDeadLetterEventEffect, CrashesGrow
    DEF Counters, Saved, Added, Taken, Rejected, Again, JobsElse
  <1>2. PICK l : Moves(p, l) /\ (l = "idle" \/ run'[p].event = e)
    BY retryDeadLetterEventEffect DEF Event
  <1> QED
    BY <1>1, <1>2, KeptByMove

LEMMA updateEventKept ==
    ASSUME TypeOK, NEW p \in Procs, NEW e \in Events, updateEvent(p, e)
    PROVE  Kept(e)
  <1> SUFFICES ASSUME NEW f \in Events, f # e
               PROVE  Quiet(f)
    BY DEF Kept
  <1>1. /\ row'[f] = row[f]
        /\ \A i \in Attempts : jobs'[f][i] = jobs[f][i]
        /\ handled'[f] = handled[f] /\ resets'[f] = resets[f]
        /\ f \in created' => f \in created
        /\ crashes' >= crashes
    BY updateEventEffect, CrashesGrow
    DEF Counters, Saved, Added, Taken, Rejected, Again, JobsElse
  <1>2. PICK l : Moves(p, l) /\ (l = "idle" \/ run'[p].event = e)
    BY updateEventEffect DEF Event
  <1> QED
    BY <1>1, <1>2, KeptByMove

LEMMA saveRequestedKept ==
    ASSUME TypeOK, NEW p \in Procs, saveRequested(p)
    PROVE  Kept(Event(p))
  <1> SUFFICES ASSUME NEW f \in Events, f # Event(p)
               PROVE  Quiet(f)
    BY DEF Kept
  <1>1. /\ row'[f] = row[f]
        /\ \A i \in Attempts : jobs'[f][i] = jobs[f][i]
        /\ handled'[f] = handled[f] /\ resets'[f] = resets[f]
        /\ f \in created' => f \in created
        /\ crashes' >= crashes
    BY saveRequestedEffect, CrashesGrow
    DEF Counters, Saved, Added, Taken, Rejected, Again, JobsElse
  <1>2. PICK l : Moves(p, l) /\ (l = "idle" \/ run'[p].event = Event(p))
    BY saveRequestedEffect DEF Event
  <1> QED
    BY <1>1, <1>2, KeptByMove

LEMMA queueResetKept ==
    ASSUME TypeOK, NEW p \in Procs, queueReset(p)
    PROVE  Kept(Event(p))
  <1> SUFFICES ASSUME NEW f \in Events, f # Event(p)
               PROVE  Quiet(f)
    BY DEF Kept
  <1>1. /\ row'[f] = row[f]
        /\ \A i \in Attempts : jobs'[f][i] = jobs[f][i]
        /\ handled'[f] = handled[f] /\ resets'[f] = resets[f]
        /\ f \in created' => f \in created
        /\ crashes' >= crashes
    BY queueResetEffect, CrashesGrow, RunType, AttemptsType
    DEF Counters, Saved, Added, Taken, Rejected, Again, JobsElse
  <1>2. PICK l : Moves(p, l) /\ (l = "idle" \/ run'[p].event = Event(p))
    BY queueResetEffect DEF Event
  <1> QED
    BY <1>1, <1>2, KeptByMove

(* An event is on its first job, or past it.                               *)
Goes(e) == First(e) \/ Later(e)

LEMMA fireActs ==
    ASSUME TypeOK, TypeOK', Present, NEW p \in Procs, NEW e \in Events,
           NEW k \in Attempts, fire(p, e, k)
    PROVE  Goes(e) => Goes(e)'
  <1>q. \A q \in Procs \ {p} : Stands(q, e)
    BY fireEffect, OthersStand
  <1>p. /\ ~ Running(p, e)
        /\ ~ GoingRun(p, e)
        /\ ~ At(p, e, Copying)
        /\ ~ At(p, e, {"saveFailed"})
        /\ ~ At(p, e, {"saveEdit"})
        /\ ~ At(p, e, {"saveReset"})
        /\ ~ At(p, e, {"saveReset", "queueReset"})
        /\ ~ At(p, e, Early)
        /\ ~ At(p, e, {"handle"})
        /\ Running(p, e)'
        /\ GoingRun(p, e)'
        /\ ~ At(p, e, Copying)'
        /\ ~ At(p, e, {"saveFailed"})'
        /\ ~ At(p, e, {"saveEdit"})'
        /\ ~ At(p, e, {"saveReset"})'
        /\ ~ At(p, e, {"saveReset", "queueReset"})'
        /\ ~ At(p, e, Early)'
        /\ ~ At(p, e, {"handle"})'
    BY fireEffect, NoRunType, SomeEventType
    DEF Moves, At, Event, Running, GoingRun, RunLabels, Early, Copying
  <1>s. row'[e] = row[e] /\ created' = created /\ Counters' = Counters
    BY fireEffect
  <1>j. /\ jobs[e][k] > 0 /\ jobs'[e][k] = jobs[e][k] - 1
        /\ \A i \in Attempts : i # k => jobs'[e][i] = jobs[e][i]
        /\ \A i \in Attempts : jobs[e][i] \in Nat
    BY fireEffect, RowType DEF Taken, JobsElse
  <1>r. run'[p].left = k /\ k > 0
    BY fireEffect, AttemptsType
  <1>1. ASSUME First(e)
        PROVE  First(e)'
    <2>1. OneJob(e)'
      BY <1>q, <1>p, <1>1, <1>s, <1>j, <1>r DEF First, OneJob, Stands, Counters
    <2>2. ASSUME NEW n \in Nat, Leaves(e, n)
          PROVE  Leaves(e, n)'
      BY <1>q, <1>p, <1>1, <1>s, <1>j, <1>r, <2>2
      DEF First, Leaves, Stands, Copying, Counters
    <2>3. Spared(e)'
      BY <1>q, <1>p, <1>1, <1>s, <1>j, <1>r, <2>2, RunType, AttemptsType
      DEF First, Spared, Stands, Counters
    <2>4. NeverDead(e)'
      BY <1>q, <1>p, <1>1, <1>s, <1>j, <1>r DEF First, NeverDead, Stands, Counters
    <2>5. Due(e)'
      BY <1>q, <1>p, <1>1, <1>s, <1>j, <1>r, RowType
      DEF First, OneJob, Due, Stands, Counters
    <2> QED
      BY <2>1, <2>3, <2>4, <2>5 DEF First
  <1>2. ASSUME Later(e)
        PROVE  Later(e)'
    <2>k. k = 1 /\ resets[e] # 0
      BY <1>2, <1>j, <1>r, AttemptsType DEF Later
    <2>1. /\ Cardinality(Going(e)) \in Nat /\ Cardinality(Going(e)') \in Nat
          /\ Cardinality(Going(e)') + (IF GoingRun(p, e) THEN 1 ELSE 0)
                = Cardinality(Going(e)) + (IF GoingRun(p, e)' THEN 1 ELSE 0)
      BY fireEffect, GoingChange
    <2>2. /\ handled[e] \in Nat /\ resets[e] \in Nat /\ jobs[e][1] \in Nat
          /\ crashes \in Nat /\ crashes' \in Nat
      BY RowType, AttemptsType DEF TypeOK
    <2>3. handled'[e] + jobs'[e][1] + Cardinality(Going(e)') <= 1 + resets'[e] + Slack(e)'
      BY <1>q, <1>p, <1>2, <1>s, <1>j, <1>r, <2>k, <2>1, <2>2, AttemptsType
      DEF Later, Slack, Counters
    <2>4. /\ e \notin created' /\ row'[e].status # "absent"
          /\ \A i \in Attempts : i > 1 => jobs'[e][i] = 0
      BY <1>q, <1>p, <1>2, <1>s, <1>j, <1>r, <2>k, AttemptsType DEF Later, Counters
    <2>5. \A q \in Procs : /\ Running(q, e)' => run'[q].left <= 1
                           /\ At(q, e, {"saveReset"})' => run'[q].copy.status = "pending"
      BY <1>q, <1>p, <1>2, <1>s, <1>j, <1>r, <2>k DEF Later, Stands, Counters
    <2>6. resets'[e] = 0 => /\ jobs'[e][1] = 0
                            /\ \A q \in Procs : ~ Running(q, e)' /\ ~ GoingRun(q, e)'
      BY <1>q, <1>p, <1>2, <1>s, <1>j, <1>r, <2>k, <2>2, AttemptsType
      DEF Later, Stands, Counters
    <2> QED
      BY <2>3, <2>4, <2>5, <2>6 DEF Later
  <1> QED
    BY <1>1, <1>2 DEF Goes

LEMMA processEventByTypeActs ==
    ASSUME TypeOK, TypeOK', Present, NEW p \in Procs, processEventByType(p),
           NEW e \in Events, e = Event(p)
    PROVE  Goes(e) => Goes(e)'
  <1>q. \A q \in Procs \ {p} : Stands(q, e)
    BY processEventByTypeEffect, OthersStand
  <1>p. /\ Running(p, e)
        /\ GoingRun(p, e)
        /\ At(p, e, Early)
        /\ At(p, e, {"handle"})
        /\ ~ At(p, e, Copying)
        /\ ~ At(p, e, {"saveFailed"})
        /\ ~ At(p, e, {"saveEdit"})
        /\ ~ At(p, e, {"saveReset"})
        /\ ~ At(p, e, {"saveReset", "queueReset"})
        /\ Running(p, e)'
        /\ ~ GoingRun(p, e)'
        /\ ~ At(p, e, Copying)'
        /\ ~ At(p, e, {"saveFailed"})'
        /\ ~ At(p, e, {"saveEdit"})'
        /\ ~ At(p, e, {"saveReset"})'
        /\ ~ At(p, e, {"saveReset", "queueReset"})'
        /\ ~ At(p, e, Early)'
        /\ ~ At(p, e, {"handle"})'
    BY processEventByTypeEffect, NoRunType, SomeEventType
    DEF Moves, At, Event, Running, GoingRun, RunLabels, Early, Copying
  <1>s. /\ row' = row /\ created' = created /\ jobs' = jobs /\ run' = run
        /\ handled'[e] = handled[e] + 1
        /\ resets' = resets /\ crashes' = crashes
    BY processEventByTypeEffect
  <1>1. ASSUME First(e)
        PROVE  First(e)'
    <2>1. OneJob(e)'
      BY <1>q, <1>p, <1>1, <1>s DEF First, OneJob, Stands
    <2>2. ASSUME NEW n \in Nat, Leaves(e, n)
          PROVE  Leaves(e, n)'
      BY <1>q, <1>p, <1>1, <1>s, <2>2 DEF First, Leaves, Stands, Copying
    <2>3. Spared(e)'
      BY <1>q, <1>p, <1>1, <1>s, <2>2, RunType, AttemptsType DEF First, Spared, Stands
    <2>4. NeverDead(e)'
      BY <1>q, <1>p, <1>1, <1>s DEF First, NeverDead, Stands
    <2>e. \A q \in Procs : q # p => ~ Running(q, e) /\ ~ At(q, e, Early) /\ ~ At(q, e, {"handle"})
      BY <1>p, <1>1 DEF First, OneJob, Running, At, Early, RunLabels
    <2>5. Due(e)'
      BY <1>q, <1>p, <1>1, <1>s, <2>e, RowType DEF First, OneJob, Due, Stands
    <2> QED
      BY <2>1, <2>3, <2>4, <2>5 DEF First
  <1>2. ASSUME Later(e)
        PROVE  Later(e)'
    <2>1. /\ Cardinality(Going(e)) \in Nat /\ Cardinality(Going(e)') \in Nat
          /\ Cardinality(Going(e)') + (IF GoingRun(p, e) THEN 1 ELSE 0)
                = Cardinality(Going(e)) + (IF GoingRun(p, e)' THEN 1 ELSE 0)
      BY processEventByTypeEffect, GoingChange
    <2>2. /\ handled[e] \in Nat /\ resets[e] \in Nat /\ jobs[e][1] \in Nat
          /\ crashes \in Nat /\ crashes' \in Nat
      BY RowType, AttemptsType DEF TypeOK
    <2>3. handled'[e] + jobs'[e][1] + Cardinality(Going(e)') <= 1 + resets'[e] + Slack(e)'
      BY <1>q, <1>p, <1>2, <1>s, <2>1, <2>2, AttemptsType DEF Later, Slack
    <2>4. /\ e \notin created' /\ row'[e].status # "absent"
          /\ \A k \in Attempts : k > 1 => jobs'[e][k] = 0
      BY <1>q, <1>p, <1>2, <1>s, AttemptsType DEF Later
    <2>5. \A q \in Procs : /\ Running(q, e)' => run'[q].left <= 1
                           /\ At(q, e, {"saveReset"})' => run'[q].copy.status = "pending"
      BY <1>q, <1>p, <1>2, <1>s DEF Later, Stands
    <2>6. resets'[e] = 0 => /\ jobs'[e][1] = 0
                            /\ \A q \in Procs : ~ Running(q, e)' /\ ~ GoingRun(q, e)'
      BY <1>q, <1>p, <1>2, <1>s, <2>2, AttemptsType DEF Later, Stands
    <2> QED
      BY <2>3, <2>4, <2>5, <2>6 DEF Later
  <1> QED
    BY <1>1, <1>2 DEF Goes

LEMMA throwHandlingActs ==
    ASSUME TypeOK, TypeOK', Present, NEW p \in Procs, throwHandling(p),
           NEW e \in Events, e = Event(p)
    PROVE  Goes(e) => Goes(e)'
  <1>q. \A q \in Procs \ {p} : Stands(q, e)
    BY throwHandlingEffect, OthersStand
  <1>p. /\ Running(p, e)'
        /\ ~ GoingRun(p, e)'
        /\ ~ At(p, e, Copying)'
        /\ ~ At(p, e, {"saveFailed"})'
        /\ ~ At(p, e, {"saveEdit"})'
        /\ ~ At(p, e, {"saveReset"})'
        /\ ~ At(p, e, {"saveReset", "queueReset"})'
        /\ ~ At(p, e, Early)'
        /\ ~ At(p, e, {"handle"})'
    BY throwHandlingEffect, NoRunType, SomeEventType
    DEF Moves, At, Event, Running, GoingRun, RunLabels, Early, Copying
  <1>r. Running(p, e) /\ ~ At(p, e, {"saveFailed"})
    BY throwHandlingEffect DEF Running, At, RunLabels
  <1>s. /\ row' = row /\ created' = created /\ jobs' = jobs /\ run' = run
        /\ handled' = handled /\ resets' = resets /\ crashes' = crashes
    BY throwHandlingEffect
  <1>1. ASSUME First(e)
        PROVE  First(e)'
    <2>1. OneJob(e)'
      BY <1>q, <1>p, <1>1, <1>s, <1>r DEF First, OneJob, Stands
    <2>2. ASSUME NEW n \in Nat, Leaves(e, n)
          PROVE  Leaves(e, n)'
      BY <1>q, <1>p, <1>1, <1>s, <1>r, <2>2 DEF First, Leaves, Stands, Copying
    <2>3. Spared(e)'
      BY <1>q, <1>p, <1>1, <1>s, <1>r, <2>2, RunType, AttemptsType
      DEF First, Spared, Stands
    <2>4. NeverDead(e)'
      BY <1>q, <1>p, <1>1, <1>s, <1>r DEF First, NeverDead, Stands
    <2>5. Due(e)'
      BY <1>q, <1>p, <1>1, <1>s, <1>r, RowType DEF First, OneJob, Due, Stands
    <2> QED
      BY <2>1, <2>3, <2>4, <2>5 DEF First
  <1>2. ASSUME Later(e)
        PROVE  Later(e)'
    <2>1. /\ Cardinality(Going(e)) \in Nat /\ Cardinality(Going(e)') \in Nat
          /\ Cardinality(Going(e)') + (IF GoingRun(p, e) THEN 1 ELSE 0)
                = Cardinality(Going(e)) + (IF GoingRun(p, e)' THEN 1 ELSE 0)
      BY throwHandlingEffect, GoingChange
    <2>2. /\ handled[e] \in Nat /\ resets[e] \in Nat /\ jobs[e][1] \in Nat
          /\ crashes \in Nat /\ crashes' \in Nat
      BY RowType, AttemptsType DEF TypeOK
    <2>3. handled'[e] + jobs'[e][1] + Cardinality(Going(e)') <= 1 + resets'[e] + Slack(e)'
      BY <1>q, <1>p, <1>2, <1>s, <1>r, <2>1, <2>2, AttemptsType DEF Later, Slack
    <2>4. /\ e \notin created' /\ row'[e].status # "absent"
          /\ \A k \in Attempts : k > 1 => jobs'[e][k] = 0
      BY <1>q, <1>p, <1>2, <1>s, <1>r, AttemptsType DEF Later
    <2>5. \A q \in Procs : /\ Running(q, e)' => run'[q].left <= 1
                           /\ At(q, e, {"saveReset"})' => run'[q].copy.status = "pending"
      BY <1>q, <1>p, <1>2, <1>s, <1>r DEF Later, Stands
    <2>6. resets'[e] = 0 => /\ jobs'[e][1] = 0
                            /\ \A q \in Procs : ~ Running(q, e)' /\ ~ GoingRun(q, e)'
      BY <1>q, <1>p, <1>2, <1>s, <1>r, <2>2, AttemptsType DEF Later, Stands
    <2> QED
      BY <2>3, <2>4, <2>5, <2>6 DEF Later
  <1> QED
    BY <1>1, <1>2 DEF Goes
LEMMA getEventByIdReads ==
    ASSUME TypeOK, TypeOK', Present, NEW p \in Procs, getEventById(p), Moves(p, "mark"),
           run' = run,
           row[Event(p)].status = "pending", NEW e \in Events, e = Event(p)
    PROVE  Goes(e) => Goes(e)'
  <1>q. \A q \in Procs \ {p} : Stands(q, e)
    BY OthersStand
  <1>p. /\ Running(p, e)
        /\ GoingRun(p, e)
        /\ ~ At(p, e, Copying)
        /\ ~ At(p, e, {"saveFailed"})
        /\ ~ At(p, e, {"saveEdit"})
        /\ ~ At(p, e, {"saveReset"})
        /\ ~ At(p, e, {"saveReset", "queueReset"})
        /\ ~ At(p, e, Early)
        /\ ~ At(p, e, {"handle"})
        /\ Running(p, e)'
        /\ GoingRun(p, e)'
        /\ At(p, e, Early)'
        /\ ~ At(p, e, Copying)'
        /\ ~ At(p, e, {"saveFailed"})'
        /\ ~ At(p, e, {"saveEdit"})'
        /\ ~ At(p, e, {"saveReset"})'
        /\ ~ At(p, e, {"saveReset", "queueReset"})'
        /\ ~ At(p, e, {"handle"})'
    BY getEventByIdEffect, NoRunType, SomeEventType
    DEF Moves, At, Event, Running, GoingRun, RunLabels, Early, Copying
  <1>s. row' = row /\ created' = created /\ jobs' = jobs /\ run' = run /\ Counters' = Counters
    BY getEventByIdEffect
  <1>w. row[e].status = "pending"
    OBVIOUS
  <1>1. ASSUME First(e)
        PROVE  First(e)'
    <2>1. OneJob(e)'
      BY <1>q, <1>p, <1>1, <1>s DEF First, OneJob, Stands, Counters
    <2>2. ASSUME NEW n \in Nat, Leaves(e, n)
          PROVE  Leaves(e, n)'
      BY <1>q, <1>p, <1>1, <1>s, <2>2 DEF First, Leaves, Stands, Copying, Counters
    <2>3. Spared(e)'
      BY <1>q, <1>p, <1>1, <1>s, <2>2, RunType, AttemptsType
      DEF First, Spared, Stands, Counters
    <2>4. NeverDead(e)'
      BY <1>q, <1>p, <1>1, <1>s DEF First, NeverDead, Stands, Counters
    <2>5. Due(e)'
      BY <1>q, <1>p, <1>1, <1>s, <1>w, RowType DEF First, OneJob, Due, Stands, Counters
    <2> QED
      BY <2>1, <2>3, <2>4, <2>5 DEF First
  <1>2. ASSUME Later(e)
        PROVE  Later(e)'
    <2>1. /\ Cardinality(Going(e)) \in Nat /\ Cardinality(Going(e)') \in Nat
          /\ Cardinality(Going(e)') + (IF GoingRun(p, e) THEN 1 ELSE 0)
                = Cardinality(Going(e)) + (IF GoingRun(p, e)' THEN 1 ELSE 0)
      BY GoingChange
    <2>2. /\ handled[e] \in Nat /\ resets[e] \in Nat /\ jobs[e][1] \in Nat
          /\ crashes \in Nat /\ crashes' \in Nat
      BY RowType, AttemptsType DEF TypeOK
    <2>3. handled'[e] + jobs'[e][1] + Cardinality(Going(e)') <= 1 + resets'[e] + Slack(e)'
      BY <1>q, <1>p, <1>2, <1>s, <2>1, <2>2, AttemptsType DEF Later, Slack, Counters
    <2>4. /\ e \notin created' /\ row'[e].status # "absent"
          /\ \A k \in Attempts : k > 1 => jobs'[e][k] = 0
      BY <1>q, <1>p, <1>2, <1>s, AttemptsType DEF Later, Counters
    <2>5. \A q \in Procs : /\ Running(q, e)' => run'[q].left <= 1
                           /\ At(q, e, {"saveReset"})' => run'[q].copy.status = "pending"
      BY <1>q, <1>p, <1>2, <1>s DEF Later, Stands, Counters
    <2>6. resets'[e] = 0 => /\ jobs'[e][1] = 0
                            /\ \A q \in Procs : ~ Running(q, e)' /\ ~ GoingRun(q, e)'
      BY <1>q, <1>p, <1>2, <1>s, <2>2, AttemptsType DEF Later, Stands, Counters
    <2> QED
      BY <2>3, <2>4, <2>5, <2>6 DEF Later
  <1> QED
    BY <1>1, <1>2 DEF Goes

LEMMA getEventByIdActs ==
    ASSUME TypeOK, TypeOK', Present, NEW p \in Procs, getEventById(p), NEW e \in Events,
           e = Event(p)
    PROVE  Goes(e) => Goes(e)'
  <1>1. CASE row[Event(p)].status = "pending" /\ Moves(p, "mark") /\ run' = run
    BY <1>1, getEventByIdReads
  <1>2. CASE Moves(p, "idle")
    <2>1. ASSUME NEW q \in Procs, At(q, e, Labels)'
          PROVE  pc'[q] = "idle" \/ (pc'[q] = pc[q] /\ run'[q] = run[q])
      BY <1>2, <2>1 DEF Moves
    <2>2. /\ row' = row /\ jobs' = jobs /\ created' = created
          /\ handled' = handled /\ resets' = resets /\ crashes' = crashes
      BY getEventByIdEffect DEF Counters
    <2>3. Quiet(e)
      BY <2>1, <2>2, CrashesGrow DEF Quiet
    <2> QED
      BY <2>3, QuietKeeps DEF Goes
  <1> QED
    BY <1>1, <1>2, getEventByIdEffect

LEMMA readCopyMarks ==
    ASSUME TypeOK, TypeOK', Present, NEW p \in Procs, readCopy(p), pc[p] = "mark",
           Moves(p, "saveProcessing"), NEW e \in Events, e = Event(p)
    PROVE  Goes(e) => Goes(e)'
  <1>q. \A q \in Procs \ {p} : Stands(q, e)
    BY OthersStand
  <1>p. /\ Running(p, e)
        /\ GoingRun(p, e)
        /\ At(p, e, Early)
        /\ ~ At(p, e, Copying)
        /\ ~ At(p, e, {"saveFailed"})
        /\ ~ At(p, e, {"saveEdit"})
        /\ ~ At(p, e, {"saveReset"})
        /\ ~ At(p, e, {"saveReset", "queueReset"})
        /\ ~ At(p, e, {"handle"})
        /\ Running(p, e)'
        /\ GoingRun(p, e)'
        /\ At(p, e, Copying)'
        /\ At(p, e, Early)'
        /\ ~ At(p, e, {"saveFailed"})'
        /\ ~ At(p, e, {"saveEdit"})'
        /\ ~ At(p, e, {"saveReset"})'
        /\ ~ At(p, e, {"saveReset", "queueReset"})'
        /\ ~ At(p, e, {"handle"})'
    BY readCopyEffect, NoRunType, SomeEventType
    DEF Moves, At, Event, Running, GoingRun, RunLabels, Early, Copying
  <1>s. /\ row' = row /\ created' = created /\ jobs' = jobs /\ Counters' = Counters
        /\ run'[p].left = run[p].left
        /\ run'[p].copy = row[e]
    BY readCopyEffect
  <1>1. ASSUME First(e)
        PROVE  First(e)'
    <2>1. OneJob(e)'
      BY <1>q, <1>p, <1>1, <1>s DEF First, OneJob, Stands, Counters
    <2>2. ASSUME NEW n \in Nat, Leaves(e, n)
          PROVE  Leaves(e, n)'
      BY <1>q, <1>p, <1>1, <1>s, <2>2 DEF First, Leaves, Stands, Copying, Counters
    <2>3. Spared(e)'
      BY <1>q, <1>p, <1>1, <1>s, <2>2, RunType, AttemptsType
      DEF First, Spared, Stands, Counters
    <2>4. NeverDead(e)'
      BY <1>q, <1>p, <1>1, <1>s DEF First, NeverDead, Stands, Counters
    <2>5. Due(e)'
      BY <1>q, <1>p, <1>1, <1>s, RowType DEF First, OneJob, Due, Stands, Counters
    <2> QED
      BY <2>1, <2>3, <2>4, <2>5 DEF First
  <1>2. ASSUME Later(e)
        PROVE  Later(e)'
    <2>1. /\ Cardinality(Going(e)) \in Nat /\ Cardinality(Going(e)') \in Nat
          /\ Cardinality(Going(e)') + (IF GoingRun(p, e) THEN 1 ELSE 0)
                = Cardinality(Going(e)) + (IF GoingRun(p, e)' THEN 1 ELSE 0)
      BY GoingChange
    <2>2. /\ handled[e] \in Nat /\ resets[e] \in Nat /\ jobs[e][1] \in Nat
          /\ crashes \in Nat /\ crashes' \in Nat
      BY RowType, AttemptsType DEF TypeOK
    <2>3. handled'[e] + jobs'[e][1] + Cardinality(Going(e)') <= 1 + resets'[e] + Slack(e)'
      BY <1>q, <1>p, <1>2, <1>s, <2>1, <2>2, AttemptsType DEF Later, Slack, Counters
    <2>4. /\ e \notin created' /\ row'[e].status # "absent"
          /\ \A k \in Attempts : k > 1 => jobs'[e][k] = 0
      BY <1>q, <1>p, <1>2, <1>s, AttemptsType DEF Later, Counters
    <2>5. \A q \in Procs : /\ Running(q, e)' => run'[q].left <= 1
                           /\ At(q, e, {"saveReset"})' => run'[q].copy.status = "pending"
      BY <1>q, <1>p, <1>2, <1>s DEF Later, Stands, Counters
    <2>6. resets'[e] = 0 => /\ jobs'[e][1] = 0
                            /\ \A q \in Procs : ~ Running(q, e)' /\ ~ GoingRun(q, e)'
      BY <1>q, <1>p, <1>2, <1>s, <2>2, AttemptsType DEF Later, Stands, Counters
    <2> QED
      BY <2>3, <2>4, <2>5, <2>6 DEF Later
  <1> QED
    BY <1>1, <1>2 DEF Goes

LEMMA readCopyEnds ==
    ASSUME TypeOK, TypeOK', Present, NEW p \in Procs, readCopy(p), pc[p] = "done",
           Moves(p, "saveProcessed"), NEW e \in Events, e = Event(p)
    PROVE  Goes(e) => Goes(e)'
  <1>q. \A q \in Procs \ {p} : Stands(q, e)
    BY OthersStand
  <1>p. /\ Running(p, e)
        /\ ~ GoingRun(p, e)
        /\ ~ At(p, e, Copying)
        /\ ~ At(p, e, {"saveFailed"})
        /\ ~ At(p, e, {"saveEdit"})
        /\ ~ At(p, e, {"saveReset"})
        /\ ~ At(p, e, {"saveReset", "queueReset"})
        /\ ~ At(p, e, Early)
        /\ ~ At(p, e, {"handle"})
        /\ Running(p, e)'
        /\ At(p, e, Copying)'
        /\ ~ GoingRun(p, e)'
        /\ ~ At(p, e, {"saveFailed"})'
        /\ ~ At(p, e, {"saveEdit"})'
        /\ ~ At(p, e, {"saveReset"})'
        /\ ~ At(p, e, {"saveReset", "queueReset"})'
        /\ ~ At(p, e, Early)'
        /\ ~ At(p, e, {"handle"})'
    BY readCopyEffect, NoRunType, SomeEventType
    DEF Moves, At, Event, Running, GoingRun, RunLabels, Early, Copying
  <1>s. /\ row' = row /\ created' = created /\ jobs' = jobs /\ Counters' = Counters
        /\ run'[p].left = run[p].left
        /\ run'[p].copy = row[e]
    BY readCopyEffect
  <1>1. ASSUME First(e)
        PROVE  First(e)'
    <2>1. OneJob(e)'
      BY <1>q, <1>p, <1>1, <1>s DEF First, OneJob, Stands, Counters
    <2>2. ASSUME NEW n \in Nat, Leaves(e, n)
          PROVE  Leaves(e, n)'
      BY <1>q, <1>p, <1>1, <1>s, <2>2 DEF First, Leaves, Stands, Copying, Counters
    <2>3. Spared(e)'
      BY <1>q, <1>p, <1>1, <1>s, <2>2, RunType, AttemptsType
      DEF First, Spared, Stands, Counters
    <2>4. NeverDead(e)'
      BY <1>q, <1>p, <1>1, <1>s DEF First, NeverDead, Stands, Counters
    <2>5. Due(e)'
      BY <1>q, <1>p, <1>1, <1>s, RowType DEF First, OneJob, Due, Stands, Counters
    <2> QED
      BY <2>1, <2>3, <2>4, <2>5 DEF First
  <1>2. ASSUME Later(e)
        PROVE  Later(e)'
    <2>1. /\ Cardinality(Going(e)) \in Nat /\ Cardinality(Going(e)') \in Nat
          /\ Cardinality(Going(e)') + (IF GoingRun(p, e) THEN 1 ELSE 0)
                = Cardinality(Going(e)) + (IF GoingRun(p, e)' THEN 1 ELSE 0)
      BY GoingChange
    <2>2. /\ handled[e] \in Nat /\ resets[e] \in Nat /\ jobs[e][1] \in Nat
          /\ crashes \in Nat /\ crashes' \in Nat
      BY RowType, AttemptsType DEF TypeOK
    <2>3. handled'[e] + jobs'[e][1] + Cardinality(Going(e)') <= 1 + resets'[e] + Slack(e)'
      BY <1>q, <1>p, <1>2, <1>s, <2>1, <2>2, AttemptsType DEF Later, Slack, Counters
    <2>4. /\ e \notin created' /\ row'[e].status # "absent"
          /\ \A k \in Attempts : k > 1 => jobs'[e][k] = 0
      BY <1>q, <1>p, <1>2, <1>s, AttemptsType DEF Later, Counters
    <2>5. \A q \in Procs : /\ Running(q, e)' => run'[q].left <= 1
                           /\ At(q, e, {"saveReset"})' => run'[q].copy.status = "pending"
      BY <1>q, <1>p, <1>2, <1>s DEF Later, Stands, Counters
    <2>6. resets'[e] = 0 => /\ jobs'[e][1] = 0
                            /\ \A q \in Procs : ~ Running(q, e)' /\ ~ GoingRun(q, e)'
      BY <1>q, <1>p, <1>2, <1>s, <2>2, AttemptsType DEF Later, Stands, Counters
    <2> QED
      BY <2>3, <2>4, <2>5, <2>6 DEF Later
  <1> QED
    BY <1>1, <1>2 DEF Goes

LEMMA readCopyActs ==
    ASSUME TypeOK, TypeOK', Present, NEW p \in Procs, readCopy(p), NEW e \in Events,
           e = Event(p)
    PROVE  Goes(e) => Goes(e)'
  BY readCopyEffect, readCopyMarks, readCopyEnds

LEMMA saveProcessingActs ==
    ASSUME TypeOK, TypeOK', Present, NEW p \in Procs, saveProcessing(p),
           NEW e \in Events, e = Event(p)
    PROVE  Goes(e) => Goes(e)'
  <1>q. \A q \in Procs \ {p} : Stands(q, e)
    BY saveProcessingEffect, OthersStand
  <1>p. /\ Running(p, e)
        /\ GoingRun(p, e)
        /\ At(p, e, Copying)
        /\ At(p, e, Early)
        /\ ~ At(p, e, {"saveFailed"})
        /\ ~ At(p, e, {"saveEdit"})
        /\ ~ At(p, e, {"saveReset"})
        /\ ~ At(p, e, {"saveReset", "queueReset"})
        /\ ~ At(p, e, {"handle"})
        /\ Running(p, e)'
        /\ GoingRun(p, e)'
        /\ At(p, e, Early)'
        /\ At(p, e, {"handle"})'
        /\ ~ At(p, e, Copying)'
        /\ ~ At(p, e, {"saveFailed"})'
        /\ ~ At(p, e, {"saveEdit"})'
        /\ ~ At(p, e, {"saveReset"})'
        /\ ~ At(p, e, {"saveReset", "queueReset"})'
    BY saveProcessingEffect, NoRunType, SomeEventType
    DEF Moves, At, Event, Running, GoingRun, RunLabels, Early, Copying
  <1>s. /\ row'[e].status = "processing"
        /\ row'[e].retryCount = run[p].copy.retryCount
        /\ created' = created /\ jobs' = jobs /\ run' = run /\ Counters' = Counters
    BY saveProcessingEffect
  <1>1. ASSUME First(e)
        PROVE  First(e)'
    <2>1. OneJob(e)'
      BY <1>q, <1>p, <1>1, <1>s DEF First, OneJob, Stands, Counters
    <2>2. ASSUME NEW n \in Nat, Leaves(e, n)
          PROVE  Leaves(e, n)'
      BY <1>q, <1>p, <1>1, <1>s, <2>2 DEF First, Leaves, Stands, Copying, Counters
    <2>3. Spared(e)'
      BY <1>q, <1>p, <1>1, <1>s, <2>2, RunType, AttemptsType
      DEF First, Spared, Stands, Counters
    <2>4. NeverDead(e)'
      BY <1>q, <1>p, <1>1, <1>s DEF First, NeverDead, Stands, Counters
    <2>5. Due(e)'
      BY <1>q, <1>p, <1>1, <1>s, RowType DEF First, OneJob, Due, Stands, Counters
    <2> QED
      BY <2>1, <2>3, <2>4, <2>5 DEF First
  <1>2. ASSUME Later(e)
        PROVE  Later(e)'
    <2>1. /\ Cardinality(Going(e)) \in Nat /\ Cardinality(Going(e)') \in Nat
          /\ Cardinality(Going(e)') + (IF GoingRun(p, e) THEN 1 ELSE 0)
                = Cardinality(Going(e)) + (IF GoingRun(p, e)' THEN 1 ELSE 0)
      BY saveProcessingEffect, GoingChange
    <2>2. /\ handled[e] \in Nat /\ resets[e] \in Nat /\ jobs[e][1] \in Nat
          /\ crashes \in Nat /\ crashes' \in Nat
      BY RowType, AttemptsType DEF TypeOK
    <2>3. handled'[e] + jobs'[e][1] + Cardinality(Going(e)') <= 1 + resets'[e] + Slack(e)'
      BY <1>q, <1>p, <1>2, <1>s, <2>1, <2>2, AttemptsType DEF Later, Slack, Counters
    <2>4. /\ e \notin created' /\ row'[e].status # "absent"
          /\ \A k \in Attempts : k > 1 => jobs'[e][k] = 0
      BY <1>q, <1>p, <1>2, <1>s, AttemptsType DEF Later, Counters
    <2>5. \A q \in Procs : /\ Running(q, e)' => run'[q].left <= 1
                           /\ At(q, e, {"saveReset"})' => run'[q].copy.status = "pending"
      BY <1>q, <1>p, <1>2, <1>s DEF Later, Stands, Counters
    <2>6. resets'[e] = 0 => /\ jobs'[e][1] = 0
                            /\ \A q \in Procs : ~ Running(q, e)' /\ ~ GoingRun(q, e)'
      BY <1>q, <1>p, <1>2, <1>s, <2>2, AttemptsType DEF Later, Stands, Counters
    <2> QED
      BY <2>3, <2>4, <2>5, <2>6 DEF Later
  <1> QED
    BY <1>1, <1>2 DEF Goes

LEMMA markAsProcessedActs ==
    ASSUME TypeOK, TypeOK', Present, NEW p \in Procs, markAsProcessed(p),
           NEW e \in Events, e = Event(p)
    PROVE  Goes(e) => Goes(e)'
  <1>q. \A q \in Procs \ {p} : Stands(q, e)
    BY markAsProcessedEffect, OthersStand
  <1>p. /\ Running(p, e)
        /\ At(p, e, Copying)
        /\ ~ GoingRun(p, e)
        /\ ~ At(p, e, {"saveFailed"})
        /\ ~ At(p, e, {"saveEdit"})
        /\ ~ At(p, e, {"saveReset"})
        /\ ~ At(p, e, {"saveReset", "queueReset"})
        /\ ~ At(p, e, Early)
        /\ ~ At(p, e, {"handle"})
        /\ ~ Running(p, e)'
        /\ ~ GoingRun(p, e)'
        /\ ~ At(p, e, Copying)'
        /\ ~ At(p, e, {"saveFailed"})'
        /\ ~ At(p, e, {"saveEdit"})'
        /\ ~ At(p, e, {"saveReset"})'
        /\ ~ At(p, e, {"saveReset", "queueReset"})'
        /\ ~ At(p, e, Early)'
        /\ ~ At(p, e, {"handle"})'
    BY markAsProcessedEffect, NoRunType, SomeEventType
    DEF Moves, At, Event, Running, GoingRun, RunLabels, Early, Copying
  <1>s. /\ row'[e].status = "processed"
        /\ row'[e].retryCount = run[p].copy.retryCount
        /\ created' = created /\ jobs' = jobs /\ Counters' = Counters
    BY markAsProcessedEffect
  <1>1. ASSUME First(e)
        PROVE  First(e)'
    <2>1. OneJob(e)'
      BY <1>q, <1>p, <1>1, <1>s DEF First, OneJob, Stands, Counters
    <2>2. ASSUME NEW n \in Nat, Leaves(e, n)
          PROVE  Leaves(e, n)'
      BY <1>q, <1>p, <1>1, <1>s, <2>2 DEF First, Leaves, Stands, Copying, Counters
    <2>3. Spared(e)'
      BY <1>q, <1>p, <1>1, <1>s, <2>2, RunType, AttemptsType
      DEF First, Spared, Stands, Counters
    <2>4. NeverDead(e)'
      BY <1>q, <1>p, <1>1, <1>s DEF First, NeverDead, Stands, Counters
    <2>5. Due(e)'
      BY <1>q, <1>p, <1>1, <1>s, RowType DEF First, OneJob, Due, Stands, Counters
    <2> QED
      BY <2>1, <2>3, <2>4, <2>5 DEF First
  <1>2. ASSUME Later(e)
        PROVE  Later(e)'
    <2>1. /\ Cardinality(Going(e)) \in Nat /\ Cardinality(Going(e)') \in Nat
          /\ Cardinality(Going(e)') + (IF GoingRun(p, e) THEN 1 ELSE 0)
                = Cardinality(Going(e)) + (IF GoingRun(p, e)' THEN 1 ELSE 0)
      BY markAsProcessedEffect, GoingChange
    <2>2. /\ handled[e] \in Nat /\ resets[e] \in Nat /\ jobs[e][1] \in Nat
          /\ crashes \in Nat /\ crashes' \in Nat
      BY RowType, AttemptsType DEF TypeOK
    <2>3. handled'[e] + jobs'[e][1] + Cardinality(Going(e)') <= 1 + resets'[e] + Slack(e)'
      BY <1>q, <1>p, <1>2, <1>s, <2>1, <2>2, AttemptsType DEF Later, Slack, Counters
    <2>4. /\ e \notin created' /\ row'[e].status # "absent"
          /\ \A k \in Attempts : k > 1 => jobs'[e][k] = 0
      BY <1>q, <1>p, <1>2, <1>s, AttemptsType DEF Later, Counters
    <2>5. \A q \in Procs : /\ Running(q, e)' => run'[q].left <= 1
                           /\ At(q, e, {"saveReset"})' => run'[q].copy.status = "pending"
      BY <1>q, <1>p, <1>2, <1>s DEF Later, Stands, Counters
    <2>6. resets'[e] = 0 => /\ jobs'[e][1] = 0
                            /\ \A q \in Procs : ~ Running(q, e)' /\ ~ GoingRun(q, e)'
      BY <1>q, <1>p, <1>2, <1>s, <2>2, AttemptsType DEF Later, Stands, Counters
    <2> QED
      BY <2>3, <2>4, <2>5, <2>6 DEF Later
  <1> QED
    BY <1>1, <1>2 DEF Goes

LEMMA markAsFailedActs ==
    ASSUME TypeOK, TypeOK', Present, NEW p \in Procs, markAsFailed(p), NEW e \in Events,
           e = Event(p)
    PROVE  Goes(e) => Goes(e)'
  <1>q. \A q \in Procs \ {p} : Stands(q, e)
    BY markAsFailedEffect, OthersStand
  <1>p. /\ Running(p, e)
        /\ ~ GoingRun(p, e)
        /\ ~ At(p, e, Copying)
        /\ ~ At(p, e, {"saveFailed"})
        /\ ~ At(p, e, {"saveEdit"})
        /\ ~ At(p, e, {"saveReset"})
        /\ ~ At(p, e, {"saveReset", "queueReset"})
        /\ ~ At(p, e, Early)
        /\ ~ At(p, e, {"handle"})
        /\ Running(p, e)'
        /\ At(p, e, {"saveFailed"})'
        /\ ~ GoingRun(p, e)'
        /\ ~ At(p, e, Copying)'
        /\ ~ At(p, e, {"saveEdit"})'
        /\ ~ At(p, e, {"saveReset"})'
        /\ ~ At(p, e, {"saveReset", "queueReset"})'
        /\ ~ At(p, e, Early)'
        /\ ~ At(p, e, {"handle"})'
    BY markAsFailedEffect, NoRunType, SomeEventType
    DEF Moves, At, Event, Running, GoingRun, RunLabels, Early, Copying
  <1>s. row' = row /\ created' = created /\ jobs' = jobs /\ Counters' = Counters
    BY markAsFailedEffect
  <1>c. /\ run'[p].left = run[p].left
        /\ run'[p].copy.status \in {"failed", "dead_letter"}
        /\ run'[p].copy.retryCount = row[e].retryCount + 1
        /\ run'[p].copy.status = "dead_letter" => run'[p].copy.retryCount >= maxRetries
    BY markAsFailedEffect
  <1>1. ASSUME First(e)
        PROVE  First(e)'
    <2>1. OneJob(e)'
      BY <1>q, <1>p, <1>1, <1>s, <1>c DEF First, OneJob, Stands, Counters
    <2>2. ASSUME NEW n \in Nat, Leaves(e, n)
          PROVE  Leaves(e, n)'
      BY <1>q, <1>p, <1>1, <1>s, <1>c, <2>2 DEF First, Leaves, Stands, Copying, Counters
    <2>3. Spared(e)'
      <3>1. run'[p].copy.retryCount + run'[p].left <= maxRetries + 1
        BY <1>p, <1>c, <1>1, RunType, RowType, AttemptsType DEF First, Spared, Leaves
      <3> QED
        BY <1>q, <1>p, <1>1, <1>s, <1>c, <2>2, <3>1, RunType, AttemptsType
        DEF First, Spared, Stands, Counters
    <2>4. NeverDead(e)'
      BY <1>q, <1>p, <1>1, <1>s, <1>c DEF First, NeverDead, Stands, Counters
    <2>5. Due(e)'
      BY <1>q, <1>p, <1>1, <1>s, <1>c, RowType DEF First, OneJob, Due, Stands, Counters
    <2> QED
      BY <2>1, <2>3, <2>4, <2>5 DEF First
  <1>2. ASSUME Later(e)
        PROVE  Later(e)'
    <2>1. /\ Cardinality(Going(e)) \in Nat /\ Cardinality(Going(e)') \in Nat
          /\ Cardinality(Going(e)') + (IF GoingRun(p, e) THEN 1 ELSE 0)
                = Cardinality(Going(e)) + (IF GoingRun(p, e)' THEN 1 ELSE 0)
      BY markAsFailedEffect, GoingChange
    <2>2. /\ handled[e] \in Nat /\ resets[e] \in Nat /\ jobs[e][1] \in Nat
          /\ crashes \in Nat /\ crashes' \in Nat
      BY RowType, AttemptsType DEF TypeOK
    <2>3. handled'[e] + jobs'[e][1] + Cardinality(Going(e)') <= 1 + resets'[e] + Slack(e)'
      BY <1>q, <1>p, <1>2, <1>s, <1>c, <2>1, <2>2, AttemptsType
      DEF Later, Slack, Counters
    <2>4. /\ e \notin created' /\ row'[e].status # "absent"
          /\ \A k \in Attempts : k > 1 => jobs'[e][k] = 0
      BY <1>q, <1>p, <1>2, <1>s, <1>c, AttemptsType DEF Later, Counters
    <2>5. \A q \in Procs : /\ Running(q, e)' => run'[q].left <= 1
                           /\ At(q, e, {"saveReset"})' => run'[q].copy.status = "pending"
      BY <1>q, <1>p, <1>2, <1>s, <1>c DEF Later, Stands, Counters
    <2>6. resets'[e] = 0 => /\ jobs'[e][1] = 0
                            /\ \A q \in Procs : ~ Running(q, e)' /\ ~ GoingRun(q, e)'
      BY <1>q, <1>p, <1>2, <1>s, <1>c, <2>2, AttemptsType DEF Later, Stands, Counters
    <2> QED
      BY <2>3, <2>4, <2>5, <2>6 DEF Later
  <1> QED
    BY <1>1, <1>2 DEF Goes
LEMMA AllStand ==
    ASSUME Stand, NEW e
    PROVE  \A q \in Procs : Stands(q, e)
  BY DEF Stand, Stands, At, Event, Running, GoingRun

LEMMA createEventActs ==
    ASSUME TypeOK, TypeOK', Present, NEW e \in Events, createEvent(e)
    PROVE  Goes(e) => Goes(e)'
  <1>1. /\ row[e].status = "absent" /\ row'[e].status = "pending"
        /\ row'[e].retryCount = row[e].retryCount
        /\ jobs' = jobs /\ Stand /\ Counters' = Counters
    BY createEventEffect
  <1>2. /\ \A k \in Attempts : jobs'[e][k] = 0
        /\ \A p \in Procs : At(p, e, Labels) => pc[p] = "idle"
        /\ row'[e].retryCount = 0 /\ handled'[e] = 0 /\ resets'[e] \in Nat
    BY <1>1 DEF Present, Counters, TypeOK
  <1>3. \A p \in Procs : Event(p)' = e => pc'[p] = "idle"
    BY <1>1, <1>2, RunType DEF At, Event, Stand
  <1>4. ASSUME NEW p \in Procs
        PROVE  /\ ~ Running(p, e)' /\ ~ At(p, e, {"saveFailed"})' /\ ~ At(p, e, {"saveEdit"})'
               /\ ~ At(p, e, {"saveProcessing", "saveProcessed", "saveEdit"})'
               /\ ~ At(p, e, {"saveReset", "queueReset"})' /\ ~ At(p, e, Early)'
               /\ ~ At(p, e, {"handle"})'
    BY <1>3 DEF Running, At, RunLabels, Early
  <1>5. OneJob(e)'
    BY <1>2, <1>4 DEF OneJob
  <1>6. Spared(e)'
    BY <1>2, <1>4, AttemptsType DEF Spared, Leaves
  <1>7. NeverDead(e)'
    BY <1>1, <1>4 DEF NeverDead
  <1>8. Due(e)'
    BY <1>2, <1>4 DEF Due
  <1> QED
    BY <1>5, <1>6, <1>7, <1>8 DEF Goes, First

LEMMA handleEventCreatedActs ==
    ASSUME TypeOK, TypeOK', Present, NEW e \in Events, handleEventCreated(e)
    PROVE  Goes(e) => Goes(e)'
  <1>q. \A q \in Procs : Stands(q, e)
    BY handleEventCreatedEffect, AllStand
  <1>s. row' = row /\ e \in created /\ e \notin created' /\ Counters' = Counters
    BY handleEventCreatedEffect
  <1>j. \/ jobs' = jobs
        \/ /\ jobs'[e][maxRetries] = jobs[e][maxRetries] + 1
           /\ \A i \in Attempts : i # maxRetries => jobs'[e][i] = jobs[e][i]
    BY handleEventCreatedEffect DEF Added, JobsElse
  <1>1. ASSUME First(e)
        PROVE  First(e)'
    <2>1. OneJob(e)'
      BY <1>q, <1>1, <1>s, <1>j, AttemptsType DEF First, OneJob, Stands, Counters
    <2>2. ASSUME NEW n \in Nat, Leaves(e, n)
          PROVE  Leaves(e, n)'
      BY <1>q, <1>1, <1>s, <1>j, AttemptsType, <2>2
      DEF First, Leaves, Stands, Copying, Counters
    <2>3. Spared(e)'
      BY <1>q, <1>1, <1>s, <1>j, AttemptsType, <2>2, RunType, AttemptsType
      DEF First, Spared, Stands, Counters
    <2>4. NeverDead(e)'
      BY <1>q, <1>1, <1>s, <1>j, AttemptsType DEF First, NeverDead, Stands, Counters
    <2>5. Due(e)'
      BY <1>q, <1>1, <1>s, <1>j, AttemptsType, RowType
      DEF First, OneJob, Due, Stands, Counters
    <2> QED
      BY <2>1, <2>3, <2>4, <2>5 DEF First
  <1>2. ASSUME Later(e)
        PROVE  Later(e)'
    BY <1>2, <1>s DEF Later
  <1> QED
    BY <1>1, <1>2 DEF Goes

LEMMA rejectJobActs ==
    ASSUME TypeOK, TypeOK', Present, NEW e \in Events, NEW k \in Attempts,
           rejectJob(e, k)
    PROVE  Goes(e) => Goes(e)'
  <1>q. \A q \in Procs : Stands(q, e)
    BY rejectJobEffect, AllStand
  <1>s. row' = row /\ created' = created /\ Counters' = Counters
    BY rejectJobEffect
  <1>j. /\ jobs[e][k] > 0
        /\ \A i \in Attempts : jobs'[e][i] = IF i = k THEN jobs[e][i] - 1
                                        ELSE IF i = k - 1 THEN jobs[e][i] + 1 ELSE jobs[e][i]
    BY rejectJobEffect DEF Rejected
  <1>1. ASSUME First(e)
        PROVE  First(e)'
    <2>0. /\ jobs[e][k] = 1 /\ e \notin created
          /\ \A i \in Attempts : i # k => jobs[e][i] = 0
          /\ \A q \in Procs : ~ Running(q, e)
      <3>1. \A i \in Attempts : jobs[e][i] \in Nat
        BY RowType
      <3> QED
        BY <1>1, <1>j, <3>1 DEF First, OneJob
    <2>1. OneJob(e)'
      <3>1. \A i \in Attempts : jobs'[e][i] = IF i = k - 1 THEN 1 ELSE 0
        BY <1>j, <2>0, AttemptsType
      <3> QED
        BY <1>q, <1>s, <2>0, <3>1 DEF OneJob, Stands
    <2>2. ASSUME NEW n \in Nat, Leaves(e, n)
          PROVE  Leaves(e, n)'
      BY <1>q, <1>1, <1>s, <1>j, RowType, AttemptsType, <2>2
      DEF First, Leaves, Stands, Copying, Counters
    <2>3. Spared(e)'
      <3>1. Leaves(e, k)
        BY <1>1, <1>j DEF First, Spared
      <3>2. k - 1 \in Nat /\ Leaves(e, k - 1)
        BY <3>1, RowType, RunType, AttemptsType DEF Leaves
      <3>3. ASSUME NEW i \in Attempts, jobs'[e][i] > 0
            PROVE  i = k - 1
        BY <1>j, <2>0, <3>3, AttemptsType
      <3>4. \A i \in Attempts : jobs'[e][i] > 0 => Leaves(e, i)'
        BY <2>2, <3>2, <3>3
      <3> QED
        BY <1>q, <1>1, <1>s, <1>j, <2>2, <3>4, AttemptsType
        DEF First, OneJob, Spared, Stands, Counters
    <2>4. NeverDead(e)'
      BY <1>q, <1>1, <1>s, <1>j, RowType, AttemptsType
      DEF First, NeverDead, Stands, Counters
    <2>5. Due(e)'
      BY <1>q, <1>1, <1>s, <1>j, RowType, AttemptsType, RowType
      DEF First, OneJob, Due, Stands, Counters
    <2> QED
      BY <2>1, <2>3, <2>4, <2>5 DEF First
  <1>2. ASSUME Later(e)
        PROVE  Later(e)'
    <2>k. k = 1
      BY <1>2, <1>j, RowType, AttemptsType DEF Later
    <2>1. Cardinality(Going(e)) \in Nat /\ Cardinality(Going(e)') = Cardinality(Going(e))
      <3>1. Going(e)' = Going(e)
        BY <1>q DEF Going, Stands
      <3> QED
        BY <3>1, GoingType
    <2>2. /\ handled[e] \in Nat /\ resets[e] \in Nat /\ jobs[e][1] \in Nat
          /\ crashes \in Nat /\ crashes' \in Nat
      BY RowType, AttemptsType DEF TypeOK
    <2>3. handled'[e] + jobs'[e][1] + Cardinality(Going(e)') <= 1 + resets'[e] + Slack(e)'
      BY <1>q, <1>2, <1>s, <1>j, <2>k, RowType, <2>1, <2>2, AttemptsType
      DEF Later, Slack, Counters
    <2>4. /\ e \notin created' /\ row'[e].status # "absent"
          /\ \A i \in Attempts : i > 1 => jobs'[e][i] = 0
      BY <1>q, <1>2, <1>s, <1>j, <2>k, RowType, AttemptsType DEF Later, Counters
    <2>5. \A q \in Procs : /\ Running(q, e)' => run'[q].left <= 1
                           /\ At(q, e, {"saveReset"})' => run'[q].copy.status = "pending"
      BY <1>q, <1>2, <1>s, <1>j, <2>k, RowType DEF Later, Stands, Counters
    <2>6. resets'[e] = 0 => /\ jobs'[e][1] = 0
                            /\ \A q \in Procs : ~ Running(q, e)' /\ ~ GoingRun(q, e)'
      BY <1>q, <1>2, <1>s, <1>j, <2>k, RowType, <2>2, AttemptsType
      DEF Later, Stands, Counters
    <2> QED
      BY <2>3, <2>4, <2>5, <2>6 DEF Later
  <1> QED
    BY <1>1, <1>2 DEF Goes
LEMMA throwActs ==
    ASSUME TypeOK, TypeOK', Present, NEW p \in Procs, throw(p), NEW e \in Events,
           e = Event(p), ~ run[p].alone
    PROVE  Goes(e) => Goes(e)'
  <1>q. \A q \in Procs \ {p} : Stands(q, e)
    BY throwEffect, OthersStand
  <1>p. /\ ~ Running(p, e)'
        /\ ~ GoingRun(p, e)'
        /\ ~ At(p, e, Copying)'
        /\ ~ At(p, e, {"saveFailed"})'
        /\ ~ At(p, e, {"saveEdit"})'
        /\ ~ At(p, e, {"saveReset"})'
        /\ ~ At(p, e, {"saveReset", "queueReset"})'
        /\ ~ At(p, e, Early)'
        /\ ~ At(p, e, {"handle"})'
    BY throwEffect, NoRunType, SomeEventType
    DEF Moves, At, Event, Running, GoingRun, RunLabels, Early, Copying
  <1>r. Running(p, e) /\ ~ At(p, e, {"saveReset", "queueReset"})
    BY throwEffect DEF Running, At, RunLabels
  <1>s. row' = row /\ created' = created /\ Counters' = Counters
    BY throwEffect
  <1>j. \A i \in Attempts :
            jobs'[e][i] = IF i = run[p].left - 1 THEN jobs[e][i] + 1 ELSE jobs[e][i]
    <2>1. \A i \in Attempts : i # run[p].left - 1 \/ run[p].left <= 1 => jobs'[e][i] = jobs[e][i]
      BY throwEffect, RunType DEF Again, Added, JobsElse, Attempts
    <2>2. run[p].left > 1 => jobs'[e][run[p].left - 1] = jobs[e][run[p].left - 1] + 1
      BY throwEffect, RunType DEF Again, Added
    <2>3. \A i \in Attempts : i = run[p].left - 1 => run[p].left > 1
      BY RunType, AttemptsType
    <2> QED
      BY <2>1, <2>2, <2>3
  <1>1. ASSUME First(e)
        PROVE  First(e)'
    <2>0. /\ \A i \in Attempts : jobs[e][i] = 0
          /\ e \notin created
          /\ \A q \in Procs \ {p} : ~ Running(q, e)
          /\ run[p].left > 0 /\ Leaves(e, run[p].left)
      <3>1. \A i \in Attempts : jobs[e][i] \in Nat
        BY RowType
      <3> QED
        BY <1>r, <1>1, <3>1 DEF First, OneJob, Spared
    <2>1. OneJob(e)'
      <3>1. \A i \in Attempts : jobs'[e][i] = IF i = run[p].left - 1 THEN 1 ELSE 0
        BY <1>j, <2>0, RunType, AttemptsType
      <3> QED
        BY <1>q, <1>p, <1>s, <2>0, <3>1 DEF OneJob, Stands
    <2>2. ASSUME NEW n \in Nat, Leaves(e, n)
          PROVE  Leaves(e, n)'
      BY <1>q, <1>p, <1>1, <1>s, <1>j, <1>r, <2>0, <2>2
      DEF First, Leaves, Stands, Copying, Counters
    <2>3. Spared(e)'
      <3>1. run[p].left - 1 \in Nat /\ Leaves(e, run[p].left - 1)
        BY <2>0, RowType, RunType, AttemptsType DEF Leaves
      <3>2. \A i \in Attempts : jobs'[e][i] > 0 => Leaves(e, i)'
        BY <1>j, <2>0, <2>2, <3>1
      <3> QED
        BY <1>q, <1>p, <1>1, <1>s, <2>0, <2>2, <3>2, AttemptsType
        DEF First, Spared, Stands, Counters
    <2>4. NeverDead(e)'
      BY <1>q, <1>p, <1>1, <1>s, <1>j, <1>r, <2>0 DEF First, NeverDead, Stands, Counters
    <2>5. Due(e)'
      BY <1>q, <1>p, <1>1, <1>s, <1>j, <1>r, <2>0, RowType
      DEF First, OneJob, Due, Stands, Counters
    <2> QED
      BY <2>1, <2>3, <2>4, <2>5 DEF First
  <1>2. ASSUME Later(e)
        PROVE  Later(e)'
    <2>k. run[p].left <= 1
      BY <1>2, <1>r DEF Later
    <2>1. /\ Cardinality(Going(e)) \in Nat /\ Cardinality(Going(e)') \in Nat
          /\ Cardinality(Going(e)') + (IF GoingRun(p, e) THEN 1 ELSE 0)
                = Cardinality(Going(e)) + (IF GoingRun(p, e)' THEN 1 ELSE 0)
      BY throwEffect, GoingChange
    <2>2. /\ handled[e] \in Nat /\ resets[e] \in Nat /\ jobs[e][1] \in Nat
          /\ crashes \in Nat /\ crashes' \in Nat
      BY RowType, AttemptsType DEF TypeOK
    <2>3. handled'[e] + jobs'[e][1] + Cardinality(Going(e)') <= 1 + resets'[e] + Slack(e)'
      BY <1>q, <1>p, <1>2, <1>s, <1>j, <1>r, <2>k, RunType, <2>1, <2>2,
         AttemptsType
      DEF Later, Slack, Counters
    <2>4. /\ e \notin created' /\ row'[e].status # "absent"
          /\ \A k \in Attempts : k > 1 => jobs'[e][k] = 0
      BY <1>q, <1>p, <1>2, <1>s, <1>j, <1>r, <2>k, RunType, AttemptsType
      DEF Later, Counters
    <2>5. \A q \in Procs : /\ Running(q, e)' => run'[q].left <= 1
                           /\ At(q, e, {"saveReset"})' => run'[q].copy.status = "pending"
      BY <1>q, <1>p, <1>2, <1>s, <1>j, <1>r, <2>k, RunType DEF Later, Stands, Counters
    <2>6. resets'[e] = 0 => /\ jobs'[e][1] = 0
                            /\ \A q \in Procs : ~ Running(q, e)' /\ ~ GoingRun(q, e)'
      BY <1>q, <1>p, <1>2, <1>s, <1>j, <1>r, <2>k, RunType, <2>2, AttemptsType
      DEF Later, Stands, Counters
    <2> QED
      BY <2>3, <2>4, <2>5, <2>6 DEF Later
  <1> QED
    BY <1>1, <1>2 DEF Goes

LEMMA saveFailedActs ==
    ASSUME TypeOK, TypeOK', Present, NEW p \in Procs, saveFailed(p), NEW e \in Events,
           e = Event(p), ~ run[p].alone
    PROVE  Goes(e) => Goes(e)'
  <1>q. \A q \in Procs \ {p} : Stands(q, e)
    BY saveFailedEffect, OthersStand
  <1>p. /\ Running(p, e)
        /\ At(p, e, {"saveFailed"})
        /\ ~ GoingRun(p, e)
        /\ ~ At(p, e, Copying)
        /\ ~ At(p, e, {"saveEdit"})
        /\ ~ At(p, e, {"saveReset"})
        /\ ~ At(p, e, {"saveReset", "queueReset"})
        /\ ~ At(p, e, Early)
        /\ ~ At(p, e, {"handle"})
        /\ ~ Running(p, e)'
        /\ ~ GoingRun(p, e)'
        /\ ~ At(p, e, Copying)'
        /\ ~ At(p, e, {"saveFailed"})'
        /\ ~ At(p, e, {"saveEdit"})'
        /\ ~ At(p, e, {"saveReset"})'
        /\ ~ At(p, e, {"saveReset", "queueReset"})'
        /\ ~ At(p, e, Early)'
        /\ ~ At(p, e, {"handle"})'
    BY saveFailedEffect, NoRunType, SomeEventType
    DEF Moves, At, Event, Running, GoingRun, RunLabels, Early, Copying
  <1>s. created' = created /\ Counters' = Counters /\ row'[e] = run[p].copy
    BY saveFailedEffect DEF Saved
  <1>a. row'[e].status # "absent"
    BY <1>s, saveFailedEffect DEF Present, SaveLabels
  <1>j. \A i \in Attempts :
            jobs'[e][i] = IF i = run[p].left - 1 THEN jobs[e][i] + 1 ELSE jobs[e][i]
    <2>1. \A i \in Attempts : i # run[p].left - 1 \/ run[p].left <= 1 => jobs'[e][i] = jobs[e][i]
      BY saveFailedEffect, RunType DEF Again, Added, JobsElse, Attempts
    <2>2. run[p].left > 1 => jobs'[e][run[p].left - 1] = jobs[e][run[p].left - 1] + 1
      BY saveFailedEffect, RunType DEF Again, Added
    <2>3. \A i \in Attempts : i = run[p].left - 1 => run[p].left > 1
      BY RunType, AttemptsType
    <2> QED
      BY <2>1, <2>2, <2>3
  <1>1. ASSUME First(e)
        PROVE  Goes(e)'
    <2>0. /\ \A i \in Attempts : jobs[e][i] = 0
          /\ e \notin created
          /\ \A q \in Procs \ {p} : ~ Running(q, e)
          /\ run[p].left > 0 /\ Leaves(e, run[p].left)
      <3>1. \A i \in Attempts : jobs[e][i] \in Nat
        BY RowType
      <3> QED
        BY <1>p, <1>1, <3>1 DEF First, OneJob, Spared
    <2>c. /\ run[p].copy.status \in {"failed", "dead_letter"}
          /\ run[p].copy.retryCount + run[p].left <= maxRetries + 1
          /\ run[p].copy.status = "dead_letter" => run[p].copy.retryCount >= maxRetries
      BY <1>p, <1>1 DEF First, Spared
    <2>1. OneJob(e)'
      <3>1. \A i \in Attempts : jobs'[e][i] = IF i = run[p].left - 1 THEN 1 ELSE 0
        BY <1>j, <2>0, RunType, AttemptsType
      <3> QED
        BY <1>q, <1>p, <1>s, <2>0, <3>1 DEF OneJob, Stands
    <2>2. ASSUME NEW q \in Procs, At(q, e, Copying)', NEW n \in Nat, Leaves(e, n)
          PROVE  run'[q].copy.retryCount + n <= maxRetries
      BY <1>q, <1>p, <2>2 DEF Leaves, Stands, Copying
    <2>3. Spared(e)'
      <3>n. PICK n \in Nat : n = run[p].left - 1
        BY <2>0, RunType
      <3>1. Leaves(e, n)
        BY <2>0, <3>n, RowType, RunType, AttemptsType DEF Leaves
      <3>2. row'[e].retryCount + n <= maxRetries
        BY <1>s, <2>c, <3>n, RunType, AttemptsType
      <3>3. Leaves(e, n)'
        BY <1>s, <2>2, <3>1, <3>2 DEF Leaves, Copying
      <3>4. \A i \in Attempts : jobs'[e][i] > 0 => i = n
        BY <1>j, <2>0, <3>n
      <3>5. \A i \in Attempts : jobs'[e][i] > 0 => Leaves(e, i)'
        BY <3>3, <3>4
      <3> QED
        BY <1>q, <1>p, <1>1, <1>s, <1>a, <2>0, <3>5, AttemptsType
        DEF First, Spared, Stands, Counters
    <2>4. ASSUME run[p].copy.status # "dead_letter"
          PROVE  NeverDead(e)'
      BY <1>q, <1>p, <1>1, <1>s, <2>4 DEF First, NeverDead, Stands
    <2>5. Due(e)'
      BY <1>q, <1>p, <1>1, <1>s, <1>j, <1>a, <2>0, <2>c, RowType
      DEF First, OneJob, Due, Stands, Counters
    <2>6. ASSUME run[p].copy.status = "dead_letter"
          PROVE  Later(e)'
      <3>1. run[p].left = 1
        BY <2>0, <2>6, <2>c, RunType, AttemptsType
      <3>2. \A i \in Attempts : jobs'[e][i] = 0
        BY <1>j, <2>0, <3>1, AttemptsType
      <3>3. \A q \in Procs : ~ Running(q, e)' /\ ~ At(q, e, {"saveReset", "queueReset"})'
        BY <1>q, <1>p, <1>1, <2>0 DEF First, NeverDead, Stands
      <3>4. \A q \in Procs : ~ GoingRun(q, e)' /\ ~ At(q, e, {"saveReset"})'
        BY <3>3 DEF GoingRun, Running, At, RunLabels
      <3>5. Going(e)' = {}
        BY <3>4 DEF Going
      <3>6. Cardinality(Going(e)') = 0
        BY <3>5, FS_EmptySet
      <3>7. handled'[e] + jobs'[e][1] + Cardinality(Going(e)') <= 1 + resets'[e] + Slack(e)'
        <4>1. handled[e] <= 1 + resets[e] /\ handled[e] \in Nat /\ resets[e] \in Nat
          BY <1>1, RowType DEF First, Due
        <4>2. crashes' \in Nat /\ handled'[e] = handled[e] /\ resets'[e] = resets[e]
          BY <1>s DEF Counters, TypeOK
        <4> QED
          BY <3>2, <3>6, <4>1, <4>2, AttemptsType DEF Slack
      <3> QED
        BY <1>s, <1>a, <2>0, <3>2, <3>3, <3>4, <3>7, AttemptsType DEF Later
    <2> QED
      BY <2>1, <2>3, <2>4, <2>5, <2>6 DEF First, Goes
  <1>2. ASSUME Later(e)
        PROVE  Later(e)'
    <2>k. run[p].left <= 1
      BY <1>2, <1>p DEF Later
    <2>1. /\ Cardinality(Going(e)) \in Nat /\ Cardinality(Going(e)') \in Nat
          /\ Cardinality(Going(e)') + (IF GoingRun(p, e) THEN 1 ELSE 0)
                = Cardinality(Going(e)) + (IF GoingRun(p, e)' THEN 1 ELSE 0)
      BY saveFailedEffect, GoingChange
    <2>2. /\ handled[e] \in Nat /\ resets[e] \in Nat /\ jobs[e][1] \in Nat
          /\ crashes \in Nat /\ crashes' \in Nat
      BY RowType, AttemptsType DEF TypeOK
    <2>3. handled'[e] + jobs'[e][1] + Cardinality(Going(e)') <= 1 + resets'[e] + Slack(e)'
      BY <1>q, <1>p, <1>2, <1>s, <1>j, <1>a, <2>k, RunType, <2>1, <2>2,
         AttemptsType
      DEF Later, Slack, Counters
    <2>4. /\ e \notin created' /\ row'[e].status # "absent"
          /\ \A k \in Attempts : k > 1 => jobs'[e][k] = 0
      BY <1>q, <1>p, <1>2, <1>s, <1>j, <1>a, <2>k, RunType, AttemptsType
      DEF Later, Counters
    <2>5. \A q \in Procs : /\ Running(q, e)' => run'[q].left <= 1
                           /\ At(q, e, {"saveReset"})' => run'[q].copy.status = "pending"
      BY <1>q, <1>p, <1>2, <1>s, <1>j, <1>a, <2>k, RunType DEF Later, Stands, Counters
    <2>6. resets'[e] = 0 => /\ jobs'[e][1] = 0
                            /\ \A q \in Procs : ~ Running(q, e)' /\ ~ GoingRun(q, e)'
      BY <1>q, <1>p, <1>2, <1>s, <1>j, <1>a, <2>k, RunType, <2>2, AttemptsType
      DEF Later, Stands, Counters
    <2> QED
      BY <2>3, <2>4, <2>5, <2>6 DEF Later
  <1> QED
    BY <1>1, <1>2 DEF Goes
LEMMA crashAgain ==
    ASSUME TypeOK, TypeOK', Present, NEW p \in Procs, crash(p), NEW e \in Events,
           e = Event(p), ~ run[p].alone, run[p].left > 0
    PROVE  Goes(e) => Goes(e)'
  <1>q. \A q \in Procs \ {p} : Stands(q, e)
    BY crashEffect, OthersStand
  <1>p. /\ ~ Running(p, e)'
        /\ ~ GoingRun(p, e)'
        /\ ~ At(p, e, Copying)'
        /\ ~ At(p, e, {"saveFailed"})'
        /\ ~ At(p, e, {"saveEdit"})'
        /\ ~ At(p, e, {"saveReset"})'
        /\ ~ At(p, e, {"saveReset", "queueReset"})'
        /\ ~ At(p, e, Early)'
        /\ ~ At(p, e, {"handle"})'
    BY crashEffect, NoRunType, SomeEventType
    DEF Moves, At, Event, Running, GoingRun, RunLabels, Early, Copying
  <1>r. Running(p, e)
    BY crashEffect, RunType DEF Running, At, Present
  <1>s. row'[e] = row[e] /\ e \notin created' /\ crashes' = crashes + 1
        /\ handled' = handled /\ resets' = resets
    BY crashEffect
  <1>l. run[p].left \in Attempts
    BY RunType, AttemptsType DEF Attempts
  <1>j. \A i \in Attempts :
            jobs'[e][i] = IF i = run[p].left THEN jobs[e][i] + 1 ELSE jobs[e][i]
    BY <1>l, crashEffect, RunType DEF Added, JobsElse
  <1>1. ASSUME First(e)
        PROVE  First(e)'
    <2>0. /\ \A i \in Attempts : jobs[e][i] = 0
          /\ e \notin created
          /\ \A q \in Procs \ {p} : ~ Running(q, e)
          /\ run[p].left > 0 /\ Leaves(e, run[p].left)
      <3>1. \A i \in Attempts : jobs[e][i] \in Nat
        BY RowType
      <3> QED
        BY <1>r, <1>1, <3>1 DEF First, OneJob, Spared
    <2>1. OneJob(e)'
      <3>1. \A i \in Attempts : jobs'[e][i] = IF i = run[p].left THEN 1 ELSE 0
        BY <1>j, <1>l, <2>0, AttemptsType
      <3> QED
        BY <1>q, <1>p, <1>s, <2>0, <3>1 DEF OneJob, Stands
    <2>2. ASSUME NEW n \in Nat, Leaves(e, n)
          PROVE  Leaves(e, n)'
      BY <1>q, <1>p, <1>1, <1>s, <1>j, <1>l, <1>r, <2>0, <2>2
      DEF First, Leaves, Stands, Copying
    <2>3. Spared(e)'
      <3>n. PICK n \in Nat : n = run[p].left
        BY <1>l, RunType
      <3>1. Leaves(e, n)'
        BY <2>0, <2>2, <3>n
      <3>2. \A i \in Attempts : jobs'[e][i] > 0 => Leaves(e, i)'
        BY <1>j, <2>0, <3>n, <3>1
      <3> QED
        BY <1>q, <1>p, <1>1, <1>s, <1>r, <2>0, <2>2, <3>2, AttemptsType
        DEF First, Spared, Stands
    <2>4. NeverDead(e)'
      BY <1>q, <1>p, <1>1, <1>s, <1>j, <1>l, <1>r, <2>0 DEF First, NeverDead, Stands
    <2>5. Due(e)'
      BY <1>q, <1>p, <1>1, <1>s, <1>j, <1>l, <1>r, <2>0, RowType
      DEF First, OneJob, Due, Stands
    <2> QED
      BY <2>1, <2>3, <2>4, <2>5 DEF First
  <1>2. ASSUME Later(e)
        PROVE  Later(e)'
    <2>l. run[p].left <= 1 /\ resets[e] # 0
      BY <1>2, <1>r DEF Later
    <2>k. run[p].left = 1 /\ resets[e] # 0
      BY <2>l, RunType
    <2>1. /\ Cardinality(Going(e)) \in Nat /\ Cardinality(Going(e)') \in Nat
          /\ Cardinality(Going(e)') + (IF GoingRun(p, e) THEN 1 ELSE 0)
                = Cardinality(Going(e)) + (IF GoingRun(p, e)' THEN 1 ELSE 0)
      BY crashEffect, GoingChange
    <2>2. /\ handled[e] \in Nat /\ resets[e] \in Nat /\ jobs[e][1] \in Nat
          /\ crashes \in Nat /\ crashes' \in Nat
      BY RowType, AttemptsType DEF TypeOK
    <2>3. handled'[e] + jobs'[e][1] + Cardinality(Going(e)') <= 1 + resets'[e] + Slack(e)'
      BY <1>q, <1>p, <1>2, <1>s, <1>j, <1>r, <2>k, RunType, <2>1, <2>2,
         AttemptsType
      DEF Later, Slack
    <2>4. /\ e \notin created' /\ row'[e].status # "absent"
          /\ \A k \in Attempts : k > 1 => jobs'[e][k] = 0
      BY <1>q, <1>p, <1>2, <1>s, <1>j, <1>r, <2>k, RunType, AttemptsType DEF Later
    <2>5. \A q \in Procs : /\ Running(q, e)' => run'[q].left <= 1
                           /\ At(q, e, {"saveReset"})' => run'[q].copy.status = "pending"
      BY <1>q, <1>p, <1>2, <1>s, <1>j, <1>r, <2>k, RunType DEF Later, Stands
    <2>6. resets'[e] = 0 => /\ jobs'[e][1] = 0
                            /\ \A q \in Procs : ~ Running(q, e)' /\ ~ GoingRun(q, e)'
      BY <1>q, <1>p, <1>2, <1>s, <1>j, <1>r, <2>k, RunType, <2>2, AttemptsType
      DEF Later, Stands
    <2> QED
      BY <2>3, <2>4, <2>5, <2>6 DEF Later
  <1> QED
    BY <1>1, <1>2 DEF Goes

LEMMA crashActs ==
    ASSUME TypeOK, TypeOK', Present, NEW p \in Procs, crash(p), NEW e \in Events,
           e = Event(p),
           ~ run[p].alone
    PROVE  Goes(e) => Goes(e)'
  <1>1. CASE run[p].left > 0
    BY <1>1, crashAgain
  <1>2. CASE ~ (run[p].left > 0)
    <2>1. ASSUME NEW q \in Procs, At(q, e, Labels)'
          PROVE  pc'[q] = "idle" \/ (pc'[q] = pc[q] /\ run'[q] = run[q])
      BY <2>1, crashEffect DEF Moves
    <2>2. /\ row' = row /\ jobs' = jobs /\ (e \in created' => e \in created)
          /\ handled' = handled /\ resets' = resets /\ crashes' = crashes + 1
      BY <1>2, crashEffect
    <2>3. Quiet(e)
      BY <2>1, <2>2, CrashesGrow DEF Quiet
    <2> QED
      BY <2>3, QuietKeeps DEF Goes
  <1> QED
    BY <1>1, <1>2

LEMMA retryDeadLetterEventActs ==
    ASSUME TypeOK, TypeOK', Present, NEW p \in Procs, NEW e \in Events,
           retryDeadLetterEvent(p, e)
    PROVE  Goes(e) => Goes(e)'
  <1>q. \A q \in Procs \ {p} : Stands(q, e)
    BY retryDeadLetterEventEffect, OthersStand
  <1>p. /\ ~ Running(p, e)
        /\ ~ GoingRun(p, e)
        /\ ~ At(p, e, Copying)
        /\ ~ At(p, e, {"saveFailed"})
        /\ ~ At(p, e, {"saveEdit"})
        /\ ~ At(p, e, {"saveReset"})
        /\ ~ At(p, e, {"saveReset", "queueReset"})
        /\ ~ At(p, e, Early)
        /\ ~ At(p, e, {"handle"})
        /\ At(p, e, {"saveReset"})'
        /\ At(p, e, {"saveReset", "queueReset"})'
        /\ ~ Running(p, e)'
        /\ ~ GoingRun(p, e)'
        /\ ~ At(p, e, Copying)'
        /\ ~ At(p, e, {"saveFailed"})'
        /\ ~ At(p, e, {"saveEdit"})'
        /\ ~ At(p, e, Early)'
        /\ ~ At(p, e, {"handle"})'
    BY retryDeadLetterEventEffect, NoRunType, SomeEventType
    DEF Moves, At, Event, Running, GoingRun, RunLabels, Early, Copying
  <1>s. row' = row /\ created' = created /\ jobs' = jobs /\ Counters' = Counters
        /\ row[e].status = "dead_letter" /\ run'[p].copy.status = "pending"
    BY retryDeadLetterEventEffect
  <1>1. ASSUME First(e)
        PROVE  First(e)'
    BY <1>1, <1>s DEF First, NeverDead
  <1>2. ASSUME Later(e)
        PROVE  Later(e)'
    <2>1. /\ Cardinality(Going(e)) \in Nat /\ Cardinality(Going(e)') \in Nat
          /\ Cardinality(Going(e)') + (IF GoingRun(p, e) THEN 1 ELSE 0)
                = Cardinality(Going(e)) + (IF GoingRun(p, e)' THEN 1 ELSE 0)
      BY retryDeadLetterEventEffect, GoingChange
    <2>2. /\ handled[e] \in Nat /\ resets[e] \in Nat /\ jobs[e][1] \in Nat
          /\ crashes \in Nat /\ crashes' \in Nat
      BY RowType, AttemptsType DEF TypeOK
    <2>3. handled'[e] + jobs'[e][1] + Cardinality(Going(e)') <= 1 + resets'[e] + Slack(e)'
      BY <1>q, <1>p, <1>2, <1>s, <2>1, <2>2, AttemptsType DEF Later, Slack, Counters
    <2>4. /\ e \notin created' /\ row'[e].status # "absent"
          /\ \A k \in Attempts : k > 1 => jobs'[e][k] = 0
      BY <1>q, <1>p, <1>2, <1>s, AttemptsType DEF Later, Counters
    <2>5. \A q \in Procs : /\ Running(q, e)' => run'[q].left <= 1
                           /\ At(q, e, {"saveReset"})' => run'[q].copy.status = "pending"
      BY <1>q, <1>p, <1>2, <1>s DEF Later, Stands, Counters
    <2>6. resets'[e] = 0 => /\ jobs'[e][1] = 0
                            /\ \A q \in Procs : ~ Running(q, e)' /\ ~ GoingRun(q, e)'
      BY <1>q, <1>p, <1>2, <1>s, <2>2, AttemptsType DEF Later, Stands, Counters
    <2> QED
      BY <2>3, <2>4, <2>5, <2>6 DEF Later
  <1> QED
    BY <1>1, <1>2 DEF Goes

LEMMA updateEventActs ==
    ASSUME TypeOK, TypeOK', Present, NEW p \in Procs, NEW e \in Events,
           updateEvent(p, e), NoDeadEdits
    PROVE  Goes(e) => Goes(e)'
  <1>q. \A q \in Procs \ {p} : Stands(q, e)
    BY updateEventEffect, OthersStand
  <1>p. /\ ~ Running(p, e)
        /\ ~ GoingRun(p, e)
        /\ ~ At(p, e, Copying)
        /\ ~ At(p, e, {"saveFailed"})
        /\ ~ At(p, e, {"saveEdit"})
        /\ ~ At(p, e, {"saveReset"})
        /\ ~ At(p, e, {"saveReset", "queueReset"})
        /\ ~ At(p, e, Early)
        /\ ~ At(p, e, {"handle"})
        /\ At(p, e, Copying)'
        /\ At(p, e, {"saveEdit"})'
        /\ ~ Running(p, e)'
        /\ ~ GoingRun(p, e)'
        /\ ~ At(p, e, {"saveFailed"})'
        /\ ~ At(p, e, {"saveReset"})'
        /\ ~ At(p, e, {"saveReset", "queueReset"})'
        /\ ~ At(p, e, Early)'
        /\ ~ At(p, e, {"handle"})'
    BY updateEventEffect, NoRunType, SomeEventType
    DEF Moves, At, Event, Running, GoingRun, RunLabels, Early, Copying
  <1>s. row' = row /\ created' = created /\ jobs' = jobs /\ Counters' = Counters
    BY updateEventEffect
  <1>c. /\ run'[p].copy.retryCount = row[e].retryCount
        /\ row[e].status # "dead_letter" => run'[p].copy.status # "dead_letter"
    BY updateEventEffect DEF NoDeadEdits
  <1>1. ASSUME First(e)
        PROVE  First(e)'
    <2>1. OneJob(e)'
      BY <1>q, <1>p, <1>1, <1>s, <1>c DEF First, OneJob, Stands, Counters
    <2>2. ASSUME NEW n \in Nat, Leaves(e, n)
          PROVE  Leaves(e, n)'
      BY <1>q, <1>p, <1>1, <1>s, <1>c, <2>2 DEF First, Leaves, Stands, Copying, Counters
    <2>3. Spared(e)'
      BY <1>q, <1>p, <1>1, <1>s, <1>c, <2>2, RunType, AttemptsType
      DEF First, Spared, Stands, Counters
    <2>4. NeverDead(e)'
      BY <1>q, <1>p, <1>1, <1>s, <1>c DEF First, NeverDead, Stands, Counters
    <2>5. Due(e)'
      BY <1>q, <1>p, <1>1, <1>s, <1>c, RowType DEF First, OneJob, Due, Stands, Counters
    <2> QED
      BY <2>1, <2>3, <2>4, <2>5 DEF First
  <1>2. ASSUME Later(e)
        PROVE  Later(e)'
    <2>1. /\ Cardinality(Going(e)) \in Nat /\ Cardinality(Going(e)') \in Nat
          /\ Cardinality(Going(e)') + (IF GoingRun(p, e) THEN 1 ELSE 0)
                = Cardinality(Going(e)) + (IF GoingRun(p, e)' THEN 1 ELSE 0)
      BY updateEventEffect, GoingChange
    <2>2. /\ handled[e] \in Nat /\ resets[e] \in Nat /\ jobs[e][1] \in Nat
          /\ crashes \in Nat /\ crashes' \in Nat
      BY RowType, AttemptsType DEF TypeOK
    <2>3. handled'[e] + jobs'[e][1] + Cardinality(Going(e)') <= 1 + resets'[e] + Slack(e)'
      BY <1>q, <1>p, <1>2, <1>s, <2>1, <2>2, AttemptsType DEF Later, Slack, Counters
    <2>4. /\ e \notin created' /\ row'[e].status # "absent"
          /\ \A k \in Attempts : k > 1 => jobs'[e][k] = 0
      BY <1>q, <1>p, <1>2, <1>s, AttemptsType DEF Later, Counters
    <2>5. \A q \in Procs : /\ Running(q, e)' => run'[q].left <= 1
                           /\ At(q, e, {"saveReset"})' => run'[q].copy.status = "pending"
      BY <1>q, <1>p, <1>2, <1>s DEF Later, Stands, Counters
    <2>6. resets'[e] = 0 => /\ jobs'[e][1] = 0
                            /\ \A q \in Procs : ~ Running(q, e)' /\ ~ GoingRun(q, e)'
      BY <1>q, <1>p, <1>2, <1>s, <2>2, AttemptsType DEF Later, Stands, Counters
    <2> QED
      BY <2>3, <2>4, <2>5, <2>6 DEF Later
  <1> QED
    BY <1>1, <1>2 DEF Goes

LEMMA editSaved ==
    ASSUME TypeOK, TypeOK', Present, NEW p \in Procs, saveRequested(p),
           pc[p] = "saveEdit", Moves(p, "idle"),
           NEW e \in Events, e = Event(p)
    PROVE  Goes(e) => Goes(e)'
  <1>q. \A q \in Procs \ {p} : Stands(q, e)
    BY OthersStand
  <1>p. /\ At(p, e, Copying)
        /\ At(p, e, {"saveEdit"})
        /\ ~ Running(p, e)
        /\ ~ GoingRun(p, e)
        /\ ~ At(p, e, {"saveFailed"})
        /\ ~ At(p, e, {"saveReset"})
        /\ ~ At(p, e, {"saveReset", "queueReset"})
        /\ ~ At(p, e, Early)
        /\ ~ At(p, e, {"handle"})
        /\ ~ Running(p, e)'
        /\ ~ GoingRun(p, e)'
        /\ ~ At(p, e, Copying)'
        /\ ~ At(p, e, {"saveFailed"})'
        /\ ~ At(p, e, {"saveEdit"})'
        /\ ~ At(p, e, {"saveReset"})'
        /\ ~ At(p, e, {"saveReset", "queueReset"})'
        /\ ~ At(p, e, Early)'
        /\ ~ At(p, e, {"handle"})'
    BY saveRequestedEffect, NoRunType, SomeEventType
    DEF Moves, At, Event, Running, GoingRun, RunLabels, Early, Copying
  <1>s. /\ created' = created /\ jobs' = jobs /\ row'[e] = run[p].copy
        /\ handled' = handled /\ crashes' = crashes
        /\ resets'[e] = IF run[p].copy.status = "pending" THEN resets[e] + 1 ELSE resets[e]
    BY saveRequestedEffect DEF Saved
  <1>a. row'[e].status # "absent"
    BY <1>s, saveRequestedEffect DEF Present, SaveLabels
  <1>1. ASSUME First(e)
        PROVE  First(e)'
    <2>e. \A q \in Procs : At(q, e, {"handle"}) => At(q, e, Early)
      BY DEF At, Early
    <2>1. OneJob(e)'
      BY <1>q, <1>p, <1>1, <1>s, <1>a, <2>e DEF First, OneJob, Stands
    <2>2. ASSUME NEW n \in Nat, Leaves(e, n)
          PROVE  Leaves(e, n)'
      BY <1>q, <1>p, <1>1, <1>s, <1>a, <2>e, <2>2 DEF First, Leaves, Stands, Copying
    <2>3. Spared(e)'
      BY <1>q, <1>p, <1>1, <1>s, <1>a, <2>e, <2>2, RunType, AttemptsType
      DEF First, Spared, Stands
    <2>4. NeverDead(e)'
      BY <1>q, <1>p, <1>1, <1>s, <1>a, <2>e DEF First, NeverDead, Stands
    <2>5. Due(e)'
      BY <1>q, <1>p, <1>1, <1>s, <1>a, <2>e, RowType DEF First, OneJob, Due, Stands
    <2> QED
      BY <2>1, <2>3, <2>4, <2>5 DEF First
  <1>2. ASSUME Later(e)
        PROVE  Later(e)'
    <2>1. /\ Cardinality(Going(e)) \in Nat /\ Cardinality(Going(e)') \in Nat
          /\ Cardinality(Going(e)') + (IF GoingRun(p, e) THEN 1 ELSE 0)
                = Cardinality(Going(e)) + (IF GoingRun(p, e)' THEN 1 ELSE 0)
      BY GoingChange
    <2>2. /\ handled[e] \in Nat /\ resets[e] \in Nat /\ jobs[e][1] \in Nat
          /\ crashes \in Nat /\ crashes' \in Nat
      BY RowType, AttemptsType DEF TypeOK
    <2>3. handled'[e] + jobs'[e][1] + Cardinality(Going(e)') <= 1 + resets'[e] + Slack(e)'
      BY <1>q, <1>p, <1>2, <1>s, <1>a, <2>1, <2>2, AttemptsType DEF Later, Slack
    <2>4. /\ e \notin created' /\ row'[e].status # "absent"
          /\ \A k \in Attempts : k > 1 => jobs'[e][k] = 0
      BY <1>q, <1>p, <1>2, <1>s, <1>a, AttemptsType DEF Later
    <2>5. \A q \in Procs : /\ Running(q, e)' => run'[q].left <= 1
                           /\ At(q, e, {"saveReset"})' => run'[q].copy.status = "pending"
      BY <1>q, <1>p, <1>2, <1>s, <1>a DEF Later, Stands
    <2>6. resets'[e] = 0 => /\ jobs'[e][1] = 0
                            /\ \A q \in Procs : ~ Running(q, e)' /\ ~ GoingRun(q, e)'
      BY <1>q, <1>p, <1>2, <1>s, <1>a, <2>2, AttemptsType DEF Later, Stands
    <2> QED
      BY <2>3, <2>4, <2>5, <2>6 DEF Later
  <1> QED
    BY <1>1, <1>2 DEF Goes

LEMMA resetSaved ==
    ASSUME TypeOK, TypeOK', Present, NEW p \in Procs, saveRequested(p),
           pc[p] = "saveReset", Moves(p, "queueReset"),
           NEW e \in Events, e = Event(p)
    PROVE  Goes(e) => Goes(e)'
  <1>q. \A q \in Procs \ {p} : Stands(q, e)
    BY OthersStand
  <1>p. /\ At(p, e, {"saveReset"})
        /\ At(p, e, {"saveReset", "queueReset"})
        /\ ~ Running(p, e)
        /\ ~ GoingRun(p, e)
        /\ ~ At(p, e, Copying)
        /\ ~ At(p, e, {"saveFailed"})
        /\ ~ At(p, e, {"saveEdit"})
        /\ ~ At(p, e, Early)
        /\ ~ At(p, e, {"handle"})
        /\ GoingRun(p, e)'
        /\ At(p, e, {"saveReset", "queueReset"})'
        /\ ~ Running(p, e)'
        /\ ~ At(p, e, Copying)'
        /\ ~ At(p, e, {"saveFailed"})'
        /\ ~ At(p, e, {"saveEdit"})'
        /\ ~ At(p, e, {"saveReset"})'
        /\ ~ At(p, e, Early)'
        /\ ~ At(p, e, {"handle"})'
    BY saveRequestedEffect, NoRunType, SomeEventType
    DEF Moves, At, Event, Running, GoingRun, RunLabels, Early, Copying
  <1>s. /\ created' = created /\ jobs' = jobs /\ row'[e] = run[p].copy
        /\ handled' = handled /\ crashes' = crashes
        /\ resets'[e] = IF run[p].copy.status = "pending" THEN resets[e] + 1 ELSE resets[e]
    BY saveRequestedEffect DEF Saved
  <1>a. row'[e].status # "absent"
    BY <1>s, saveRequestedEffect DEF Present, SaveLabels
  <1>1. ASSUME First(e)
        PROVE  First(e)'
    BY <1>p, <1>1 DEF First, NeverDead
  <1>2. ASSUME Later(e)
        PROVE  Later(e)'
    <2>p. run[p].copy.status = "pending"
      BY <1>p, <1>2 DEF Later
    <2>1. /\ Cardinality(Going(e)) \in Nat /\ Cardinality(Going(e)') \in Nat
          /\ Cardinality(Going(e)') + (IF GoingRun(p, e) THEN 1 ELSE 0)
                = Cardinality(Going(e)) + (IF GoingRun(p, e)' THEN 1 ELSE 0)
      BY GoingChange
    <2>2. /\ handled[e] \in Nat /\ resets[e] \in Nat /\ jobs[e][1] \in Nat
          /\ crashes \in Nat /\ crashes' \in Nat
      BY RowType, AttemptsType DEF TypeOK
    <2>3. handled'[e] + jobs'[e][1] + Cardinality(Going(e)') <= 1 + resets'[e] + Slack(e)'
      BY <1>q, <1>p, <1>2, <1>s, <1>a, <2>p, <2>1, <2>2, AttemptsType DEF Later, Slack
    <2>4. /\ e \notin created' /\ row'[e].status # "absent"
          /\ \A k \in Attempts : k > 1 => jobs'[e][k] = 0
      BY <1>q, <1>p, <1>2, <1>s, <1>a, <2>p, AttemptsType DEF Later
    <2>5. \A q \in Procs : /\ Running(q, e)' => run'[q].left <= 1
                           /\ At(q, e, {"saveReset"})' => run'[q].copy.status = "pending"
      BY <1>q, <1>p, <1>2, <1>s, <1>a, <2>p DEF Later, Stands
    <2>6. resets'[e] = 0 => /\ jobs'[e][1] = 0
                            /\ \A q \in Procs : ~ Running(q, e)' /\ ~ GoingRun(q, e)'
      BY <1>q, <1>p, <1>2, <1>s, <1>a, <2>p, <2>2, AttemptsType DEF Later, Stands
    <2> QED
      BY <2>3, <2>4, <2>5, <2>6 DEF Later
  <1> QED
    BY <1>1, <1>2 DEF Goes

LEMMA saveRequestedActs ==
    ASSUME TypeOK, TypeOK', Present, NEW p \in Procs, saveRequested(p),
           NEW e \in Events, e = Event(p)
    PROVE  Goes(e) => Goes(e)'
  BY saveRequestedEffect, editSaved, resetSaved

LEMMA queueResetActs ==
    ASSUME TypeOK, TypeOK', Present, NEW p \in Procs, queueReset(p), NEW e \in Events,
           e = Event(p)
    PROVE  Goes(e) => Goes(e)'
  <1>q. \A q \in Procs \ {p} : Stands(q, e)
    BY queueResetEffect, OthersStand
  <1>p. /\ GoingRun(p, e)
        /\ At(p, e, {"saveReset", "queueReset"})
        /\ ~ Running(p, e)
        /\ ~ At(p, e, Copying)
        /\ ~ At(p, e, {"saveFailed"})
        /\ ~ At(p, e, {"saveEdit"})
        /\ ~ At(p, e, {"saveReset"})
        /\ ~ At(p, e, Early)
        /\ ~ At(p, e, {"handle"})
        /\ ~ Running(p, e)'
        /\ ~ GoingRun(p, e)'
        /\ ~ At(p, e, Copying)'
        /\ ~ At(p, e, {"saveFailed"})'
        /\ ~ At(p, e, {"saveEdit"})'
        /\ ~ At(p, e, {"saveReset"})'
        /\ ~ At(p, e, {"saveReset", "queueReset"})'
        /\ ~ At(p, e, Early)'
        /\ ~ At(p, e, {"handle"})'
    BY queueResetEffect, NoRunType, SomeEventType
    DEF Moves, At, Event, Running, GoingRun, RunLabels, Early, Copying
  <1>s. row' = row /\ created' = created /\ Counters' = Counters
    BY queueResetEffect
  <1>j. \/ jobs' = jobs
        \/ /\ jobs'[e][1] = jobs[e][1] + 1
           /\ \A i \in Attempts : i # 1 => jobs'[e][i] = jobs[e][i]
    BY queueResetEffect DEF Added, JobsElse
  <1>1. ASSUME First(e)
        PROVE  First(e)'
    BY <1>p, <1>1 DEF First, NeverDead
  <1>2. ASSUME Later(e)
        PROVE  Later(e)'
    <2>1. /\ Cardinality(Going(e)) \in Nat /\ Cardinality(Going(e)') \in Nat
          /\ Cardinality(Going(e)') + (IF GoingRun(p, e) THEN 1 ELSE 0)
                = Cardinality(Going(e)) + (IF GoingRun(p, e)' THEN 1 ELSE 0)
      BY queueResetEffect, GoingChange
    <2>2. /\ handled[e] \in Nat /\ resets[e] \in Nat /\ jobs[e][1] \in Nat
          /\ crashes \in Nat /\ crashes' \in Nat
      BY RowType, AttemptsType DEF TypeOK
    <2>3. handled'[e] + jobs'[e][1] + Cardinality(Going(e)') <= 1 + resets'[e] + Slack(e)'
      BY <1>q, <1>p, <1>2, <1>s, <1>j, <2>1, <2>2, AttemptsType
      DEF Later, Slack, Counters
    <2>4. /\ e \notin created' /\ row'[e].status # "absent"
          /\ \A k \in Attempts : k > 1 => jobs'[e][k] = 0
      BY <1>q, <1>p, <1>2, <1>s, <1>j, AttemptsType DEF Later, Counters
    <2>5. \A q \in Procs : /\ Running(q, e)' => run'[q].left <= 1
                           /\ At(q, e, {"saveReset"})' => run'[q].copy.status = "pending"
      BY <1>q, <1>p, <1>2, <1>s, <1>j DEF Later, Stands, Counters
    <2>6. resets'[e] = 0 => /\ jobs'[e][1] = 0
                            /\ \A q \in Procs : ~ Running(q, e)' /\ ~ GoingRun(q, e)'
      BY <1>q, <1>p, <1>2, <1>s, <1>j, <2>2, AttemptsType DEF Later, Stands, Counters
    <2> QED
      BY <2>3, <2>4, <2>5, <2>6 DEF Later
  <1> QED
    BY <1>1, <1>2 DEF Goes

LEMMA ActsStep ==
    ASSUME NoDeadEdits, TypeOK, Present, Acts, Next
    PROVE  Acts'
  <1>t. TypeOK'
    BY TypeStep
  <1>1. ASSUME NEW e \in Events, Kept(e), Goes(e) => Goes(e)', timeouts = 0
        PROVE  \A f \in Events : Goes(f)'
    BY <1>t, <1>1, QuietKeeps DEF Acts, Kept, Goes
  <1>2. CASE resetBreaker
    <2>1. row' = row /\ jobs' = jobs /\ created' = created /\ Stand /\ Counters' = Counters
      BY <1>2, resetBreakerEffect
    <2>2. \A f \in Events : Quiet(f)
      BY <2>1, KeptStanding, CrashesGrow DEF Counters
    <2> QED
      BY <1>t, <2>1, <2>2, QuietKeeps DEF Acts, Goes, Stand, Counters
  <1>3. ASSUME NEW e \in Events, createEvent(e)
        PROVE  Acts'
    <2>1. timeouts' = timeouts
      BY <1>3, createEventEffect DEF Counters
    <2>2. ASSUME timeouts = 0
          PROVE  \A q \in Procs : ~ run'[q].alone
      BY <1>3, <2>2, createEventEffect DEF Acts, Stand
    <2>3. ASSUME timeouts = 0
          PROVE  Kept(e) /\ (Goes(e) => Goes(e)')
      BY <1>3, <1>t, <2>3, createEventKept, createEventActs
    <2> QED
      BY <1>1, <2>1, <2>2, <2>3 DEF Acts, Goes
  <1>4. ASSUME NEW e \in Events, handleEventCreated(e)
        PROVE  Acts'
    <2>1. timeouts' = timeouts
      BY <1>4, handleEventCreatedEffect DEF Counters
    <2>2. ASSUME timeouts = 0
          PROVE  \A q \in Procs : ~ run'[q].alone
      BY <1>4, <2>2, handleEventCreatedEffect DEF Acts, Stand
    <2>3. ASSUME timeouts = 0
          PROVE  Kept(e) /\ (Goes(e) => Goes(e)')
      BY <1>4, <1>t, <2>3, handleEventCreatedKept, handleEventCreatedActs
    <2> QED
      BY <1>1, <2>1, <2>2, <2>3 DEF Acts, Goes
  <1>5. ASSUME NEW e \in Events, NEW k \in Attempts, rejectJob(e, k)
        PROVE  Acts'
    <2>1. timeouts' = timeouts
      BY <1>5, rejectJobEffect DEF Counters
    <2>2. ASSUME timeouts = 0
          PROVE  \A q \in Procs : ~ run'[q].alone
      BY <1>5, <2>2, rejectJobEffect DEF Acts, Stand
    <2>3. ASSUME timeouts = 0
          PROVE  Kept(e) /\ (Goes(e) => Goes(e)')
      BY <1>5, <1>t, <2>3, rejectJobKept, rejectJobActs
    <2> QED
      BY <1>1, <2>1, <2>2, <2>3 DEF Acts, Goes
  <1>6. ASSUME NEW p \in Procs, NEW e \in Events, NEW k \in Attempts, fire(p, e, k)
        PROVE  Acts'
    <2>1. timeouts' = timeouts
      BY <1>6, fireEffect DEF Counters
    <2>2. ASSUME timeouts = 0
          PROVE  \A q \in Procs : ~ run'[q].alone
      BY <1>6, <2>2, fireEffect, NoRunType, SomeEventType DEF Acts, Moves
    <2>3. ASSUME timeouts = 0
          PROVE  Kept(e) /\ (Goes(e) => Goes(e)')
      BY <1>6, <1>t, <2>3, fireKept, fireActs
    <2> QED
      BY <1>1, <2>1, <2>2, <2>3 DEF Acts, Goes
  <1>7. ASSUME NEW p \in Procs, getEventById(p)
        PROVE  Acts'
    <2>e. PICK e \in Events : e = Event(p)
      BY RunType
    <2>1. timeouts' = timeouts
      BY <1>7, getEventByIdEffect DEF Counters
    <2>2. ASSUME timeouts = 0
          PROVE  \A q \in Procs : ~ run'[q].alone
      BY <1>7, <2>2, getEventByIdEffect, NoRunType, SomeEventType DEF Acts, Moves
    <2>3. ASSUME timeouts = 0
          PROVE  Kept(e) /\ (Goes(e) => Goes(e)')
      BY <1>7, <1>t, <2>3, <2>e, getEventByIdKept, getEventByIdActs
    <2> QED
      BY <1>1, <2>1, <2>2, <2>3 DEF Acts, Goes
  <1>8. ASSUME NEW p \in Procs, readCopy(p)
        PROVE  Acts'
    <2>e. PICK e \in Events : e = Event(p)
      BY RunType
    <2>1. timeouts' = timeouts
      BY <1>8, readCopyEffect DEF Counters
    <2>2. ASSUME timeouts = 0
          PROVE  \A q \in Procs : ~ run'[q].alone
      BY <1>8, <2>2, readCopyEffect, NoRunType, SomeEventType DEF Acts, Moves
    <2>3. ASSUME timeouts = 0
          PROVE  Kept(e) /\ (Goes(e) => Goes(e)')
      BY <1>8, <1>t, <2>3, <2>e, readCopyKept, readCopyActs
    <2> QED
      BY <1>1, <2>1, <2>2, <2>3 DEF Acts, Goes
  <1>9. ASSUME NEW p \in Procs, saveProcessing(p)
        PROVE  Acts'
    <2>e. PICK e \in Events : e = Event(p)
      BY RunType
    <2>1. timeouts' = timeouts
      BY <1>9, saveProcessingEffect DEF Counters
    <2>2. ASSUME timeouts = 0
          PROVE  \A q \in Procs : ~ run'[q].alone
      BY <1>9, <2>2, saveProcessingEffect, NoRunType, SomeEventType DEF Acts, Moves
    <2>3. ASSUME timeouts = 0
          PROVE  Kept(e) /\ (Goes(e) => Goes(e)')
      BY <1>9, <1>t, <2>3, <2>e, saveProcessingKept, saveProcessingActs
    <2> QED
      BY <1>1, <2>1, <2>2, <2>3 DEF Acts, Goes
  <1>10. ASSUME NEW p \in Procs, processEventByType(p)
        PROVE  Acts'
    <2>e. PICK e \in Events : e = Event(p)
      BY RunType
    <2>1. timeouts' = timeouts
      BY <1>10, processEventByTypeEffect DEF Counters
    <2>2. ASSUME timeouts = 0
          PROVE  \A q \in Procs : ~ run'[q].alone
      BY <1>10, <2>2, processEventByTypeEffect, NoRunType, SomeEventType DEF Acts, Moves
    <2>3. ASSUME timeouts = 0
          PROVE  Kept(e) /\ (Goes(e) => Goes(e)')
      BY <1>10, <1>t, <2>3, <2>e, processEventByTypeKept, processEventByTypeActs
    <2> QED
      BY <1>1, <2>1, <2>2, <2>3 DEF Acts, Goes
  <1>11. ASSUME NEW p \in Procs, markAsProcessed(p)
        PROVE  Acts'
    <2>e. PICK e \in Events : e = Event(p)
      BY RunType
    <2>1. timeouts' = timeouts
      BY <1>11, markAsProcessedEffect DEF Counters
    <2>2. ASSUME timeouts = 0
          PROVE  \A q \in Procs : ~ run'[q].alone
      BY <1>11, <2>2, markAsProcessedEffect, NoRunType, SomeEventType DEF Acts, Moves
    <2>3. ASSUME timeouts = 0
          PROVE  Kept(e) /\ (Goes(e) => Goes(e)')
      BY <1>11, <1>t, <2>3, <2>e, markAsProcessedKept, markAsProcessedActs
    <2> QED
      BY <1>1, <2>1, <2>2, <2>3 DEF Acts, Goes
  <1>12. ASSUME NEW p \in Procs, throwHandling(p)
        PROVE  Acts'
    <2>e. PICK e \in Events : e = Event(p)
      BY RunType
    <2>1. timeouts' = timeouts
      BY <1>12, throwHandlingEffect DEF Counters
    <2>2. ASSUME timeouts = 0
          PROVE  \A q \in Procs : ~ run'[q].alone
      BY <1>12, <2>2, throwHandlingEffect, NoRunType, SomeEventType DEF Acts, Moves
    <2>3. ASSUME timeouts = 0
          PROVE  Kept(e) /\ (Goes(e) => Goes(e)')
      BY <1>12, <1>t, <2>3, <2>e, throwHandlingKept, throwHandlingActs
    <2> QED
      BY <1>1, <2>1, <2>2, <2>3 DEF Acts, Goes
  <1>13. ASSUME NEW p \in Procs, markAsFailed(p)
        PROVE  Acts'
    <2>e. PICK e \in Events : e = Event(p)
      BY RunType
    <2>1. timeouts' = timeouts
      BY <1>13, markAsFailedEffect DEF Counters
    <2>2. ASSUME timeouts = 0
          PROVE  \A q \in Procs : ~ run'[q].alone
      BY <1>13, <2>2, markAsFailedEffect, NoRunType, SomeEventType DEF Acts, Moves
    <2>3. ASSUME timeouts = 0
          PROVE  Kept(e) /\ (Goes(e) => Goes(e)')
      BY <1>13, <1>t, <2>3, <2>e, markAsFailedKept, markAsFailedActs
    <2> QED
      BY <1>1, <2>1, <2>2, <2>3 DEF Acts, Goes
  <1>14. ASSUME NEW p \in Procs, saveFailed(p)
        PROVE  Acts'
    <2>e. PICK e \in Events : e = Event(p)
      BY RunType
    <2>1. timeouts' = timeouts
      BY <1>14, saveFailedEffect DEF Counters
    <2>2. ASSUME timeouts = 0
          PROVE  \A q \in Procs : ~ run'[q].alone
      BY <1>14, <2>2, saveFailedEffect, NoRunType, SomeEventType DEF Acts, Moves
    <2>3. ASSUME timeouts = 0
          PROVE  Kept(e) /\ (Goes(e) => Goes(e)')
      BY <1>14, <1>t, <2>3, <2>e, saveFailedKept, saveFailedActs DEF Acts
    <2> QED
      BY <1>1, <2>1, <2>2, <2>3 DEF Acts, Goes
  <1>15. ASSUME NEW p \in Procs, throw(p)
        PROVE  Acts'
    <2>e. PICK e \in Events : e = Event(p)
      BY RunType
    <2>1. timeouts' = timeouts
      BY <1>15, throwEffect DEF Counters
    <2>2. ASSUME timeouts = 0
          PROVE  \A q \in Procs : ~ run'[q].alone
      BY <1>15, <2>2, throwEffect, NoRunType, SomeEventType DEF Acts, Moves
    <2>3. ASSUME timeouts = 0
          PROVE  Kept(e) /\ (Goes(e) => Goes(e)')
      BY <1>15, <1>t, <2>3, <2>e, throwKept, throwActs DEF Acts
    <2> QED
      BY <1>1, <2>1, <2>2, <2>3 DEF Acts, Goes
  <1>16. ASSUME NEW p \in Procs, timeout(p)
        PROVE  Acts'
    BY <1>16, timeoutEffect DEF Acts, TypeOK
  <1>17. ASSUME NEW p \in Procs, crash(p)
        PROVE  Acts'
    <2>e. PICK e \in Events : e = Event(p)
      BY RunType
    <2>1. timeouts' = timeouts
      BY <1>17, crashEffect DEF Counters
    <2>2. ASSUME timeouts = 0
          PROVE  \A q \in Procs : ~ run'[q].alone
      BY <1>17, <2>2, crashEffect, NoRunType, SomeEventType DEF Acts, Moves
    <2>3. ASSUME timeouts = 0
          PROVE  Kept(e) /\ (Goes(e) => Goes(e)')
      BY <1>17, <1>t, <2>3, <2>e, crashKept, crashActs DEF Acts
    <2> QED
      BY <1>1, <2>1, <2>2, <2>3 DEF Acts, Goes
  <1>18. ASSUME NEW p \in Procs, NEW e \in Events, retryDeadLetterEvent(p, e)
        PROVE  Acts'
    <2>1. timeouts' = timeouts
      BY <1>18, retryDeadLetterEventEffect DEF Counters
    <2>2. ASSUME timeouts = 0
          PROVE  \A q \in Procs : ~ run'[q].alone
      BY <1>18, <2>2, retryDeadLetterEventEffect, NoRunType, SomeEventType
      DEF Acts, Moves
    <2>3. ASSUME timeouts = 0
          PROVE  Kept(e) /\ (Goes(e) => Goes(e)')
      BY <1>18, <1>t, <2>3, retryDeadLetterEventKept, retryDeadLetterEventActs
    <2> QED
      BY <1>1, <2>1, <2>2, <2>3 DEF Acts, Goes
  <1>19. ASSUME NEW p \in Procs, NEW e \in Events, updateEvent(p, e)
        PROVE  Acts'
    <2>1. timeouts' = timeouts
      BY <1>19, updateEventEffect DEF Counters
    <2>2. ASSUME timeouts = 0
          PROVE  \A q \in Procs : ~ run'[q].alone
      BY <1>19, <2>2, updateEventEffect, NoRunType, SomeEventType DEF Acts, Moves
    <2>3. ASSUME timeouts = 0
          PROVE  Kept(e) /\ (Goes(e) => Goes(e)')
      BY <1>19, <1>t, <2>3, updateEventKept, updateEventActs
    <2> QED
      BY <1>1, <2>1, <2>2, <2>3 DEF Acts, Goes
  <1>20. ASSUME NEW p \in Procs, saveRequested(p)
        PROVE  Acts'
    <2>e. PICK e \in Events : e = Event(p)
      BY RunType
    <2>1. timeouts' = timeouts
      BY <1>20, saveRequestedEffect DEF Counters
    <2>2. ASSUME timeouts = 0
          PROVE  \A q \in Procs : ~ run'[q].alone
      BY <1>20, <2>2, saveRequestedEffect, NoRunType, SomeEventType DEF Acts, Moves
    <2>3. ASSUME timeouts = 0
          PROVE  Kept(e) /\ (Goes(e) => Goes(e)')
      BY <1>20, <1>t, <2>3, <2>e, saveRequestedKept, saveRequestedActs
    <2> QED
      BY <1>1, <2>1, <2>2, <2>3 DEF Acts, Goes
  <1>21. ASSUME NEW p \in Procs, queueReset(p)
        PROVE  Acts'
    <2>e. PICK e \in Events : e = Event(p)
      BY RunType
    <2>1. timeouts' = timeouts
      BY <1>21, queueResetEffect DEF Counters
    <2>2. ASSUME timeouts = 0
          PROVE  \A q \in Procs : ~ run'[q].alone
      BY <1>21, <2>2, queueResetEffect, NoRunType, SomeEventType DEF Acts, Moves
    <2>3. ASSUME timeouts = 0
          PROVE  Kept(e) /\ (Goes(e) => Goes(e)')
      BY <1>21, <1>t, <2>3, <2>e, queueResetKept, queueResetActs
    <2> QED
      BY <1>1, <2>1, <2>2, <2>3 DEF Acts, Goes
  <1> QED
    BY <1>2, <1>3, <1>4, <1>5, <1>6, <1>7, <1>8, <1>9, <1>10, <1>11,
       <1>12, <1>13, <1>14, <1>15, <1>16, <1>17, <1>18, <1>19, <1>20,
       <1>21
    DEF Next, TakeJob, Continue, Attempts
-----------------------------------------------------------------------------
(* The invariant holds initially and at every step.                        *)

LEMMA InitInv ==
    ASSUME Init
    PROVE  IInv
  <1> DEFINE none == [status |-> "absent", retryCount |-> 0]
             r == NoRun(SomeEvent)
  <1>1. none \in Copy /\ none.status = "absent" /\ none.retryCount = 0
    BY DEF Copy
  <1>2. r \in Run /\ r.left = 0 /\ ~ r.alone
    BY SomeEventType, NoRunType
  <1>3. /\ row = [e \in Events |-> none] /\ created = {}
        /\ jobs = [e \in Events |-> [k \in Attempts |-> 0]]
        /\ pc = [p \in Procs |-> "idle"] /\ run = [p \in Procs |-> r]
        /\ handled = [e \in Events |-> 0] /\ failures = [e \in Events |-> 0]
        /\ resets = [e \in Events |-> 0] /\ timeouts = 0 /\ crashes = 0
    BY DEF Init, Attempts
  <1> HIDE DEF none, r
  <1>4. /\ \A e \in Events : row[e].status = "absent" /\ row[e].retryCount = 0
        /\ \A e \in Events, k \in Attempts : jobs[e][k] = 0
        /\ \A p \in Procs : pc[p] = "idle" /\ run[p].left = 0 /\ ~ run[p].alone
        /\ \A e \in Events : handled[e] = 0 /\ failures[e] = 0 /\ resets[e] = 0
    BY <1>1, <1>2, <1>3
  <1>5. TypeOK
    <2>1. [k \in Attempts |-> 0] \in [Attempts -> Nat] /\ "idle" \in Labels
      BY DEF Labels
    <2> QED
      BY <1>1, <1>2, <1>3, <2>1 DEF TypeOK
  <1>6. Present
    BY <1>3, <1>4 DEF Present, SaveLabels
  <1>7. Exhausted
    <2>1. ASSUME NEW e \in Events
          PROVE  Counted(row[e], e)
      <3>1. Failing(e) = {}
        BY <1>4 DEF Failing, FailingRun, At
      <3>2. Cardinality(Failing(e)) = 0
        BY <3>1, FS_EmptySet
      <3> QED
        BY <1>4, <3>2 DEF Counted
    <2> QED
      BY <1>4, <2>1 DEF Exhausted, SaveLabels
  <1>8. Acts
    <2>1. ASSUME NEW e \in Events, NEW p \in Procs
          PROVE  /\ ~ Running(p, e) /\ ~ At(p, e, {"saveFailed"}) /\ ~ At(p, e, {"saveEdit"})
                 /\ ~ At(p, e, {"saveProcessing", "saveProcessed", "saveEdit"})
                 /\ ~ At(p, e, {"saveReset", "queueReset"}) /\ ~ At(p, e, Early)
                 /\ ~ At(p, e, {"handle"})
      BY <1>4 DEF At, Running, RunLabels, Early
    <2>2. ASSUME NEW e \in Events
          PROVE  First(e)
      <3>1. OneJob(e)
        BY <1>3, <1>4, <2>1 DEF OneJob
      <3>2. Spared(e)
        BY <1>3, <1>4, <2>1, AttemptsType DEF Spared, Leaves
      <3>3. NeverDead(e)
        BY <1>4, <2>1 DEF NeverDead
      <3>4. Due(e)
        BY <1>4, <2>1 DEF Due
      <3> QED
        BY <3>1, <3>2, <3>3, <3>4 DEF First
    <2> QED
      BY <1>4, <2>2 DEF Acts
  <1> QED
    BY <1>5, <1>6, <1>7, <1>8 DEF IInv

LEMMA NextInv ==
    ASSUME NoDeadEdits, IInv, [Next]_vars
    PROVE  IInv'
  <1>1. CASE Next
    BY <1>1, TypeStep, PresentStep, ExhaustedStep, ActsStep DEF IInv
  <1>2. CASE UNCHANGED vars
    <2>1. /\ row' = row /\ created' = created /\ jobs' = jobs /\ Stand
          /\ pc' = pc /\ run' = run /\ Counters' = Counters
          /\ handled' = handled /\ failures' = failures /\ resets' = resets
          /\ timeouts' = timeouts /\ crashes' = crashes
      BY <1>2 DEF vars, store, history, bounds, Stand, Counters
    <2>2. TypeOK'
      BY <2>1 DEF IInv, TypeOK
    <2>3. Present'
      BY <2>1 DEF IInv, Present, At, Event
    <2>4. Exhausted'
      BY <2>1 DEF IInv, Exhausted, Counted, Failing, FailingRun, At, Event
    <2>5. \A f \in Events : Quiet(f)
      BY <2>1, KeptStanding, CrashesGrow DEF IInv
    <2>6. Acts'
      BY <2>1, <2>2, <2>5, QuietKeeps DEF IInv, Acts
    <2> QED
      BY <2>2, <2>3, <2>4, <2>6 DEF IInv
  <1> QED
    BY <1>1, <1>2

(* The invariant, as long as no operator's update sends the status of a    *)
(* dead letter itself: such a request of updateEvent makes a row one       *)
(* before any attempt failed.                                              *)
THEOREM Invariance ==
    ASSUME NoDeadEdits
    PROVE  Spec => []IInv
  <1>1. Init => IInv
    BY InitInv
  <1>2. IInv /\ [Next]_vars => IInv'
    BY NextInv
  <1> QED
    BY <1>1, <1>2, PTL DEF Spec

(* markAsFailed sends an event to the dead letters only when maxRetries of *)
(* its attempts failed, whatever the breaker, the time outs, the crashes   *)
(* and the copies that overwrite each other's counts do: no row's count is *)
(* above what failed.                                                      *)
THEOREM DeadLettersAreExhausted ==
    ASSUME NoDeadEdits
    PROVE  Spec => []DeadLetterIsExhausted
  <1>1. IInv => DeadLetterIsExhausted
    <2> SUFFICES ASSUME IInv, NEW e \in Events
                 PROVE  /\ row[e].retryCount <= failures[e]
                        /\ row[e].status = "dead_letter" => failures[e] >= maxRetries
      BY DEF DeadLetterIsExhausted
    <2>1. Counted(row[e], e) /\ TypeOK
      BY DEF IInv, Exhausted
    <2> QED
      BY <2>1, FailingType, RowType DEF Counted
  <1> QED
    BY <1>1, Invariance, PTL

(* processEventByType acts on an event once, however often the queue runs  *)
(* its job, as long as no run outlives its time out: once more for each    *)
(* time it was set to pending again, and from then on once for each crash. *)
THEOREM ActsAreOncePerReset ==
    ASSUME NoDeadEdits
    PROVE  Spec => []HandledOncePerReset
  <1>1. IInv => HandledOncePerReset
    <2> SUFFICES ASSUME IInv, timeouts = 0, NEW e \in Events
                 PROVE  handled[e] <= 1 + resets[e] + Slack(e)
      BY DEF HandledOncePerReset, Slack
    <2>1. /\ handled[e] \in Nat /\ resets[e] \in Nat /\ jobs[e][1] \in Nat
          /\ Slack(e) \in Nat /\ Cardinality(Going(e)) \in Nat
      BY RowType, AttemptsType, GoingType DEF IInv, TypeOK, Slack
    <2>2. First(e) \/ Later(e)
      BY DEF IInv, Acts
    <2>3. CASE First(e)
      BY <2>1, <2>3 DEF First, Due
    <2>4. CASE Later(e)
      BY <2>1, <2>4 DEF Later
    <2> QED
      BY <2>2, <2>3, <2>4
  <1> QED
    BY <1>1, Invariance, PTL
=============================================================================
