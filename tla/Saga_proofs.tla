----------------------------- MODULE Saga_proofs -----------------------------
(***************************************************************************)
(* Theorems about Saga for any number of steps, handlers and retries, with *)
(* and without overlapping handlers, rejected calls and crashes.           *)
(***************************************************************************)
EXTENDS Saga, TLAPS, WellFoundedInduction

-----------------------------------------------------------------------------
(* The inductive invariant, in named parts.                                *)

Labels == {"idle", "insert", "queueSaga", "countRetry", "resetSteps", "readSteps",
           "begin", "stepPending", "saveStep", "queueStep", "complete", "compensating",
           "compensateStep", "compensated", "readForUpdate", "saveCancelled"}
Statuses == {"absent", "pending", "processing", "completed", "compensating",
             "compensated", "failed", "cancelled"}
StepStatuses == {"pending", "completed", "failed"}
Run == [at : 0..(Last + 1), copies : [Steps -> StepStatuses],
        status : Statuses, retryCount : Nat]

TypeOK == /\ overlap \in BOOLEAN
          /\ status \in Statuses
          /\ retryCount \in Nat
          /\ step \in [Steps -> StepStatuses]
          /\ sagaJobs \in Nat
          /\ stepJobs \in [Steps -> Nat]
          /\ pc \in [Procs -> Labels]
          /\ run \in [Procs -> Run]
          /\ queued \subseteq Steps
          /\ executions \in Nat

(* What is recorded or was read as completed was carried out, and what was *)
(* carried out was queued.                                                 *)
Recorded ==
    /\ \A i \in Steps : step[i] = "completed" => i \in carriedOut
    /\ \A p \in Procs, i \in Steps : run[p].copies[i] = "completed" => i \in carriedOut
    /\ \A i \in Steps : stepJobs[i] > 0 => i \in queued
    /\ carriedOut \subseteq queued

(* An execution has queued, or found completed, every step before the one  *)
(* it is at; a compensation is at a step it read as completed.             *)
Walked ==
    \A p \in Procs :
        /\ pc[p] \in {"stepPending", "saveStep", "queueStep"} =>
              /\ run[p].at \in Steps
              /\ \A i \in Steps : i < run[p].at => i \in queued
        /\ pc[p] = "complete" => queued = Steps
        /\ pc[p] = "compensateStep" =>
              run[p].at \in Steps /\ run[p].copies[run[p].at] = "completed"

(* A retry is counted, and an old count saved back, within the limit.      *)
RetriesKept == /\ retryCount <= maxRetries
               /\ \A p \in Procs : run[p].retryCount <= maxRetries

Alone == ~overlap => \A p, q \in Procs : pc[p] # "idle" /\ pc[q] # "idle" => p = q

(* Without overlap, what a handler read of the transaction still holds.    *)
Fresh ==
    ~overlap => \A p \in Procs :
        /\ pc[p] = "countRetry" => run[p].retryCount = retryCount + 1
        /\ pc[p] = "saveCancelled" => run[p].retryCount = retryCount
        /\ pc[p] \in {"readForUpdate", "saveCancelled"} =>
              status \notin {"completed", "compensated"}

(* The handler in flight that will execute the saga or queue it.           *)
Owing == {"queueSaga", "resetSteps", "readSteps", "begin"}
Owed == IF \E p \in Procs : pc[p] \in Owing THEN 1 ELSE 0
Granted == IF status = "absent" THEN 0 ELSE 1

(* Executions, done and to come, are paid for by the start and the retries.*)
Accounted == ~overlap => executions + sagaJobs + Owed <= Granted + retryCount

IInv == /\ TypeOK
        /\ Recorded
        /\ Walked
        /\ CompletedLeftNoneOut
        /\ CompensatedWasCarriedOut
        /\ RetriesKept
        /\ Alone
        /\ Fresh
        /\ Accounted
-----------------------------------------------------------------------------
(* What the ways of moving a handler do, component by component.           *)

LEMMA NoRunType == /\ NoRun \in Run
                   /\ NoRun.retryCount = 0
                   /\ \A i \in Steps : NoRun.copies[i] = "pending"
  BY ConstantsAssumption DEF NoRun, Run, Statuses, StepStatuses

LEMMA GotoEffect ==
    ASSUME TypeOK, NEW p \in Procs, NEW label \in Labels, Goto(p, label)
    PROVE  /\ pc' \in [Procs -> Labels]
           /\ \A q \in Procs : pc'[q] = IF q = p THEN label ELSE pc[q]
  BY DEF Goto, TypeOK

LEMMA EndEffect ==
    ASSUME TypeOK, NEW p \in Procs, End(p)
    PROVE  /\ pc' \in [Procs -> Labels]
           /\ run' \in [Procs -> Run]
           /\ \A q \in Procs : pc'[q] = IF q = p THEN "idle" ELSE pc[q]
           /\ \A q \in Procs : run'[q] = IF q = p THEN NoRun ELSE run[q]
  <1>1. "idle" \in Labels /\ Goto(p, "idle") /\ run' = [run EXCEPT ![p] = NoRun]
    BY DEF End, Labels
  <1>2. /\ run' \in [Procs -> Run]
        /\ \A q \in Procs : run'[q] = IF q = p THEN NoRun ELSE run[q]
    BY <1>1, NoRunType DEF TypeOK
  <1> QED
    BY <1>1, <1>2, GotoEffect

(* A set of numbers that is not empty has a least and, if it is bounded, a *)
(* greatest element.                                                       *)
LEMMA LeastExists ==
    ASSUME NEW S \in SUBSET Nat, S # {}
    PROVE  \E i \in S : \A j \in S : i <= j
  <1>1. PICK i \in S : \A j \in S : ~ (<<j, i>> \in OpToRel(<, Nat))
    BY WFMin, NatLessThanWellFounded
  <1>2. ASSUME NEW j \in S
        PROVE  i <= j
    <2>1. <<j, i>> \in Nat \X Nat
      OBVIOUS
    <2>2. j < i => <<j, i>> \in OpToRel(<, Nat)
      BY <2>1, Zenon DEF OpToRel
    <2>3. ~ (j < i)
      BY <1>1, <2>2, Zenon
    <2> QED
      BY <2>3
  <1> QED
    BY <1>2

LEMMA GreatestExists ==
    ASSUME NEW n \in Nat, NEW S \in SUBSET (0..n), S # {}
    PROVE  \E i \in S : \A j \in S : j <= i
  <1> DEFINE T == {n - i : i \in S}
  <1>1. T # {} /\ T \in SUBSET Nat
    <2>1. \A i \in S : n - i \in Nat
      OBVIOUS
    <2> QED
      BY <2>1, Zenon
  <1>2. PICK t \in T : \A u \in T : t <= u
    BY <1>1, LeastExists
  <1>3. PICK i \in S : t = n - i
    BY <1>2
  <1>4. ASSUME NEW j \in S
        PROVE  j <= i
    <2>1. n - j \in T
      OBVIOUS
    <2> QED
      BY <1>2, <1>3, <2>1
  <1> QED
    BY <1>4

(* executeSaga goes on to a step after i, and what it passes over it had   *)
(* read as completed.                                                      *)
LEMMA FollowingEffect ==
    ASSUME NEW p \in Procs, NEW i \in 0..Last
    PROVE  /\ Following(p, i) \in (i + 1)..(Last + 1)
           /\ \A j \in Steps : i < j /\ j < Following(p, i) => run[p].copies[j] = "completed"
  <1> DEFINE open == {j \in Steps : j > i /\ run[p].copies[j] # "completed"}
             least(j) == \A k \in open : j <= k
  <1>1. CASE open = {}
    <2>1. Following(p, i) = Last + 1
      BY <1>1 DEF Following
    <2>2. \A j \in Steps : i < j => run[p].copies[j] = "completed"
      BY <1>1
    <2> QED
      BY <2>1, <2>2, ConstantsAssumption
  <1>2. CASE open # {}
    <2>1. open \in SUBSET Nat
      BY DEF Steps
    <2>2. \E j \in open : least(j)
      BY <1>2, <2>1, LeastExists
    <2>3. Following(p, i) = CHOOSE j \in open : least(j)
      BY <1>2 DEF Following
    <2>4. Following(p, i) \in open /\ least(Following(p, i))
      BY <2>2, <2>3
    <2> QED
      BY <2>4, ConstantsAssumption DEF Steps
  <1> QED
    BY <1>1, <1>2

(* compensateSaga goes on to a step it had read as completed.              *)
LEMMA ToCompensationEffect ==
    ASSUME TypeOK, NEW p \in Procs, NEW i \in 0..(Last + 1), ToCompensation(p, i)
    PROVE  /\ pc' \in [Procs -> Labels]
           /\ run' \in [Procs -> Run]
           /\ \A q \in Procs : q # p => run'[q] = run[q] /\ pc'[q] = pc[q]
           /\ run'[p].copies = run[p].copies
           /\ run'[p].retryCount = run[p].retryCount
           /\ pc'[p] \in {"compensateStep", "compensated"}
           /\ pc'[p] = "compensateStep" =>
                 run'[p].at \in Steps /\ run[p].copies[run'[p].at] = "completed"
  <1> DEFINE before == CompletedBefore(p, i)
             greatest(j) == \A k \in before : k <= j
             at == IF before = {} THEN 0 ELSE CHOOSE j \in before : greatest(j)
             label == IF before = {} THEN "compensated" ELSE "compensateStep"
  <1>1. run' = [run EXCEPT ![p].at = at] /\ Goto(p, label)
    BY DEF ToCompensation
  <1>2. before # {} => at \in before
    <2> SUFFICES ASSUME before # {}
                 PROVE  \E j \in before : greatest(j)
      OBVIOUS
    <2>1. before \in SUBSET (0..Last)
      BY DEF CompletedBefore, Steps
    <2> QED
      BY <2>1, GreatestExists, ConstantsAssumption
  <1>3. before # {} => at \in Steps /\ run[p].copies[at] = "completed"
    BY <1>2 DEF CompletedBefore
  <1>4. at \in 0..(Last + 1)
    BY <1>3, ConstantsAssumption DEF Steps
  <1>5. /\ run' \in [Procs -> Run]
        /\ \A q \in Procs : q # p => run'[q] = run[q]
        /\ run'[p].at = at
        /\ run'[p].copies = run[p].copies
        /\ run'[p].retryCount = run[p].retryCount
    BY <1>1, <1>4 DEF TypeOK, Run
  <1>6. label \in Labels
    BY DEF Labels
  <1>7. /\ pc' \in [Procs -> Labels]
        /\ \A q \in Procs : pc'[q] = IF q = p THEN label ELSE pc[q]
    BY <1>1, <1>6, GotoEffect
  <1> QED
    BY <1>3, <1>5, <1>7

LEMMA ToStepEffect ==
    ASSUME TypeOK, NEW p \in Procs, NEW i \in 0..Last, ToStep(p, Following(p, i))
    PROVE  /\ pc' \in [Procs -> Labels]
           /\ run' \in [Procs -> Run]
           /\ \A q \in Procs : q # p => run'[q] = run[q] /\ pc'[q] = pc[q]
           /\ run'[p].copies = run[p].copies
           /\ run'[p].retryCount = run[p].retryCount
           /\ run'[p].at = Following(p, i)
           /\ pc'[p] = IF Following(p, i) > Last THEN "complete" ELSE "stepPending"
  <1>1. Following(p, i) \in 0..(Last + 1)
    BY FollowingEffect, ConstantsAssumption
  <1> QED
    BY <1>1 DEF ToStep, Goto, TypeOK, Run, Labels
-----------------------------------------------------------------------------
(* Type correctness, one step at a time.                                   *)
LEMMA TypeStep ==
    ASSUME TypeOK, Walked, [Next]_vars
    PROVE  TypeOK'
  <1> USE DEF TypeOK, Labels, setting, rows, queue, history
  <1>1. CASE UNCHANGED vars
    BY <1>1 DEF vars
  <1>2. ASSUME NEW i \in Steps, carryOutStep(i)
        PROVE  TypeOK'
    BY <1>2 DEF carryOutStep, StepStatuses
  <1>3. ASSUME NEW p \in Procs, startSaga(p)
        PROVE  TypeOK'
    BY <1>3, GotoEffect DEF startSaga
  <1>4. ASSUME NEW p \in Procs, takeSaga(p)
        PROVE  TypeOK'
    BY <1>4, GotoEffect DEF takeSaga
  <1>5. ASSUME NEW p \in Procs, retryFailedSaga(p)
        PROVE  TypeOK'
    <2>1. run' \in [Procs -> Run]
      BY <1>5 DEF retryFailedSaga, Run
    <2> QED
      BY <1>5, <2>1, GotoEffect DEF retryFailedSaga, Request
  <1>6. ASSUME NEW p \in Procs, cancelTransaction(p)
        PROVE  TypeOK'
    BY <1>6, GotoEffect DEF cancelTransaction, Request
  <1>7. ASSUME NEW p \in Procs, cleanupExpiredTransactions(p)
        PROVE  TypeOK'
    BY <1>7, GotoEffect DEF cleanupExpiredTransactions, Request
  <1>8. ASSUME NEW p \in Procs, crash(p)
        PROVE  TypeOK'
    BY <1>8, EndEffect DEF crash, Statuses
  <1>9. ASSUME NEW p \in Procs, insert(p)
        PROVE  TypeOK'
    BY <1>9, GotoEffect, EndEffect DEF insert, Statuses
  <1>10. ASSUME NEW p \in Procs, queueSaga(p)
        PROVE  TypeOK'
    BY <1>10, EndEffect DEF queueSaga, Statuses
  <1>11. ASSUME NEW p \in Procs, countRetry(p)
        PROVE  TypeOK'
    <2>1. retryCount' \in Nat
      BY <1>11 DEF countRetry, Run
    <2> QED
      BY <1>11, <2>1, GotoEffect DEF countRetry, Move, Statuses
  <1>12. ASSUME NEW p \in Procs, resetSteps(p)
        PROVE  TypeOK'
    <2>1. step' \in [Steps -> StepStatuses]
      BY <1>12 DEF resetSteps, StepStatuses
    <2> QED
      BY <1>12, <2>1, GotoEffect DEF resetSteps, Move
  <1>13. ASSUME NEW p \in Procs, readSteps(p)
        PROVE  TypeOK'
    <2>1. run' \in [Procs -> Run]
      BY <1>13 DEF readSteps, Run
    <2> QED
      BY <1>13, <2>1, GotoEffect DEF readSteps, Move
  <1>14. ASSUME NEW p \in Procs, begin(p)
        PROVE  TypeOK'
    <2>1. pc' \in [Procs -> Labels] /\ run' \in [Procs -> Run]
      BY <1>14, ToStepEffect, ConstantsAssumption DEF begin
    <2> QED
      BY <1>14, <2>1 DEF begin, Statuses
  <1>15. ASSUME NEW p \in Procs, stepPending(p)
        PROVE  TypeOK'
    <2>1. step' \in [Steps -> StepStatuses]
      BY <1>15 DEF stepPending, StepStatuses
    <2> QED
      BY <1>15, <2>1, GotoEffect DEF stepPending, Move
  <1>16. ASSUME NEW p \in Procs, saveStep(p)
        PROVE  TypeOK'
    <2>1. step' \in [Steps -> StepStatuses]
      BY <1>16 DEF saveStep, Move, Walked, Run
    <2> QED
      BY <1>16, <2>1, GotoEffect DEF saveStep, Move
  <1>17. ASSUME NEW p \in Procs, queueStep(p)
        PROVE  TypeOK'
    <2>1. run[p].at \in Steps /\ run[p].at \in 0..Last
      BY <1>17, ConstantsAssumption DEF queueStep, Walked, Steps
    <2>2. pc' \in [Procs -> Labels] /\ run' \in [Procs -> Run]
      BY <1>17, <2>1, ToStepEffect DEF queueStep
    <2> QED
      BY <1>17, <2>1, <2>2 DEF queueStep
  <1>18. ASSUME NEW p \in Procs, complete(p)
        PROVE  TypeOK'
    BY <1>18, EndEffect DEF complete, Statuses
  <1>19. ASSUME NEW p \in Procs, executionFails(p)
        PROVE  TypeOK'
    <2>1. step' \in [Steps -> StepStatuses]
      BY <1>19 DEF executionFails, StepStatuses
    <2> QED
      BY <1>19, <2>1, GotoEffect DEF executionFails
  <1>20. ASSUME NEW p \in Procs, compensateSaga(p)
        PROVE  TypeOK'
    <2>1. pc' \in [Procs -> Labels] /\ run' \in [Procs -> Run]
      BY <1>20, ToCompensationEffect, ConstantsAssumption DEF compensateSaga
    <2> QED
      BY <1>20, <2>1 DEF compensateSaga, Statuses
  <1>21. ASSUME NEW p \in Procs, compensateStep(p)
        PROVE  TypeOK'
    <2>1. run[p].at \in 0..(Last + 1)
      BY <1>21 DEF Run
    <2>2. pc' \in [Procs -> Labels] /\ run' \in [Procs -> Run]
      BY <1>21, <2>1, ToCompensationEffect DEF compensateStep
    <2> QED
      BY <1>21, <2>2 DEF compensateStep
  <1>22. ASSUME NEW p \in Procs, endCompensation(p)
        PROVE  TypeOK'
    BY <1>22, EndEffect DEF endCompensation, Statuses
  <1>23. ASSUME NEW p \in Procs, compensationFails(p)
        PROVE  TypeOK'
    BY <1>23, EndEffect DEF compensationFails, Statuses
  <1>24. ASSUME NEW p \in Procs, readForUpdate(p)
        PROVE  TypeOK'
    <2>1. run' \in [Procs -> Run]
      BY <1>24 DEF readForUpdate, Run
    <2> QED
      BY <1>24, <2>1, GotoEffect DEF readForUpdate, Move
  <1>25. ASSUME NEW p \in Procs, saveCancelled(p)
        PROVE  TypeOK'
    <2>1. retryCount' \in Nat
      BY <1>25 DEF saveCancelled, Run
    <2> QED
      BY <1>25, <2>1, EndEffect DEF saveCancelled, Statuses
  <1> QED
    BY <1>1, <1>2, <1>3, <1>4, <1>5, <1>6, <1>7, <1>8, <1>9, <1>10, <1>11, <1>12,
       <1>13, <1>14, <1>15, <1>16, <1>17, <1>18, <1>19, <1>20, <1>21, <1>22, <1>23,
       <1>24, <1>25
    DEF Next, Continue

(* Copies are of the steps as they were, jobs are of queued steps, and the *)
(* history only grows.                                                     *)
LEMMA RecordedStep ==
    ASSUME TypeOK, Walked, Recorded, [Next]_vars
    PROVE  Recorded'
  <1> USE DEF Recorded, setting, rows, queue, history
  <1>1. CASE UNCHANGED vars
    BY <1>1 DEF vars
  <1>2. ASSUME NEW i \in Steps, carryOutStep(i)
        PROVE  Recorded'
    BY <1>2 DEF carryOutStep, TypeOK
  <1>3. ASSUME NEW p \in Procs, startSaga(p)
        PROVE  Recorded'
    BY <1>3 DEF startSaga
  <1>4. ASSUME NEW p \in Procs, takeSaga(p)
        PROVE  Recorded'
    BY <1>4 DEF takeSaga
  <1>5. ASSUME NEW p \in Procs, retryFailedSaga(p)
        PROVE  Recorded'
    BY <1>5 DEF retryFailedSaga, TypeOK, Run
  <1>6. ASSUME NEW p \in Procs, cancelTransaction(p)
        PROVE  Recorded'
    BY <1>6 DEF cancelTransaction
  <1>7. ASSUME NEW p \in Procs, cleanupExpiredTransactions(p)
        PROVE  Recorded'
    BY <1>7 DEF cleanupExpiredTransactions
  <1>8. ASSUME NEW p \in Procs, crash(p)
        PROVE  Recorded'
    BY <1>8, EndEffect, NoRunType DEF crash
  <1>9. ASSUME NEW p \in Procs, insert(p)
        PROVE  Recorded'
    BY <1>9, EndEffect, NoRunType DEF insert
  <1>10. ASSUME NEW p \in Procs, queueSaga(p)
        PROVE  Recorded'
    BY <1>10, EndEffect, NoRunType DEF queueSaga
  <1>11. ASSUME NEW p \in Procs, countRetry(p)
        PROVE  Recorded'
    BY <1>11 DEF countRetry
  <1>12. ASSUME NEW p \in Procs, resetSteps(p)
        PROVE  Recorded'
    BY <1>12 DEF resetSteps, TypeOK
  <1>13. ASSUME NEW p \in Procs, readSteps(p)
        PROVE  Recorded'
    BY <1>13 DEF readSteps, TypeOK, Run
  <1>14. ASSUME NEW p \in Procs, begin(p)
        PROVE  Recorded'
    BY <1>14, ToStepEffect, ConstantsAssumption DEF begin
  <1>15. ASSUME NEW p \in Procs, stepPending(p)
        PROVE  Recorded'
    BY <1>15 DEF stepPending, TypeOK
  <1>16. ASSUME NEW p \in Procs, saveStep(p)
        PROVE  Recorded'
    <2>1. run[p].at \in Steps
      BY <1>16 DEF saveStep, Move, Walked
    <2> QED
      BY <1>16, <2>1 DEF saveStep, TypeOK
  <1>17. ASSUME NEW p \in Procs, queueStep(p)
        PROVE  Recorded'
    <2>1. run[p].at \in Steps /\ run[p].at \in 0..Last
      BY <1>17, ConstantsAssumption DEF queueStep, Walked, Steps
    <2>2. \A q \in Procs : run'[q].copies = run[q].copies
      BY <1>17, <2>1, ToStepEffect DEF queueStep
    <2> QED
      BY <1>17, <2>1, <2>2 DEF queueStep, TypeOK
  <1>18. ASSUME NEW p \in Procs, complete(p)
        PROVE  Recorded'
    BY <1>18, EndEffect, NoRunType DEF complete
  <1>19. ASSUME NEW p \in Procs, executionFails(p)
        PROVE  Recorded'
    BY <1>19 DEF executionFails, TypeOK
  <1>20. ASSUME NEW p \in Procs, compensateSaga(p)
        PROVE  Recorded'
    BY <1>20, ToCompensationEffect, ConstantsAssumption DEF compensateSaga
  <1>21. ASSUME NEW p \in Procs, compensateStep(p)
        PROVE  Recorded'
    <2>1. run[p].at \in 0..(Last + 1)
      BY <1>21 DEF TypeOK, Run
    <2> QED
      BY <1>21, <2>1, ToCompensationEffect DEF compensateStep
  <1>22. ASSUME NEW p \in Procs, endCompensation(p)
        PROVE  Recorded'
    BY <1>22, EndEffect, NoRunType DEF endCompensation
  <1>23. ASSUME NEW p \in Procs, compensationFails(p)
        PROVE  Recorded'
    BY <1>23, EndEffect, NoRunType DEF compensationFails
  <1>24. ASSUME NEW p \in Procs, readForUpdate(p)
        PROVE  Recorded'
    BY <1>24 DEF readForUpdate, TypeOK, Run
  <1>25. ASSUME NEW p \in Procs, saveCancelled(p)
        PROVE  Recorded'
    BY <1>25, EndEffect, NoRunType DEF saveCancelled
  <1> QED
    BY <1>1, <1>2, <1>3, <1>4, <1>5, <1>6, <1>7, <1>8, <1>9, <1>10, <1>11, <1>12,
       <1>13, <1>14, <1>15, <1>16, <1>17, <1>18, <1>19, <1>20, <1>21, <1>22, <1>23,
       <1>24, <1>25
    DEF Next, Continue

(* An execution that goes on to f, all steps before f queued.              *)
LEMMA Arrival ==
    ASSUME TypeOK, Walked, NEW p \in Procs, NEW f \in 1..(Last + 1), ToStep(p, f),
           queued \subseteq queued', queued' \subseteq Steps,
           \A j \in Steps : j < f => j \in queued'
    PROVE  Walked'
  <1> DEFINE label == IF f > Last THEN "complete" ELSE "stepPending"
  <1>1. f \in 0..(Last + 1) /\ label \in Labels
    BY DEF Labels
  <1>2. /\ run' = [run EXCEPT ![p].at = f]
        /\ pc' = [pc EXCEPT ![p] = label]
    BY DEF ToStep, Goto
  <1>3. /\ \A q \in Procs : q # p => run'[q] = run[q] /\ pc'[q] = pc[q]
        /\ run'[p].at = f
        /\ pc'[p] = label
    BY <1>1, <1>2 DEF TypeOK, Run
  <1>4. label = "complete" => queued' = Steps
    <2> SUFFICES ASSUME f > Last
                 PROVE  Steps \subseteq queued'
      OBVIOUS
    <2> QED
      BY ConstantsAssumption DEF Steps
  <1>5. label = "stepPending" => f \in Steps
    BY ConstantsAssumption DEF Steps
  <1> SUFFICES ASSUME NEW q \in Procs
               PROVE  Walked!(q)'
    BY DEF Walked
  <1>6. CASE q = p
    BY <1>3, <1>4, <1>5, <1>6
  <1>7. CASE q # p
    BY <1>3, <1>7 DEF Walked
  <1> QED
    BY <1>6, <1>7

(* A walk over the steps passes over those that were carried out, and so   *)
(* were queued, and over those it queues itself.                           *)
LEMMA WalkedStep ==
    ASSUME TypeOK, Recorded, Walked, [Next]_vars
    PROVE  Walked'
  <1> USE DEF Walked, setting, rows, queue, history
  <1>1. CASE UNCHANGED vars
    BY <1>1 DEF vars
  <1>2. ASSUME NEW i \in Steps, carryOutStep(i)
        PROVE  Walked'
    BY <1>2 DEF carryOutStep
  <1>3. ASSUME NEW p \in Procs, startSaga(p)
        PROVE  Walked'
    BY <1>3 DEF startSaga, Goto, TypeOK
  <1>4. ASSUME NEW p \in Procs, takeSaga(p)
        PROVE  Walked'
    BY <1>4 DEF takeSaga, Goto, TypeOK
  <1>5. ASSUME NEW p \in Procs, retryFailedSaga(p)
        PROVE  Walked'
    BY <1>5 DEF retryFailedSaga, Request, Goto, TypeOK, Run
  <1>6. ASSUME NEW p \in Procs, cancelTransaction(p)
        PROVE  Walked'
    BY <1>6 DEF cancelTransaction, Request, Goto, TypeOK
  <1>7. ASSUME NEW p \in Procs, cleanupExpiredTransactions(p)
        PROVE  Walked'
    BY <1>7 DEF cleanupExpiredTransactions, Request, Goto, TypeOK
  <1>8. ASSUME NEW p \in Procs, crash(p)
        PROVE  Walked'
    BY <1>8, EndEffect DEF crash
  <1>9. ASSUME NEW p \in Procs, insert(p)
        PROVE  Walked'
    BY <1>9, EndEffect DEF insert, Goto, TypeOK
  <1>10. ASSUME NEW p \in Procs, queueSaga(p)
        PROVE  Walked'
    BY <1>10, EndEffect DEF queueSaga
  <1>11. ASSUME NEW p \in Procs, countRetry(p)
        PROVE  Walked'
    BY <1>11 DEF countRetry, Move, Goto, TypeOK
  <1>12. ASSUME NEW p \in Procs, resetSteps(p)
        PROVE  Walked'
    BY <1>12 DEF resetSteps, Move, Goto, TypeOK
  <1>13. ASSUME NEW p \in Procs, readSteps(p)
        PROVE  Walked'
    BY <1>13 DEF readSteps, Move, Goto, TypeOK, Run
  <1>14. ASSUME NEW p \in Procs, begin(p)
        PROVE  Walked'
    <2>1. 0 \in 0..Last /\ ToStep(p, Following(p, 0)) /\ queued' = queued
      BY <1>14, ConstantsAssumption DEF begin
    <2>2. \A i \in Steps : 0 < i /\ i < Following(p, 0) => i \in queued
      BY <2>1, FollowingEffect DEF Recorded
    <2>3. Following(p, 0) \in 1..(Last + 1)
      BY <2>1, FollowingEffect, ConstantsAssumption
    <2>4. \A j \in Steps : j < Following(p, 0) => j \in queued'
      BY <2>1, <2>2 DEF Steps
    <2> QED
      BY <2>1, <2>3, <2>4, Arrival DEF TypeOK
  <1>15. ASSUME NEW p \in Procs, stepPending(p)
        PROVE  Walked'
    BY <1>15 DEF stepPending, Move, Goto, TypeOK
  <1>16. ASSUME NEW p \in Procs, saveStep(p)
        PROVE  Walked'
    BY <1>16 DEF saveStep, Move, Goto, TypeOK
  <1>17. ASSUME NEW p \in Procs, queueStep(p)
        PROVE  Walked'
    <2> DEFINE i == run[p].at
    <2>1. i \in Steps /\ i \in 0..Last /\ \A j \in Steps : j < i => j \in queued
      BY <1>17, ConstantsAssumption DEF queueStep, Steps
    <2>2. ToStep(p, Following(p, i)) /\ queued' = queued \cup {i}
      BY <1>17 DEF queueStep
    <2>3. \A j \in Steps : i < j /\ j < Following(p, i) => j \in queued
      BY <2>1, FollowingEffect DEF Recorded
    <2>4. \A j \in Steps : j < Following(p, i) => j \in queued'
      BY <2>1, <2>2, <2>3 DEF Steps
    <2>5. Following(p, i) \in 1..(Last + 1)
      BY <2>1, FollowingEffect, ConstantsAssumption
    <2> QED
      BY <2>1, <2>2, <2>4, <2>5, Arrival DEF TypeOK
  <1>18. ASSUME NEW p \in Procs, complete(p)
        PROVE  Walked'
    BY <1>18, EndEffect DEF complete
  <1>19. ASSUME NEW p \in Procs, executionFails(p)
        PROVE  Walked'
    BY <1>19 DEF executionFails, Goto, TypeOK
  <1>20. ASSUME NEW p \in Procs, compensateSaga(p)
        PROVE  Walked'
    BY <1>20, ToCompensationEffect, ConstantsAssumption DEF compensateSaga
  <1>21. ASSUME NEW p \in Procs, compensateStep(p)
        PROVE  Walked'
    <2>1. run[p].at \in 0..(Last + 1)
      BY <1>21 DEF TypeOK, Run
    <2> QED
      BY <1>21, <2>1, ToCompensationEffect DEF compensateStep
  <1>22. ASSUME NEW p \in Procs, endCompensation(p)
        PROVE  Walked'
    BY <1>22, EndEffect DEF endCompensation
  <1>23. ASSUME NEW p \in Procs, compensationFails(p)
        PROVE  Walked'
    BY <1>23, EndEffect DEF compensationFails
  <1>24. ASSUME NEW p \in Procs, readForUpdate(p)
        PROVE  Walked'
    BY <1>24 DEF readForUpdate, Move, Goto, TypeOK, Run
  <1>25. ASSUME NEW p \in Procs, saveCancelled(p)
        PROVE  Walked'
    BY <1>25, EndEffect DEF saveCancelled
  <1> QED
    BY <1>1, <1>2, <1>3, <1>4, <1>5, <1>6, <1>7, <1>8, <1>9, <1>10, <1>11, <1>12,
       <1>13, <1>14, <1>15, <1>16, <1>17, <1>18, <1>19, <1>20, <1>21, <1>22, <1>23,
       <1>24, <1>25
    DEF Next, Continue

(* Only the end of a walk completes the saga, and what was queued remains. *)
LEMMA CompletedStep ==
    ASSUME TypeOK, Walked, CompletedLeftNoneOut, [Next]_vars
    PROVE  CompletedLeftNoneOut'
  <1> USE DEF CompletedLeftNoneOut, TypeOK, setting, rows, queue, history
  <1>1. CASE UNCHANGED vars
    BY <1>1 DEF vars
  <1>2. ASSUME NEW i \in Steps, carryOutStep(i)
        PROVE  CompletedLeftNoneOut'
    BY <1>2 DEF carryOutStep
  <1>3. ASSUME NEW p \in Procs, startSaga(p)
        PROVE  CompletedLeftNoneOut'
    BY <1>3 DEF startSaga
  <1>4. ASSUME NEW p \in Procs, takeSaga(p)
        PROVE  CompletedLeftNoneOut'
    BY <1>4 DEF takeSaga
  <1>5. ASSUME NEW p \in Procs, retryFailedSaga(p)
        PROVE  CompletedLeftNoneOut'
    BY <1>5 DEF retryFailedSaga
  <1>6. ASSUME NEW p \in Procs, cancelTransaction(p)
        PROVE  CompletedLeftNoneOut'
    BY <1>6 DEF cancelTransaction
  <1>7. ASSUME NEW p \in Procs, cleanupExpiredTransactions(p)
        PROVE  CompletedLeftNoneOut'
    BY <1>7 DEF cleanupExpiredTransactions
  <1>8. ASSUME NEW p \in Procs, crash(p)
        PROVE  CompletedLeftNoneOut'
    BY <1>8 DEF crash
  <1>9. ASSUME NEW p \in Procs, insert(p)
        PROVE  CompletedLeftNoneOut'
    BY <1>9 DEF insert
  <1>10. ASSUME NEW p \in Procs, queueSaga(p)
        PROVE  CompletedLeftNoneOut'
    BY <1>10 DEF queueSaga
  <1>11. ASSUME NEW p \in Procs, countRetry(p)
        PROVE  CompletedLeftNoneOut'
    BY <1>11 DEF countRetry
  <1>12. ASSUME NEW p \in Procs, resetSteps(p)
        PROVE  CompletedLeftNoneOut'
    BY <1>12 DEF resetSteps
  <1>13. ASSUME NEW p \in Procs, readSteps(p)
        PROVE  CompletedLeftNoneOut'
    BY <1>13 DEF readSteps
  <1>14. ASSUME NEW p \in Procs, begin(p)
        PROVE  CompletedLeftNoneOut'
    BY <1>14 DEF begin
  <1>15. ASSUME NEW p \in Procs, stepPending(p)
        PROVE  CompletedLeftNoneOut'
    BY <1>15 DEF stepPending
  <1>16. ASSUME NEW p \in Procs, saveStep(p)
        PROVE  CompletedLeftNoneOut'
    BY <1>16 DEF saveStep
  <1>17. ASSUME NEW p \in Procs, queueStep(p)
        PROVE  CompletedLeftNoneOut'
    <2>1. run[p].at \in Steps
      BY <1>17 DEF queueStep, Walked
    <2> QED
      BY <1>17, <2>1 DEF queueStep
  <1>18. ASSUME NEW p \in Procs, complete(p)
        PROVE  CompletedLeftNoneOut'
    BY <1>18 DEF complete, Walked
  <1>19. ASSUME NEW p \in Procs, executionFails(p)
        PROVE  CompletedLeftNoneOut'
    BY <1>19 DEF executionFails
  <1>20. ASSUME NEW p \in Procs, compensateSaga(p)
        PROVE  CompletedLeftNoneOut'
    BY <1>20 DEF compensateSaga
  <1>21. ASSUME NEW p \in Procs, compensateStep(p)
        PROVE  CompletedLeftNoneOut'
    BY <1>21 DEF compensateStep
  <1>22. ASSUME NEW p \in Procs, endCompensation(p)
        PROVE  CompletedLeftNoneOut'
    BY <1>22 DEF endCompensation
  <1>23. ASSUME NEW p \in Procs, compensationFails(p)
        PROVE  CompletedLeftNoneOut'
    BY <1>23 DEF compensationFails
  <1>24. ASSUME NEW p \in Procs, readForUpdate(p)
        PROVE  CompletedLeftNoneOut'
    BY <1>24 DEF readForUpdate
  <1>25. ASSUME NEW p \in Procs, saveCancelled(p)
        PROVE  CompletedLeftNoneOut'
    BY <1>25 DEF saveCancelled
  <1> QED
    BY <1>1, <1>2, <1>3, <1>4, <1>5, <1>6, <1>7, <1>8, <1>9, <1>10, <1>11, <1>12,
       <1>13, <1>14, <1>15, <1>16, <1>17, <1>18, <1>19, <1>20, <1>21, <1>22, <1>23,
       <1>24, <1>25
    DEF Next, Continue

(* Only a step that was read as completed is compensated.                  *)
LEMMA CompensatedStep ==
    ASSUME Recorded, Walked, CompensatedWasCarriedOut, [Next]_vars
    PROVE  CompensatedWasCarriedOut'
  <1> USE DEF CompensatedWasCarriedOut, setting, rows, queue, history
  <1>1. CASE UNCHANGED vars
    BY <1>1 DEF vars
  <1>2. ASSUME NEW i \in Steps, carryOutStep(i)
        PROVE  CompensatedWasCarriedOut'
    BY <1>2 DEF carryOutStep
  <1>3. ASSUME NEW p \in Procs, startSaga(p)
        PROVE  CompensatedWasCarriedOut'
    BY <1>3 DEF startSaga
  <1>4. ASSUME NEW p \in Procs, takeSaga(p)
        PROVE  CompensatedWasCarriedOut'
    BY <1>4 DEF takeSaga
  <1>5. ASSUME NEW p \in Procs, retryFailedSaga(p)
        PROVE  CompensatedWasCarriedOut'
    BY <1>5 DEF retryFailedSaga
  <1>6. ASSUME NEW p \in Procs, cancelTransaction(p)
        PROVE  CompensatedWasCarriedOut'
    BY <1>6 DEF cancelTransaction
  <1>7. ASSUME NEW p \in Procs, cleanupExpiredTransactions(p)
        PROVE  CompensatedWasCarriedOut'
    BY <1>7 DEF cleanupExpiredTransactions
  <1>8. ASSUME NEW p \in Procs, crash(p)
        PROVE  CompensatedWasCarriedOut'
    BY <1>8 DEF crash
  <1>9. ASSUME NEW p \in Procs, insert(p)
        PROVE  CompensatedWasCarriedOut'
    BY <1>9 DEF insert
  <1>10. ASSUME NEW p \in Procs, queueSaga(p)
        PROVE  CompensatedWasCarriedOut'
    BY <1>10 DEF queueSaga
  <1>11. ASSUME NEW p \in Procs, countRetry(p)
        PROVE  CompensatedWasCarriedOut'
    BY <1>11 DEF countRetry
  <1>12. ASSUME NEW p \in Procs, resetSteps(p)
        PROVE  CompensatedWasCarriedOut'
    BY <1>12 DEF resetSteps
  <1>13. ASSUME NEW p \in Procs, readSteps(p)
        PROVE  CompensatedWasCarriedOut'
    BY <1>13 DEF readSteps
  <1>14. ASSUME NEW p \in Procs, begin(p)
        PROVE  CompensatedWasCarriedOut'
    BY <1>14 DEF begin
  <1>15. ASSUME NEW p \in Procs, stepPending(p)
        PROVE  CompensatedWasCarriedOut'
    BY <1>15 DEF stepPending
  <1>16. ASSUME NEW p \in Procs, saveStep(p)
        PROVE  CompensatedWasCarriedOut'
    BY <1>16 DEF saveStep
  <1>17. ASSUME NEW p \in Procs, queueStep(p)
        PROVE  CompensatedWasCarriedOut'
    BY <1>17 DEF queueStep
  <1>18. ASSUME NEW p \in Procs, complete(p)
        PROVE  CompensatedWasCarriedOut'
    BY <1>18 DEF complete
  <1>19. ASSUME NEW p \in Procs, executionFails(p)
        PROVE  CompensatedWasCarriedOut'
    BY <1>19 DEF executionFails
  <1>20. ASSUME NEW p \in Procs, compensateSaga(p)
        PROVE  CompensatedWasCarriedOut'
    BY <1>20 DEF compensateSaga
  <1>21. ASSUME NEW p \in Procs, compensateStep(p)
        PROVE  CompensatedWasCarriedOut'
    BY <1>21 DEF compensateStep, Recorded, Walked
  <1>22. ASSUME NEW p \in Procs, endCompensation(p)
        PROVE  CompensatedWasCarriedOut'
    BY <1>22 DEF endCompensation
  <1>23. ASSUME NEW p \in Procs, compensationFails(p)
        PROVE  CompensatedWasCarriedOut'
    BY <1>23 DEF compensationFails
  <1>24. ASSUME NEW p \in Procs, readForUpdate(p)
        PROVE  CompensatedWasCarriedOut'
    BY <1>24 DEF readForUpdate
  <1>25. ASSUME NEW p \in Procs, saveCancelled(p)
        PROVE  CompensatedWasCarriedOut'
    BY <1>25 DEF saveCancelled
  <1> QED
    BY <1>1, <1>2, <1>3, <1>4, <1>5, <1>6, <1>7, <1>8, <1>9, <1>10, <1>11, <1>12,
       <1>13, <1>14, <1>15, <1>16, <1>17, <1>18, <1>19, <1>20, <1>21, <1>22, <1>23,
       <1>24, <1>25
    DEF Next, Continue

(* A retry is begun below the limit, and only what was read is saved back. *)
LEMMA RetriesStep ==
    ASSUME TypeOK, RetriesKept, [Next]_vars
    PROVE  RetriesKept'
  <1> USE DEF RetriesKept, setting, rows, queue, history
  <1>1. CASE UNCHANGED vars
    BY <1>1 DEF vars
  <1>2. ASSUME NEW i \in Steps, carryOutStep(i)
        PROVE  RetriesKept'
    BY <1>2 DEF carryOutStep
  <1>3. ASSUME NEW p \in Procs, startSaga(p)
        PROVE  RetriesKept'
    BY <1>3 DEF startSaga
  <1>4. ASSUME NEW p \in Procs, takeSaga(p)
        PROVE  RetriesKept'
    BY <1>4 DEF takeSaga
  <1>5. ASSUME NEW p \in Procs, retryFailedSaga(p)
        PROVE  RetriesKept'
    BY <1>5, ConstantsAssumption DEF retryFailedSaga, TypeOK, Run
  <1>6. ASSUME NEW p \in Procs, cancelTransaction(p)
        PROVE  RetriesKept'
    BY <1>6 DEF cancelTransaction
  <1>7. ASSUME NEW p \in Procs, cleanupExpiredTransactions(p)
        PROVE  RetriesKept'
    BY <1>7 DEF cleanupExpiredTransactions
  <1>8. ASSUME NEW p \in Procs, crash(p)
        PROVE  RetriesKept'
    BY <1>8, EndEffect, NoRunType, ConstantsAssumption DEF crash
  <1>9. ASSUME NEW p \in Procs, insert(p)
        PROVE  RetriesKept'
    BY <1>9, EndEffect, NoRunType, ConstantsAssumption DEF insert
  <1>10. ASSUME NEW p \in Procs, queueSaga(p)
        PROVE  RetriesKept'
    BY <1>10, EndEffect, NoRunType, ConstantsAssumption DEF queueSaga
  <1>11. ASSUME NEW p \in Procs, countRetry(p)
        PROVE  RetriesKept'
    BY <1>11 DEF countRetry
  <1>12. ASSUME NEW p \in Procs, resetSteps(p)
        PROVE  RetriesKept'
    BY <1>12 DEF resetSteps
  <1>13. ASSUME NEW p \in Procs, readSteps(p)
        PROVE  RetriesKept'
    BY <1>13 DEF readSteps, TypeOK, Run
  <1>14. ASSUME NEW p \in Procs, begin(p)
        PROVE  RetriesKept'
    BY <1>14, ToStepEffect, ConstantsAssumption DEF begin
  <1>15. ASSUME NEW p \in Procs, stepPending(p)
        PROVE  RetriesKept'
    BY <1>15 DEF stepPending
  <1>16. ASSUME NEW p \in Procs, saveStep(p)
        PROVE  RetriesKept'
    BY <1>16 DEF saveStep
  <1>17. ASSUME NEW p \in Procs, queueStep(p)
        PROVE  RetriesKept'
    <2>1. run'[p].retryCount = run[p].retryCount
      BY <1>17 DEF queueStep, ToStep, TypeOK, Run
    <2> QED
      BY <1>17, <2>1 DEF queueStep, ToStep, TypeOK, Run
  <1>18. ASSUME NEW p \in Procs, complete(p)
        PROVE  RetriesKept'
    BY <1>18, EndEffect, NoRunType, ConstantsAssumption DEF complete
  <1>19. ASSUME NEW p \in Procs, executionFails(p)
        PROVE  RetriesKept'
    BY <1>19 DEF executionFails
  <1>20. ASSUME NEW p \in Procs, compensateSaga(p)
        PROVE  RetriesKept'
    BY <1>20, ToCompensationEffect, ConstantsAssumption DEF compensateSaga
  <1>21. ASSUME NEW p \in Procs, compensateStep(p)
        PROVE  RetriesKept'
    <2>1. run[p].at \in 0..(Last + 1)
      BY <1>21 DEF TypeOK, Run
    <2> QED
      BY <1>21, <2>1, ToCompensationEffect DEF compensateStep
  <1>22. ASSUME NEW p \in Procs, endCompensation(p)
        PROVE  RetriesKept'
    BY <1>22, EndEffect, NoRunType, ConstantsAssumption DEF endCompensation
  <1>23. ASSUME NEW p \in Procs, compensationFails(p)
        PROVE  RetriesKept'
    BY <1>23, EndEffect, NoRunType, ConstantsAssumption DEF compensationFails
  <1>24. ASSUME NEW p \in Procs, readForUpdate(p)
        PROVE  RetriesKept'
    BY <1>24 DEF readForUpdate, TypeOK, Run
  <1>25. ASSUME NEW p \in Procs, saveCancelled(p)
        PROVE  RetriesKept'
    BY <1>25, EndEffect, NoRunType, ConstantsAssumption DEF saveCancelled
  <1> QED
    BY <1>1, <1>2, <1>3, <1>4, <1>5, <1>6, <1>7, <1>8, <1>9, <1>10, <1>11, <1>12,
       <1>13, <1>14, <1>15, <1>16, <1>17, <1>18, <1>19, <1>20, <1>21, <1>22, <1>23,
       <1>24, <1>25
    DEF Next, Continue

-----------------------------------------------------------------------------
(* Handlers that do not overlap.                                           *)

HandlerStep(p) == \/ startSaga(p)
                  \/ takeSaga(p)
                  \/ retryFailedSaga(p)
                  \/ cancelTransaction(p)
                  \/ cleanupExpiredTransactions(p)
                  \/ Continue(p)
                  \/ crash(p)

(* A step of a handler moves no other.                                     *)
LEMMA OneMoves ==
    ASSUME TypeOK, NEW p \in Procs, HandlerStep(p)
    PROVE  overlap' = overlap /\ \A q \in Procs : q # p => pc'[q] = pc[q]
  <1> USE DEF TypeOK, Goto, setting
  <1>1. ASSUME startSaga(p)
        PROVE  overlap' = overlap /\ \A q \in Procs : q # p => pc'[q] = pc[q]
    BY <1>1 DEF startSaga
  <1>2. ASSUME takeSaga(p)
        PROVE  overlap' = overlap /\ \A q \in Procs : q # p => pc'[q] = pc[q]
    BY <1>2 DEF takeSaga
  <1>3. ASSUME retryFailedSaga(p)
        PROVE  overlap' = overlap /\ \A q \in Procs : q # p => pc'[q] = pc[q]
    BY <1>3 DEF retryFailedSaga, Request
  <1>4. ASSUME cancelTransaction(p)
        PROVE  overlap' = overlap /\ \A q \in Procs : q # p => pc'[q] = pc[q]
    BY <1>4 DEF cancelTransaction, Request
  <1>5. ASSUME cleanupExpiredTransactions(p)
        PROVE  overlap' = overlap /\ \A q \in Procs : q # p => pc'[q] = pc[q]
    BY <1>5 DEF cleanupExpiredTransactions, Request
  <1>6. ASSUME crash(p)
        PROVE  overlap' = overlap /\ \A q \in Procs : q # p => pc'[q] = pc[q]
    BY <1>6 DEF crash, End
  <1>7. ASSUME insert(p)
        PROVE  overlap' = overlap /\ \A q \in Procs : q # p => pc'[q] = pc[q]
    BY <1>7 DEF insert, End
  <1>8. ASSUME queueSaga(p)
        PROVE  overlap' = overlap /\ \A q \in Procs : q # p => pc'[q] = pc[q]
    BY <1>8 DEF queueSaga, End
  <1>9. ASSUME countRetry(p)
        PROVE  overlap' = overlap /\ \A q \in Procs : q # p => pc'[q] = pc[q]
    BY <1>9 DEF countRetry, Move
  <1>10. ASSUME resetSteps(p)
        PROVE  overlap' = overlap /\ \A q \in Procs : q # p => pc'[q] = pc[q]
    BY <1>10 DEF resetSteps, Move
  <1>11. ASSUME readSteps(p)
        PROVE  overlap' = overlap /\ \A q \in Procs : q # p => pc'[q] = pc[q]
    BY <1>11 DEF readSteps, Move
  <1>12. ASSUME begin(p)
        PROVE  overlap' = overlap /\ \A q \in Procs : q # p => pc'[q] = pc[q]
    BY <1>12 DEF begin, ToStep
  <1>13. ASSUME stepPending(p)
        PROVE  overlap' = overlap /\ \A q \in Procs : q # p => pc'[q] = pc[q]
    BY <1>13 DEF stepPending, Move
  <1>14. ASSUME saveStep(p)
        PROVE  overlap' = overlap /\ \A q \in Procs : q # p => pc'[q] = pc[q]
    BY <1>14 DEF saveStep, Move
  <1>15. ASSUME queueStep(p)
        PROVE  overlap' = overlap /\ \A q \in Procs : q # p => pc'[q] = pc[q]
    BY <1>15 DEF queueStep, ToStep
  <1>16. ASSUME complete(p)
        PROVE  overlap' = overlap /\ \A q \in Procs : q # p => pc'[q] = pc[q]
    BY <1>16 DEF complete, End
  <1>17. ASSUME executionFails(p)
        PROVE  overlap' = overlap /\ \A q \in Procs : q # p => pc'[q] = pc[q]
    BY <1>17 DEF executionFails
  <1>18. ASSUME compensateSaga(p)
        PROVE  overlap' = overlap /\ \A q \in Procs : q # p => pc'[q] = pc[q]
    BY <1>18 DEF compensateSaga, ToCompensation
  <1>19. ASSUME compensateStep(p)
        PROVE  overlap' = overlap /\ \A q \in Procs : q # p => pc'[q] = pc[q]
    BY <1>19 DEF compensateStep, ToCompensation
  <1>20. ASSUME endCompensation(p)
        PROVE  overlap' = overlap /\ \A q \in Procs : q # p => pc'[q] = pc[q]
    BY <1>20 DEF endCompensation, End
  <1>21. ASSUME compensationFails(p)
        PROVE  overlap' = overlap /\ \A q \in Procs : q # p => pc'[q] = pc[q]
    BY <1>21 DEF compensationFails, End
  <1>22. ASSUME readForUpdate(p)
        PROVE  overlap' = overlap /\ \A q \in Procs : q # p => pc'[q] = pc[q]
    BY <1>22 DEF readForUpdate, Move
  <1>23. ASSUME saveCancelled(p)
        PROVE  overlap' = overlap /\ \A q \in Procs : q # p => pc'[q] = pc[q]
    BY <1>23 DEF saveCancelled, End
  <1> QED
    BY <1>1, <1>2, <1>3, <1>4, <1>5, <1>6, <1>7, <1>8, <1>9, <1>10, <1>11, <1>12,
       <1>13, <1>14, <1>15, <1>16, <1>17, <1>18, <1>19, <1>20, <1>21, <1>22, <1>23
    DEF HandlerStep, Continue

(* Without overlap, all the others are idle.                               *)
LEMMA OthersIdle ==
    ASSUME TypeOK, Alone, ~overlap, NEW p \in Procs, HandlerStep(p)
    PROVE  \A q \in Procs : q # p => pc[q] = "idle" /\ pc'[q] = "idle"
  <1>1. CASE MayStart(p)
    BY <1>1, OneMoves DEF MayStart
  <1>2. CASE pc[p] # "idle"
    BY <1>2, OneMoves DEF Alone
  <1>3. MayStart(p) \/ pc[p] # "idle"
    <2>1. Continue(p) => pc[p] # "idle"
      BY DEF Continue, Move, insert, queueSaga, countRetry, resetSteps, readSteps, begin,
             stepPending, saveStep, queueStep, complete, executionFails,
             compensateSaga, compensateStep, endCompensation, compensationFails,
             readForUpdate, saveCancelled
    <2> QED
      BY <2>1 DEF HandlerStep, startSaga, takeSaga, retryFailedSaga, cancelTransaction,
                  cleanupExpiredTransactions, Request, crash
  <1> QED
    BY <1>1, <1>2, <1>3

LEMMA AloneStep ==
    ASSUME TypeOK, Alone, [Next]_vars
    PROVE  Alone'
  <1>1. CASE UNCHANGED vars
    BY <1>1 DEF vars, setting, Alone
  <1>2. ASSUME NEW i \in Steps, carryOutStep(i)
        PROVE  Alone'
    BY <1>2 DEF carryOutStep, setting, Alone
  <1>3. ASSUME NEW p \in Procs, HandlerStep(p)
        PROVE  Alone'
    BY <1>3, OneMoves, OthersIdle DEF Alone
  <1> QED
    BY <1>1, <1>2, <1>3 DEF Next, HandlerStep


(* What a handler read stays true while it is alone.                       *)
LEMMA FreshStep ==
    ASSUME TypeOK, Alone, Fresh, [Next]_vars
    PROVE  Fresh'
  <1> SUFFICES ASSUME ~overlap'
               PROVE  Fresh'
    BY DEF Fresh
  <1> USE DEF Fresh, rows, queue, history
  <1>1. CASE UNCHANGED vars
    BY <1>1 DEF vars, setting
  <1>2. ASSUME NEW i \in Steps, carryOutStep(i)
        PROVE  Fresh'
    BY <1>2 DEF carryOutStep, setting
  <1>3. ASSUME NEW p \in Procs, HandlerStep(p)
        PROVE  Fresh'
    <2> DEFINE Kept == /\ pc'[p] = "countRetry" => run'[p].retryCount = retryCount' + 1
                       /\ pc'[p] = "saveCancelled" => run'[p].retryCount = retryCount'
                       /\ pc'[p] \in {"readForUpdate", "saveCancelled"} =>
                             status' \notin {"completed", "compensated"}
    <2> SUFFICES Kept
      BY <1>3, OneMoves, OthersIdle
    <2>0. ~overlap
      BY <1>3, OneMoves
    <2> USE <2>0 DEF TypeOK
    <2>1. CASE startSaga(p)
      BY <2>1 DEF startSaga, Goto
    <2>2. CASE takeSaga(p)
      BY <2>2 DEF takeSaga, Goto
    <2>3. CASE retryFailedSaga(p)
      BY <2>3 DEF retryFailedSaga, Request, Goto, Run
    <2>4. CASE cancelTransaction(p)
      BY <2>4 DEF cancelTransaction, Request, Goto
    <2>5. CASE cleanupExpiredTransactions(p)
      BY <2>5 DEF cleanupExpiredTransactions, Request, Goto
    <2>6. CASE crash(p)
      BY <2>6 DEF crash, End, Goto
    <2>7. CASE insert(p)
      BY <2>7 DEF insert, End, Goto
    <2>8. CASE queueSaga(p)
      BY <2>8 DEF queueSaga, End, Goto
    <2>9. CASE countRetry(p)
      BY <2>9 DEF countRetry, Move, Goto
    <2>10. CASE resetSteps(p)
      BY <2>10 DEF resetSteps, Move, Goto
    <2>11. CASE readSteps(p)
      BY <2>11 DEF readSteps, Move, Goto
    <2>12. CASE begin(p)
      BY <2>12 DEF begin, ToStep, Goto
    <2>13. CASE stepPending(p)
      BY <2>13 DEF stepPending, Move, Goto
    <2>14. CASE saveStep(p)
      BY <2>14 DEF saveStep, Move, Goto
    <2>15. CASE queueStep(p)
      BY <2>15 DEF queueStep, ToStep, Goto
    <2>16. CASE complete(p)
      BY <2>16 DEF complete, End, Goto
    <2>17. CASE executionFails(p)
      BY <2>17 DEF executionFails, Goto
    <2>18. CASE compensateSaga(p)
      BY <2>18 DEF compensateSaga, ToCompensation, Goto
    <2>19. CASE compensateStep(p)
      BY <2>19 DEF compensateStep, ToCompensation, Goto
    <2>20. CASE endCompensation(p)
      BY <2>20 DEF endCompensation, End, Goto
    <2>21. CASE compensationFails(p)
      BY <2>21 DEF compensationFails, End, Goto
    <2>22. CASE readForUpdate(p)
      BY <2>22 DEF readForUpdate, Move, Goto, Run
    <2>23. CASE saveCancelled(p)
      BY <2>23 DEF saveCancelled, End, Goto
    <2> QED
      BY <1>3, <2>1, <2>2, <2>3, <2>4, <2>5, <2>6, <2>7, <2>8, <2>9, <2>10, <2>11,
         <2>12, <2>13, <2>14, <2>15, <2>16, <2>17, <2>18, <2>19, <2>20, <2>21,
         <2>22, <2>23
      DEF HandlerStep, Continue
  <1> QED
    BY <1>1, <1>2, <1>3 DEF Next, HandlerStep


(* Without overlap, what the other handlers owe is nothing.                *)
LEMMA OwedByOne ==
    ASSUME TypeOK, Alone, ~overlap, NEW p \in Procs, HandlerStep(p)
    PROVE  /\ Owed = IF pc[p] \in Owing THEN 1 ELSE 0
           /\ Owed' = IF pc'[p] \in Owing THEN 1 ELSE 0
  BY OthersIdle DEF Owed, Owing

(* An execution is owed for the start, once, and for each counted retry.   *)
LEMMA AccountedStep ==
    ASSUME TypeOK, Alone, Fresh, Accounted, [Next]_vars
    PROVE  Accounted'
  <1> SUFFICES ASSUME ~overlap'
               PROVE  executions' + sagaJobs' + Owed' <= Granted' + retryCount'
    BY DEF Accounted
  <1>1. CASE UNCHANGED vars
    BY <1>1 DEF vars, setting, rows, queue, history, Accounted, Owed, Granted
  <1>2. ASSUME NEW i \in Steps, carryOutStep(i)
        PROVE  executions' + sagaJobs' + Owed' <= Granted' + retryCount'
    BY <1>2 DEF carryOutStep, setting, Accounted, Owed, Granted
  <1>3. ASSUME NEW p \in Procs, HandlerStep(p)
        PROVE  executions' + sagaJobs' + Owed' <= Granted' + retryCount'
    <2> DEFINE Owes(label) == IF label \in Owing THEN 1 ELSE 0
               Goal == executions' + sagaJobs' + Owes(pc'[p]) <= Granted' + retryCount'
    <2>a. ~overlap
      BY <1>3, OneMoves
    <2>b. Owed = Owes(pc[p]) /\ Owed' = Owes(pc'[p])
      BY <1>3, <2>a, OwedByOne
    <2> SUFFICES Goal
      BY <2>b
    <2>c. executions + sagaJobs + Owes(pc[p]) <= Granted + retryCount
      BY <2>a, <2>b DEF Accounted
    <2>d. executions \in Nat /\ sagaJobs \in Nat /\ retryCount \in Nat
      BY DEF TypeOK
    <2>e. pc \in [Procs -> Labels]
      BY DEF TypeOK
    <2> HIDE DEF Owes
    <2>f. \A label \in Labels : Owes(label) = IF label \in Owing THEN 1 ELSE 0
      BY DEF Owes
    <2> USE <2>c, <2>d, <2>e, <2>f DEF Granted, Owing, Labels, rows, queue, history, Goto
    <2>1. CASE startSaga(p)
      BY <2>1 DEF startSaga
    <2>2. CASE takeSaga(p)
      BY <2>2 DEF takeSaga
    <2>3. CASE retryFailedSaga(p)
      BY <2>3 DEF retryFailedSaga, Request
    <2>4. CASE cancelTransaction(p)
      BY <2>4 DEF cancelTransaction, Request
    <2>5. CASE cleanupExpiredTransactions(p)
      BY <2>5 DEF cleanupExpiredTransactions, Request
    <2>6. CASE crash(p)
      BY <2>6 DEF crash, End
    <2>7. CASE insert(p)
      BY <2>7 DEF insert, End
    <2>8. CASE queueSaga(p)
      BY <2>8 DEF queueSaga, End
    <2>9. CASE countRetry(p)
      BY <2>9, <2>a DEF Fresh, countRetry, Move
    <2>10. CASE resetSteps(p)
      BY <2>10 DEF resetSteps, Move
    <2>11. CASE readSteps(p)
      BY <2>11 DEF readSteps, Move
    <2>12. CASE begin(p)
      BY <2>12 DEF begin, ToStep
    <2>13. CASE stepPending(p)
      BY <2>13 DEF stepPending, Move
    <2>14. CASE saveStep(p)
      BY <2>14 DEF saveStep, Move
    <2>15. CASE queueStep(p)
      BY <2>15 DEF queueStep, ToStep
    <2>16. CASE complete(p)
      BY <2>16 DEF complete, End
    <2>17. CASE executionFails(p)
      BY <2>17 DEF executionFails
    <2>18. CASE compensateSaga(p)
      BY <2>18 DEF compensateSaga, ToCompensation
    <2>19. CASE compensateStep(p)
      BY <2>19 DEF compensateStep, ToCompensation
    <2>20. CASE endCompensation(p)
      BY <2>20 DEF endCompensation, End
    <2>21. CASE compensationFails(p)
      BY <2>21 DEF compensationFails, End
    <2>22. CASE readForUpdate(p)
      BY <2>22 DEF readForUpdate, Move
    <2>23. CASE saveCancelled(p)
      BY <2>23, <2>a DEF Fresh, saveCancelled, End
    <2> QED
      BY <1>3, <2>1, <2>2, <2>3, <2>4, <2>5, <2>6, <2>7, <2>8, <2>9, <2>10, <2>11,
         <2>12, <2>13, <2>14, <2>15, <2>16, <2>17, <2>18, <2>19, <2>20, <2>21,
         <2>22, <2>23
      DEF HandlerStep, Continue
  <1> QED
    BY <1>1, <1>2, <1>3 DEF Next, HandlerStep

-----------------------------------------------------------------------------
(* The inductive invariant holds at first and after every step.            *)
LEMMA Initially == Init => IInv
  <1> SUFFICES ASSUME Init
               PROVE  IInv
    OBVIOUS
  <1>1. TypeOK
    BY NoRunType DEF Init, TypeOK, Labels, Statuses, StepStatuses
  <1>2. Recorded
    BY NoRunType DEF Init, Recorded
  <1>3. Walked /\ CompletedLeftNoneOut /\ CompensatedWasCarriedOut
    BY DEF Init, Walked, CompletedLeftNoneOut, CompensatedWasCarriedOut
  <1>4. RetriesKept
    BY NoRunType, ConstantsAssumption DEF Init, RetriesKept
  <1>5. Alone /\ Fresh /\ Accounted
    BY DEF Init, Alone, Fresh, Accounted, Owed, Owing, Granted
  <1> QED
    BY <1>1, <1>2, <1>3, <1>4, <1>5 DEF IInv

LEMMA Inductive == IInv /\ [Next]_vars => IInv'
  BY TypeStep, RecordedStep, WalkedStep, CompletedStep, CompensatedStep, RetriesStep,
     AloneStep, FreshStep, AccountedStep DEF IInv

LEMMA Invariance == Spec => []IInv
  BY Initially, Inductive, PTL DEF Spec
-----------------------------------------------------------------------------
(* executeSaga marks a saga completed only when every step of it has been  *)
(* queued, whatever failed, was compensated, died and was retried before.  *)
THEOREM CompletedSagasAreWhole == Spec => []CompletedLeftNoneOut
  <1>1. IInv => CompletedLeftNoneOut
    BY DEF IInv
  <1> QED
    BY <1>1, Invariance, PTL

(* compensateSaga compensates only steps that were carried out, although   *)
(* it goes through copies the consumers of the steps do not wait for.      *)
THEOREM CompensationsWereCarriedOut == Spec => []CompensatedWasCarriedOut
  <1>1. IInv => CompensatedWasCarriedOut
    BY DEF IInv
  <1> QED
    BY <1>1, Invariance, PTL

(* retryFailedSaga's limit bounds the retries always, and the executions   *)
(* of the saga as long as handlers do not overlap.                         *)
THEOREM RetriesBoundExecutions == Spec => []ExecutionsBounded
  <1>1. IInv => ExecutionsBounded
    <2> SUFFICES ASSUME IInv
                 PROVE  ExecutionsBounded
      OBVIOUS
    <2>1. /\ retryCount \in Nat /\ executions \in Nat /\ sagaJobs \in Nat
          /\ Owed \in {0, 1} /\ Granted \in {0, 1}
      BY DEF IInv, TypeOK, Owed, Granted
    <2>2. ~overlap => executions + sagaJobs + Owed <= Granted + retryCount
      BY DEF IInv, Accounted
    <2>3. retryCount <= maxRetries
      BY DEF IInv, RetriesKept
    <2> QED
      BY <2>1, <2>2, <2>3, ConstantsAssumption DEF ExecutionsBounded
  <1> QED
    BY <1>1, Invariance, PTL

(* cancelTransaction and the clean-up do not cancel a transaction that has *)
(* been completed or compensated, as long as handlers do not overlap.      *)
THEOREM CancellationsRespectTheEnd == Spec => CancelRespectsEnd
  <1> DEFINE Ended == ~overlap /\ status \in {"completed", "compensated"}
  <1>1. IInv /\ [Next]_vars => [Ended => status' # "cancelled"]_vars
    <2> SUFFICES ASSUME IInv, Next, Ended
                 PROVE  status' # "cancelled"
      OBVIOUS
    <2>1. ASSUME NEW i \in Steps, carryOutStep(i)
          PROVE  status' # "cancelled"
      BY <2>1 DEF carryOutStep
    <2>2. ASSUME NEW p \in Procs, HandlerStep(p)
          PROVE  status' # "cancelled"
      <3>1. CASE saveCancelled(p)
        BY <3>1 DEF saveCancelled, IInv, Fresh
      <3>2. CASE ~ saveCancelled(p)
        BY <2>2, <3>2
        DEF HandlerStep, Continue, rows, startSaga, takeSaga, retryFailedSaga, cancelTransaction,
            cleanupExpiredTransactions, crash, insert, queueSaga, countRetry,
            resetSteps, readSteps, begin, stepPending, saveStep, queueStep,
            complete, executionFails, compensateSaga, compensateStep,
            endCompensation, compensationFails, readForUpdate
      <3> QED
        BY <3>1, <3>2
    <2> QED
      BY <2>1, <2>2 DEF Next, HandlerStep
  <1> QED
    BY <1>1, Invariance, PTL DEF Spec, CancelRespectsEnd
=============================================================================
