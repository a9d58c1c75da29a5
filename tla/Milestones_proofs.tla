--------------------------- MODULE Milestones_proofs ---------------------------
(***************************************************************************)
(* Theorems about Milestones for any numbers of milestones, handlers,      *)
(* re-runs and requests.  The last part is about handlers that do not      *)
(* overlap: with them the service implements MilestoneLifecycle.           *)
(***************************************************************************)
EXTENDS Milestones, TLAPS, FiniteSetTheorems

-----------------------------------------------------------------------------
(* The inductive invariant, in named parts.                                *)

Positions == {"idle", "save", "saveEscrow", "createNext", "pay", "readAgain", "queue", "check"}
Stages == MilestoneStatus \cup {"absent"}
Task == [op : Operations, m : Milestones, job : JobKinds \cup {"none"}, copy : Stages,
         all : [Milestones -> Stages]]

(* create-milestones is queued only with an escrow that has milestones.    *)
Planning == jobs["create-milestones"][1] > 0 => Planned > 0

(* A handler that is about to queue, or to make, a payment for m.          *)
Owes(p, m) == /\ task[p].m = m
              /\ pc[p] = "pay" \/ (pc[p] = "queue" /\ task[p].op = "approve")
Owing(m) == {p \in Procs : Owes(p, m)}

Release == "release-milestone-funds"

(* Payments made, waiting and owed are backed by approvals and re-runs.    *)
Backed(m) == payouts[m] + jobs[Release][m] + Cardinality(Owing(m))
                <= approvals[m] + stalls[Release][m]
AllBacked == \A m \in Milestones : Backed(m)

IInv == /\ TypeOK
        /\ Planning
        /\ AllBacked

(* No copy, of a milestone or of all, is ahead of its payment.             *)
CopiesPaid ==
    \A p \in Procs :
        /\ task[p].copy = "completed" => payouts[task[p].m] > 0
        /\ task[p].op = "release" /\ pc[p] \in {"readAgain", "save"} => payouts[task[p].m] > 0
        /\ \A m \in Milestones : task[p].all[m] = "completed" => payouts[m] > 0

PaidInv == IInv /\ CopiesPaid /\ CompletedIsPaid

(* One handler at a time, no job a second time, no status set by hand.     *)
Serial == /\ \A p, q \in Procs : p = q
          /\ MaxStalledCount = 0
          /\ EditStatuses = {}

(* What each operation saves, and over which status it does.               *)
Saves == {<<"create", "absent", "pending">>, <<"createAll", "absent", "pending">>,
          <<"start", "pending", "in_progress">>, <<"submit", "in_progress", "submitted">>,
          <<"approve", "submitted", "approved">>, <<"reject", "submitted", "rejected">>,
          <<"release", "approved", "completed">>}

CopiesFresh ==
    \A p \in Procs :
        /\ pc[p] = "saveEscrow" => task[p].all = status
        /\ pc[p] = "save" =>
              \/ <<task[p].op, status[task[p].m], task[p].copy>> \in Saves
              \/ task[p].op \in {"edit", "requirement"} /\ task[p].copy = status[task[p].m]

(* A milestone is approved once, and nobody puts it under review.          *)
ApprovedOnce ==
    \A m \in Milestones :
        /\ status[m] # "under_review"
        /\ approvals[m] = IF status[m] \in {"approved", "completed"} THEN 1 ELSE 0

(* The milestones that create-milestones has still to create are not there.*)
ToCreate ==
    /\ jobs["create-milestones"][1] \in {0, 1}
    /\ jobs["create-milestones"][1] = 1 => \A m \in Copies : status[m] = "absent"
    /\ \A p \in Procs :
          /\ pc[p] = "save" /\ task[p].op = "create" => task[p].m \notin Copies
          /\ pc[p] = "save" /\ task[p].op = "createAll" =>
                /\ jobs["create-milestones"][1] = 0
                /\ \A m \in Copies : m >= task[p].m => status[m] = "absent"
          /\ pc[p] = "createNext" =>
                /\ jobs["create-milestones"][1] = 0
                /\ \A m \in Copies : m > task[p].m => status[m] = "absent"

SerialInv == PaidInv /\ CopiesFresh /\ ApprovedOnce /\ ToCreate
-----------------------------------------------------------------------------
(* What the ways of moving a handler do.                                   *)

LEMMA NoTaskType == /\ NoTask \in Task
                    /\ NoTask.op = "none" /\ NoTask.copy = "absent"
                    /\ \A m \in Milestones : NoTask.all[m] = "absent"
  BY ConstantsAssumption DEF NoTask, NoCopies, Task, Operations, Milestones, Stages

LEMMA GotoEffect ==
    ASSUME TypeOK, NEW p \in Procs, NEW label \in Positions, Goto(p, label)
    PROVE  /\ pc' \in [Procs -> Positions]
           /\ \A q \in Procs : pc'[q] = IF q = p THEN label ELSE pc[q]
  BY DEF Goto, TypeOK, Positions

LEMMA AssignEffect ==
    ASSUME TypeOK, NEW p \in Procs, NEW t \in Task, task' = [task EXCEPT ![p] = t]
    PROVE  /\ task' \in [Procs -> Task]
           /\ \A q \in Procs : task'[q] = IF q = p THEN t ELSE task[q]
  BY DEF TypeOK, Task, Stages

LEMMA DoneEffect ==
    ASSUME TypeOK, NEW p \in Procs, Done(p)
    PROVE  /\ pc' \in [Procs -> Positions]
           /\ task' \in [Procs -> Task]
           /\ \A q \in Procs : pc'[q] = IF q = p THEN "idle" ELSE pc[q]
           /\ \A q \in Procs : task'[q] = IF q = p THEN NoTask ELSE task[q]
  <1>1. "idle" \in Positions /\ NoTask \in Task
    BY NoTaskType DEF Positions
  <1> QED
    BY <1>1, GotoEffect, AssignEffect DEF Done

LEMMA ToSaveEffect ==
    ASSUME TypeOK, NEW p \in Procs, NEW op \in Operations, NEW m \in Milestones,
           NEW job \in JobKinds \cup {"none"}, NEW copy \in Stages,
           ToSave(p, op, m, job, copy)
    PROVE  /\ pc' \in [Procs -> Positions]
           /\ task' \in [Procs -> Task]
           /\ \A q \in Procs : q # p => pc'[q] = pc[q] /\ task'[q] = task[q]
           /\ pc'[p] = "save"
           /\ task'[p].op = op /\ task'[p].m = m /\ task'[p].copy = copy
           /\ \A n \in Milestones : task'[p].all[n] = "absent"
  <1> DEFINE t == [op |-> op, m |-> m, job |-> job, copy |-> copy, all |-> NoCopies]
  <1>1. t \in Task /\ "save" \in Positions
    BY DEF Task, NoCopies, Stages, Positions
  <1>2. task' = [task EXCEPT ![p] = t] /\ Goto(p, "save")
    BY DEF ToSave
  <1>3. /\ pc' \in [Procs -> Positions]
        /\ \A q \in Procs : pc'[q] = IF q = p THEN "save" ELSE pc[q]
    BY <1>1, <1>2, GotoEffect
  <1>4. /\ task' \in [Procs -> Task]
        /\ \A q \in Procs : task'[q] = IF q = p THEN t ELSE task[q]
    BY <1>1, <1>2, AssignEffect
  <1> QED
    BY <1>3, <1>4 DEF NoCopies

(* A user's call reads a milestone and goes on to save a copy: a status    *)
(* the operation gives it, the one it has, or one that was sent.           *)
UserSave(p, op, m, copy) ==
    /\ Request(p)
    /\ ToSave(p, op, m, "none", copy)
    /\ op # "release"
    /\ copy = "completed" => status[m] = "completed" \/ "completed" \in EditStatuses

LEMMA UserCalls ==
    ASSUME TypeOK, NEW p \in Procs, UserCall(p)
    PROVE  \/ getEscrowById(p)
           \/ \E op \in Operations, m \in Milestones, copy \in Stages : UserSave(p, op, m, copy)
  <1> SUFFICES ASSUME ~ getEscrowById(p)
               PROVE  \E op \in Operations, m \in Milestones, copy \in Stages :
                          UserSave(p, op, m, copy)
    OBVIOUS
  <1>1. PICK m \in Milestones : \/ createMilestone(p, m) \/ startMilestone(p, m)
                                \/ submitMilestone(p, m) \/ approveMilestone(p, m)
                                \/ rejectMilestone(p, m) \/ updateMilestone(p, m)
                                \/ updateRequirement(p, m)
    BY DEF UserCall
  <1> USE DEF Operations, Stages, MilestoneStatus
  <1>2. CASE createMilestone(p, m)
    <2>1. UserSave(p, "create", m, "pending")
      BY <1>2 DEF createMilestone, UserSave
    <2> QED
      BY <2>1
  <1>3. CASE startMilestone(p, m)
    <2>1. UserSave(p, "start", m, "in_progress")
      BY <1>3 DEF startMilestone, UserSave
    <2> QED
      BY <2>1
  <1>4. CASE submitMilestone(p, m)
    <2>1. UserSave(p, "submit", m, "submitted")
      BY <1>4 DEF submitMilestone, UserSave
    <2> QED
      BY <2>1
  <1>5. CASE approveMilestone(p, m)
    <2>1. UserSave(p, "approve", m, "approved")
      BY <1>5 DEF approveMilestone, UserSave
    <2> QED
      BY <2>1
  <1>6. CASE rejectMilestone(p, m)
    <2>1. UserSave(p, "reject", m, "rejected")
      BY <1>6 DEF rejectMilestone, UserSave
    <2> QED
      BY <2>1
  <1>7. CASE updateMilestone(p, m)
    <2>1. PICK s \in {status[m]} \cup EditStatuses : ToSave(p, "edit", m, "none", s)
      BY <1>7 DEF updateMilestone
    <2>2. s \in Stages
      BY ConstantsAssumption DEF TypeOK
    <2>3. UserSave(p, "edit", m, s)
      BY <1>7, <2>1 DEF updateMilestone, UserSave
    <2> QED
      BY <2>2, <2>3
  <1>8. CASE updateRequirement(p, m)
    <2>1. status[m] \in Stages
      BY DEF TypeOK
    <2>2. UserSave(p, "requirement", m, status[m])
      BY <1>8 DEF updateRequirement, UserSave
    <2> QED
      BY <2>1, <2>2
  <1> QED
    BY <1>1, <1>2, <1>3, <1>4, <1>5, <1>6, <1>7, <1>8

(* The actions of a handler but for the calls of users.                    *)
HandlerStep(p) == UserCall(p) \/ TakeAny(p) \/ Continue(p) \/ fail(p) \/ stall(p)

Moved(p) == /\ pc' \in [Procs -> Positions]
            /\ task' \in [Procs -> Task]
            /\ \A q \in Procs : q # p => pc'[q] = pc[q] /\ task'[q] = task[q]

(* A step moves one handler, to a position and a task of the service.      *)
LEMMA HandlerMoves ==
    ASSUME TypeOK, Planning, NEW p \in Procs, HandlerStep(p)
    PROVE  Moved(p)
  <1> USE DEF Moved
  <1>1. ASSUME getEscrowById(p)
        PROVE  Moved(p)
    <2> DEFINE t == [NoTask EXCEPT !.op = "escrow", !.all = status]
    <2>1. t \in Task /\ "saveEscrow" \in Positions
      BY NoTaskType DEF Task, TypeOK, Stages, Operations, Positions
    <2> QED
      BY <1>1, <2>1, GotoEffect, AssignEffect DEF getEscrowById
  <1>2. ASSUME NEW op \in Operations, NEW m \in Milestones, NEW copy \in Stages,
               UserSave(p, op, m, copy)
        PROVE  Moved(p)
    BY <1>2, ToSaveEffect DEF UserSave
  <1>3. ASSUME handleCreateMilestones(p)
        PROVE  Moved(p)
    <2>1. Planned + 1 \in Milestones
      BY <1>3, ConstantsAssumption DEF handleCreateMilestones, TakeJob, Planning, Milestones
    <2>2. "createAll" \in Operations /\ "pending" \in Stages
      BY DEF Operations, Stages, MilestoneStatus
    <2>3. "create-milestones" \in JobKinds
      BY DEF JobKinds
    <2> QED
      BY <1>3, <2>1, <2>2, <2>3, ToSaveEffect DEF handleCreateMilestones
  <1>4. ASSUME NEW m \in Milestones, handleStartFirstMilestone(p, m)
        PROVE  Moved(p)
    <2>1. "start" \in Operations /\ "in_progress" \in Stages
      BY DEF Operations, Stages, MilestoneStatus
    <2>2. "start-first-milestone" \in JobKinds
      BY DEF JobKinds
    <2>3. CASE status[m] = "pending"
      BY <1>4, <2>1, <2>2, <2>3, ToSaveEffect DEF handleStartFirstMilestone
    <2>4. CASE status[m] # "pending"
      BY <1>4, <2>4 DEF handleStartFirstMilestone, TypeOK, Positions, Task, Stages
    <2> QED
      BY <2>3, <2>4
  <1>5. ASSUME NEW m \in Milestones, handleAutoApproveMilestone(p, m)
        PROVE  Moved(p)
    <2> DEFINE t == [op |-> "autoApprove", m |-> m, job |-> "auto-approve-milestone",
                     copy |-> "submitted", all |-> NoCopies]
    <2>1. t \in Task /\ "readAgain" \in Positions
      BY DEF Task, NoCopies, Operations, JobKinds, Stages, MilestoneStatus, Positions
    <2>2. CASE status[m] = "submitted"
      BY <1>5, <2>1, <2>2, GotoEffect, AssignEffect DEF handleAutoApproveMilestone
    <2>3. CASE status[m] # "submitted"
      BY <1>5, <2>3 DEF handleAutoApproveMilestone, TypeOK, Positions, Task, Stages
    <2> QED
      BY <2>2, <2>3
  <1>6. ASSUME NEW m \in Milestones, handleReleaseMilestoneFunds(p, m)
        PROVE  Moved(p)
    <2> DEFINE t == [op |-> "release", m |-> m, job |-> "release-milestone-funds",
                     copy |-> status[m], all |-> NoCopies]
    <2>1. t \in Task /\ "pay" \in Positions
      BY DEF Task, NoCopies, Operations, JobKinds, Stages, Positions, TypeOK
    <2> QED
      BY <1>6, <2>1, GotoEffect, AssignEffect DEF handleReleaseMilestoneFunds
  <1>7. ASSUME createNext(p)
        PROVE  Moved(p)
    <2>1. CASE systemStored /\ task[p].m + 1 \in Copies
      <3>1. task[p].m + 1 \in Milestones
        BY <2>1, ConstantsAssumption DEF Copies, Milestones
      <3>2. "createAll" \in Operations /\ "pending" \in Stages
        BY DEF Operations, Stages, MilestoneStatus
      <3>3. "create-milestones" \in JobKinds
        BY DEF JobKinds
      <3> QED
        BY <1>7, <2>1, <3>1, <3>2, <3>3, ToSaveEffect DEF createNext
    <2>2. CASE ~ (systemStored /\ task[p].m + 1 \in Copies)
      BY <1>7, <2>2, DoneEffect DEF createNext
    <2> QED
      BY <2>1, <2>2
  <1>8. ASSUME createPayout(p)
        PROVE  Moved(p)
    <2>1. "readAgain" \in Positions /\ task \in [Procs -> Task]
      BY DEF Positions, TypeOK, Task, Stages
    <2> QED
      BY <1>8, <2>1, GotoEffect DEF createPayout
  <1>9. ASSUME readAgain(p)
        PROVE  Moved(p)
    <2>1. /\ task[p].m \in Milestones
          /\ task[p].job \in JobKinds \cup {"none"}
      BY DEF TypeOK
    <2>2. /\ {"approve", "release", "submit"} \subseteq Operations
          /\ {"approved", "completed", "submitted"} \subseteq Stages
      BY DEF Operations, Stages, MilestoneStatus
    <2>3. CASE Done(p)
      BY <2>3, DoneEffect
    <2>4. CASE ~ Done(p)
      <3>1. PICK op \in Operations, copy \in Stages :
                ToSave(p, op, task[p].m, task[p].job, copy)
        BY <1>9, <2>2, <2>4 DEF readAgain
      <3> QED
        BY <2>1, <3>1, ToSaveEffect
    <2> QED
      BY <2>3, <2>4
  <1>10. ASSUME save(p)
        PROVE  Moved(p)
    <2>1. PICK next \in AfterSave(task[p]) : IF next = "idle" THEN Done(p)
                                             ELSE Goto(p, next) /\ UNCHANGED task
      BY <1>10 DEF save
    <2>2. next \in Positions
      BY <2>1 DEF AfterSave, Positions
    <2>3. task \in [Procs -> Task]
      BY DEF TypeOK, Task, Stages
    <2> QED
      BY <2>1, <2>2, <2>3, GotoEffect, DoneEffect
  <1>11. ASSUME saveEscrow(p)
        PROVE  Moved(p)
    BY <1>11, DoneEffect DEF saveEscrow
  <1>12. ASSUME refuse(p)
        PROVE  Moved(p)
    BY <1>12, DoneEffect DEF refuse
  <1>13. ASSUME queueJob(p)
        PROVE  Moved(p)
    <2>1. "check" \in Positions /\ task \in [Procs -> Task]
      BY DEF Positions, TypeOK, Task, Stages
    <2> QED
      BY <1>13, <2>1, GotoEffect, DoneEffect DEF queueJob
  <1>14. ASSUME checkEscrowCompletion(p)
        PROVE  Moved(p)
    BY <1>14, DoneEffect DEF checkEscrowCompletion
  <1>15. ASSUME fail(p)
        PROVE  Moved(p)
    BY <1>15, DoneEffect DEF fail
  <1>16. ASSUME stall(p)
        PROVE  Moved(p)
    BY <1>16, DoneEffect DEF stall
  <1> QED
    BY <1>1, <1>2, <1>3, <1>4, <1>5, <1>6, <1>7, <1>8, <1>9, <1>10, <1>11,
       <1>12, <1>13, <1>14, <1>15, <1>16, UserCalls
    DEF HandlerStep, TakeAny, Continue

JobTable == [JobKinds -> [Milestones -> Nat]]

(* The queue, when a job is added or taken.                                *)
LEMMA QueueEffect ==
    ASSUME TypeOK, NEW k \in JobKinds, NEW m \in Milestones,
           jobs' = [jobs EXCEPT ![k][m] = @ + 1]
    PROVE  /\ jobs' \in JobTable
           /\ \A l \in JobKinds, o \in Milestones :
                 jobs'[l][o] = IF l = k /\ o = m THEN jobs[l][o] + 1 ELSE jobs[l][o]
  <1> DEFINE row == [jobs[k] EXCEPT ![m] = jobs[k][m] + 1]
  <1>1. /\ jobs \in JobTable /\ jobs[k] \in [Milestones -> Nat]
        /\ jobs[k][m] + 1 \in Nat
    BY DEF TypeOK, JobTable
  <1>2. /\ row \in [Milestones -> Nat]
        /\ \A o \in Milestones : row[o] = IF o = m THEN jobs[k][o] + 1 ELSE jobs[k][o]
    BY <1>1
  <1>3. jobs' = [jobs EXCEPT ![k] = row]
    OBVIOUS
  <1> HIDE DEF row
  <1> QED
    BY <1>1, <1>2, <1>3 DEF JobTable

LEMMA TakeEffect ==
    ASSUME TypeOK, NEW p, NEW k \in JobKinds, NEW m \in Milestones, TakeJob(p, k, m)
    PROVE  /\ jobs' \in JobTable
           /\ jobs[k][m] > 0
           /\ \A l \in JobKinds, o \in Milestones :
                 jobs'[l][o] = IF l = k /\ o = m THEN jobs[l][o] - 1 ELSE jobs[l][o]
  <1> DEFINE row == [jobs[k] EXCEPT ![m] = jobs[k][m] - 1]
  <1>1. /\ jobs \in JobTable /\ jobs[k] \in [Milestones -> Nat]
        /\ jobs[k][m] - 1 \in Nat /\ jobs[k][m] > 0
    BY DEF TypeOK, JobTable, TakeJob
  <1>2. /\ row \in [Milestones -> Nat]
        /\ \A o \in Milestones : row[o] = IF o = m THEN jobs[k][o] - 1 ELSE jobs[k][o]
    BY <1>1
  <1>3. jobs' = [jobs EXCEPT ![k] = row]
    BY DEF TakeJob
  <1> HIDE DEF row
  <1> QED
    BY <1>1, <1>2, <1>3 DEF JobTable

LEMMA StallEffect ==
    ASSUME TypeOK, NEW p \in Procs, stall(p)
    PROVE  /\ task[p].job \in JobKinds \ {"create-milestones"} /\ task[p].m \in Milestones
           /\ jobs' \in JobTable
           /\ stalls' \in [JobKinds -> [Milestones -> 0..MaxStalledCount]]
           /\ \A l \in JobKinds, o \in Milestones :
                 LET one == IF l = task[p].job /\ o = task[p].m THEN 1 ELSE 0
                 IN  jobs'[l][o] = jobs[l][o] + one /\ stalls'[l][o] = stalls[l][o] + one
  <1> DEFINE k == task[p].job
             m == task[p].m
             Limit == [JobKinds -> [Milestones -> 0..MaxStalledCount]]
  <1>1. k \in JobKinds \ {"create-milestones"} /\ m \in Milestones
    BY DEF stall, TypeOK
  <1>2. jobs' = [jobs EXCEPT ![k][m] = @ + 1]
    BY DEF stall
  <1>3. /\ jobs' \in JobTable
        /\ \A l \in JobKinds, o \in Milestones :
              jobs'[l][o] = IF l = k /\ o = m THEN jobs[l][o] + 1 ELSE jobs[l][o]
    BY <1>1, <1>2, QueueEffect
  <1>4. stalls \in Limit /\ stalls[k][m] + 1 \in 0..MaxStalledCount
    BY <1>1, ConstantsAssumption DEF TypeOK, stall
  <1> DEFINE row == [stalls[k] EXCEPT ![m] = stalls[k][m] + 1]
  <1>5. /\ row \in [Milestones -> 0..MaxStalledCount]
        /\ \A o \in Milestones : row[o] = IF o = m THEN stalls[k][o] + 1 ELSE stalls[k][o]
    BY <1>1, <1>4
  <1>6. stalls' = [stalls EXCEPT ![k] = row]
    BY DEF stall
  <1> HIDE DEF row
  <1>7. /\ stalls' \in Limit
        /\ \A l \in JobKinds, o \in Milestones :
              stalls'[l][o] = IF l = k /\ o = m THEN stalls[l][o] + 1 ELSE stalls[l][o]
    BY <1>1, <1>4, <1>5, <1>6
  <1>8. \A l \in JobKinds, o \in Milestones : jobs[l][o] \in Nat /\ stalls[l][o] \in Nat
    BY ConstantsAssumption DEF TypeOK
  <1> HIDE DEF k, m
  <1>9. \A l \in JobKinds, o \in Milestones :
            LET one == IF l = k /\ o = m THEN 1 ELSE 0
            IN  jobs'[l][o] = jobs[l][o] + one /\ stalls'[l][o] = stalls[l][o] + one
    BY <1>3, <1>7, <1>8
  <1> QED
    BY <1>1, <1>3, <1>7, <1>9 DEF k, m

(* The rows, the queue and the history, one step at a time.                *)
DataTyped ==
    /\ status' \in [Milestones -> Stages]
    /\ jobs' \in JobTable
    /\ completions' \in Nat
    /\ payouts' \in [Milestones -> Nat]
    /\ approvals' \in [Milestones -> Nat]
    /\ stalls' \in [JobKinds -> [Milestones -> 0..MaxStalledCount]]
    /\ requests' \in 0..MaxRequests
    /\ UNCHANGED setting

LEMMA DataStep ==
    ASSUME TypeOK, NEW p \in Procs, HandlerStep(p)
    PROVE  DataTyped
  <1> USE DEF DataTyped, TypeOK, Stages, JobTable
  <1>1. ASSUME getEscrowById(p)
        PROVE  DataTyped
    BY <1>1, ConstantsAssumption DEF getEscrowById, Request
  <1>2. ASSUME NEW op \in Operations, NEW m \in Milestones, NEW copy \in Stages,
               UserSave(p, op, m, copy)
        PROVE  DataTyped
    BY <1>2, ConstantsAssumption DEF UserSave, Request
  <1>3. ASSUME handleCreateMilestones(p)
        PROVE  DataTyped
    <2>1. "create-milestones" \in JobKinds /\ 1 \in Milestones
      BY ConstantsAssumption DEF JobKinds, Milestones
    <2> QED
      BY <1>3, <2>1, TakeEffect DEF handleCreateMilestones, TakeJob
  <1>4. ASSUME NEW m \in Milestones, handleStartFirstMilestone(p, m)
        PROVE  DataTyped
    <2>1. "start-first-milestone" \in JobKinds /\ 1 \in Milestones
      BY ConstantsAssumption DEF JobKinds, Milestones
    <2> QED
      BY <1>4, <2>1, TakeEffect DEF handleStartFirstMilestone, TakeJob
  <1>5. ASSUME NEW m \in Milestones, handleAutoApproveMilestone(p, m)
        PROVE  DataTyped
    <2>1. "auto-approve-milestone" \in JobKinds
      BY ConstantsAssumption DEF JobKinds, Milestones
    <2> QED
      BY <1>5, <2>1, TakeEffect DEF handleAutoApproveMilestone, TakeJob
  <1>6. ASSUME NEW m \in Milestones, handleReleaseMilestoneFunds(p, m)
        PROVE  DataTyped
    <2>1. "release-milestone-funds" \in JobKinds
      BY ConstantsAssumption DEF JobKinds, Milestones
    <2> QED
      BY <1>6, <2>1, TakeEffect DEF handleReleaseMilestoneFunds, TakeJob
  <1>7. ASSUME createNext(p)
        PROVE  DataTyped
    BY <1>7 DEF createNext
  <1>8. ASSUME createPayout(p)
        PROVE  DataTyped
    <2>1. payouts' \in [Milestones -> Nat]
      BY <1>8 DEF createPayout
    <2> QED
      BY <1>8, <2>1 DEF createPayout
  <1>9. ASSUME readAgain(p)
        PROVE  DataTyped
    BY <1>9 DEF readAgain
  <1>10. ASSUME save(p)
        PROVE  DataTyped
    BY <1>10 DEF save, TypeOK
  <1>11. ASSUME saveEscrow(p)
        PROVE  DataTyped
    BY <1>11 DEF saveEscrow, TypeOK
  <1>12. ASSUME refuse(p)
        PROVE  DataTyped
    BY <1>12 DEF refuse
  <1>13. ASSUME queueJob(p)
        PROVE  DataTyped
    <2>1. {"auto-approve-milestone", "release-milestone-funds"} \subseteq JobKinds
      BY DEF JobKinds
    <2>2. jobs' \in JobTable
      BY <1>13, <2>1, QueueEffect DEF queueJob
    <2> QED
      BY <1>13, <2>2 DEF queueJob
  <1>14. ASSUME checkEscrowCompletion(p)
        PROVE  DataTyped
    BY <1>14 DEF checkEscrowCompletion, TypeOK
  <1>15. ASSUME fail(p)
        PROVE  DataTyped
    BY <1>15 DEF fail
  <1>16. ASSUME stall(p)
        PROVE  DataTyped
    BY <1>16, StallEffect DEF stall
  <1> QED
    BY <1>1, <1>2, <1>3, <1>4, <1>5, <1>6, <1>7, <1>8, <1>9, <1>10, <1>11,
       <1>12, <1>13, <1>14, <1>15, <1>16, UserCalls
    DEF HandlerStep, TakeAny, Continue

LEMMA TypeStep ==
    ASSUME TypeOK, Planning, [Next]_vars
    PROVE  TypeOK'
  <1>1. CASE UNCHANGED vars
    BY <1>1 DEF vars, setting, TypeOK
  <1>2. ASSUME NEW p \in Procs, HandlerStep(p)
        PROVE  TypeOK'
    <2>1. Moved(p) /\ DataTyped
      BY <1>2, HandlerMoves, DataStep
    <2> QED
      BY <2>1 DEF Moved, DataTyped, TypeOK, JobTable, Positions, Task, Stages, setting
  <1> QED
    BY <1>1, <1>2 DEF Next, HandlerStep

LEMMA PlanningStep ==
    ASSUME TypeOK, Planning, [Next]_vars
    PROVE  Planning'
  <1>1. CASE UNCHANGED vars
    BY <1>1 DEF vars, Planning
  <1>2. ASSUME NEW p \in Procs, HandlerStep(p)
        PROVE  Planning'
    <2> DEFINE k == "create-milestones"
               Fewer == jobs'[k][1] <= jobs[k][1]
    <2>k. /\ {k, "start-first-milestone", "auto-approve-milestone", Release} \subseteq JobKinds
          /\ 1 \in Milestones
      BY ConstantsAssumption DEF JobKinds, Milestones, Release
    <2>n. jobs[k][1] \in Nat /\ jobs'[k][1] \in Nat
      BY <1>2, <2>k, DataStep DEF TypeOK, DataTyped, JobTable
    <2> SUFFICES Fewer
      BY <2>n DEF Planning
    <2> USE <2>k, <2>n
    <2>1. ASSUME getEscrowById(p)
          PROVE  Fewer
      BY <2>1 DEF getEscrowById, Request
    <2>2. ASSUME NEW op \in Operations, NEW m \in Milestones, NEW copy \in Stages,
                 UserSave(p, op, m, copy)
          PROVE  Fewer
      BY <2>2 DEF UserSave, Request
    <2>3. ASSUME handleCreateMilestones(p)
          PROVE  Fewer
      BY <2>3, TakeEffect DEF handleCreateMilestones
    <2>4. ASSUME NEW m \in Milestones, handleStartFirstMilestone(p, m)
          PROVE  Fewer
      <3>1. TakeJob(p, "start-first-milestone", 1)
        BY <2>4 DEF handleStartFirstMilestone
      <3>2. \A l \in JobKinds, o \in Milestones :
               jobs'[l][o] = IF l = "start-first-milestone" /\ o = 1 THEN jobs[l][o] - 1 ELSE jobs[l][o]
        BY <3>1, TakeEffect
      <3> QED
        BY <3>2
    <2>5. ASSUME NEW m \in Milestones, handleAutoApproveMilestone(p, m)
          PROVE  Fewer
      <3>1. TakeJob(p, "auto-approve-milestone", m)
        BY <2>5 DEF handleAutoApproveMilestone
      <3>2. \A l \in JobKinds, o \in Milestones :
               jobs'[l][o] = IF l = "auto-approve-milestone" /\ o = m THEN jobs[l][o] - 1 ELSE jobs[l][o]
        BY <3>1, TakeEffect
      <3> QED
        BY <3>2
    <2>6. ASSUME NEW m \in Milestones, handleReleaseMilestoneFunds(p, m)
          PROVE  Fewer
      <3>1. TakeJob(p, "release-milestone-funds", m)
        BY <2>6 DEF handleReleaseMilestoneFunds
      <3>2. \A l \in JobKinds, o \in Milestones :
               jobs'[l][o] = IF l = "release-milestone-funds" /\ o = m THEN jobs[l][o] - 1 ELSE jobs[l][o]
        BY <3>1, TakeEffect DEF Release
      <3> QED
        BY <3>2
    <2>7. ASSUME createNext(p)
          PROVE  Fewer
      BY <2>7 DEF createNext
    <2>8. ASSUME createPayout(p)
          PROVE  Fewer
      BY <2>8 DEF createPayout
    <2>9. ASSUME readAgain(p)
          PROVE  Fewer
      BY <2>9 DEF readAgain
    <2>10. ASSUME save(p)
          PROVE  Fewer
      BY <2>10 DEF save
    <2>11. ASSUME saveEscrow(p)
          PROVE  Fewer
      BY <2>11 DEF saveEscrow
    <2>12. ASSUME refuse(p)
          PROVE  Fewer
      BY <2>12 DEF refuse
    <2>13. ASSUME queueJob(p)
          PROVE  Fewer
      <3>1. task[p].m \in Milestones
        BY DEF TypeOK
      <3>2. PICK l \in {"auto-approve-milestone", Release} :
                jobs' = [jobs EXCEPT ![l][task[p].m] = @ + 1]
        BY <2>13 DEF queueJob, Release
      <3>3. jobs'[k][1] = jobs[k][1]
        BY <3>1, <3>2, QueueEffect DEF Release
      <3> QED
        BY <3>3
    <2>14. ASSUME checkEscrowCompletion(p)
          PROVE  Fewer
      BY <2>14 DEF checkEscrowCompletion
    <2>15. ASSUME fail(p)
          PROVE  Fewer
      BY <2>15 DEF fail
    <2>16. ASSUME stall(p)
          PROVE  Fewer
      BY <2>16, StallEffect
    <2> QED
      BY <1>2, <2>1, <2>2, <2>3, <2>4, <2>5, <2>6, <2>7, <2>8, <2>9, <2>10,
         <2>11, <2>12, <2>13, <2>14, <2>15, <2>16, UserCalls
      DEF HandlerStep, TakeAny, Continue
  <1> QED
    BY <1>1, <1>2 DEF Next, HandlerStep
-----------------------------------------------------------------------------
(* Payments against approvals.                                             *)

(* Sets of handlers that differ in p at most.                              *)
LEMMA CountChange ==
    ASSUME NEW S \in SUBSET Procs, NEW T \in SUBSET Procs, NEW p \in Procs,
           S \ {p} = T \ {p}
    PROVE  /\ Cardinality(S) \in Nat
           /\ Cardinality(T) \in Nat
           /\ Cardinality(T) + (IF p \in S THEN 1 ELSE 0)
                 = Cardinality(S) + (IF p \in T THEN 1 ELSE 0)
  <1>1. IsFiniteSet(S) /\ IsFiniteSet(T)
    BY ConstantsAssumption, FS_Subset
  <1>2. Cardinality(S) \in Nat /\ Cardinality(T) \in Nat
    BY <1>1, FS_CardinalityType
  <1>3. Cardinality(S \ {p}) = IF p \in S THEN Cardinality(S) - 1 ELSE Cardinality(S)
    BY <1>1, FS_RemoveElement
  <1>4. Cardinality(T \ {p}) = IF p \in T THEN Cardinality(T) - 1 ELSE Cardinality(T)
    BY <1>1, FS_RemoveElement
  <1>5. Cardinality(S \ {p}) = Cardinality(T \ {p})
    OBVIOUS
  <1> QED
    BY <1>2, <1>3, <1>4, <1>5

OwedBy(p, m) == IF Owes(p, m) THEN 1 ELSE 0

(* What p's step adds to the payments made, waiting and owed for m is      *)
(* covered by what it adds to the approvals and the re-runs.               *)
Covered(p, m) ==
    payouts'[m] + jobs'[Release][m] + OwedBy(p, m)' + approvals[m] + stalls[Release][m]
       <= approvals'[m] + stalls'[Release][m] + payouts[m] + jobs[Release][m] + OwedBy(p, m)

LEMMA CoveredIsBacked ==
    ASSUME TypeOK, TypeOK', NEW p \in Procs, Moved(p), NEW m \in Milestones,
           Backed(m), Covered(p, m)
    PROVE  Backed(m)'
  <1>1. Owing(m) \in SUBSET Procs /\ Owing(m)' \in SUBSET Procs
    BY DEF Owing
  <1>2. Owing(m) \ {p} = Owing(m)' \ {p}
    BY DEF Owing, Owes, Moved
  <1>3. /\ Cardinality(Owing(m)) \in Nat
        /\ Cardinality(Owing(m)') \in Nat
        /\ Cardinality(Owing(m)') + OwedBy(p, m) = Cardinality(Owing(m)) + OwedBy(p, m)'
    <2>1. (p \in Owing(m) <=> Owes(p, m)) /\ (p \in Owing(m)' <=> Owes(p, m)')
      BY DEF Owing
    <2> QED
      BY <1>1, <1>2, <2>1, CountChange DEF OwedBy
  <1>4. OwedBy(p, m) \in {0, 1} /\ OwedBy(p, m)' \in {0, 1}
    BY DEF OwedBy
  <1>5. Release \in JobKinds
    BY DEF Release, JobKinds
  <1>6. /\ payouts[m] \in Nat /\ approvals[m] \in Nat
        /\ jobs[Release][m] \in Nat /\ stalls[Release][m] \in Nat
    BY <1>5, ConstantsAssumption DEF TypeOK
  <1>7. /\ payouts'[m] \in Nat /\ approvals'[m] \in Nat
        /\ jobs'[Release][m] \in Nat /\ stalls'[Release][m] \in Nat
    BY <1>5, ConstantsAssumption DEF TypeOK
  <1> QED
    BY <1>3, <1>4, <1>6, <1>7 DEF Backed, Covered

LEMMA CoveredStep ==
    ASSUME TypeOK, NEW p \in Procs, HandlerStep(p), Moved(p), NEW n \in Milestones
    PROVE  Covered(p, n)
  <1>k. Release \in JobKinds /\ Release \notin {"create-milestones", "start-first-milestone",
                                             "auto-approve-milestone"}
    BY DEF Release, JobKinds
  <1>n. /\ payouts[n] \in Nat /\ approvals[n] \in Nat
        /\ jobs[Release][n] \in Nat /\ stalls[Release][n] \in Nat
    BY <1>k, ConstantsAssumption DEF TypeOK
  <1>t. /\ pc[p] \in Positions /\ task[p] \in Task /\ task[p].m \in Milestones
        /\ pc'[p] \in Positions /\ task'[p] \in Task
    BY DEF Moved, TypeOK, Task, Positions, Stages
  <1> USE <1>k, <1>n, <1>t DEF Covered, OwedBy, Owes
  <1>1. ASSUME getEscrowById(p)
        PROVE  Covered(p, n)
    BY <1>1, GotoEffect DEF getEscrowById, Request, Positions
  <1>2. ASSUME NEW op \in Operations, NEW m \in Milestones, NEW copy \in Stages,
               UserSave(p, op, m, copy)
        PROVE  Covered(p, n)
    <2>1. pc[p] = "idle" /\ pc'[p] = "save"
      BY <1>2, ToSaveEffect DEF UserSave, Request
    <2> QED
      BY <1>2, <2>1 DEF UserSave, Request
  <1>3. ASSUME handleCreateMilestones(p)
        PROVE  Covered(p, n)
    <2>1. /\ "create-milestones" \in JobKinds /\ 1 \in Milestones
          /\ pc[p] = "idle" /\ pc'[p] = "save"
      BY <1>3, ConstantsAssumption DEF handleCreateMilestones, TakeJob, ToSave, Goto, JobKinds, Milestones, TypeOK
    <2>2. jobs'[Release][n] = jobs[Release][n]
      BY <1>3, <2>1, TakeEffect DEF handleCreateMilestones
    <2> QED
      BY <1>3, <2>1, <2>2 DEF handleCreateMilestones, TakeJob
  <1>4. ASSUME NEW m \in Milestones, handleStartFirstMilestone(p, m)
        PROVE  Covered(p, n)
    <2>1. "start-first-milestone" \in JobKinds /\ 1 \in Milestones
      BY ConstantsAssumption DEF JobKinds, Milestones
    <2>2. jobs'[Release][n] = jobs[Release][n]
      BY <1>4, <2>1, TakeEffect DEF handleStartFirstMilestone
    <2>3. pc[p] = "idle" /\ pc'[p] \in {"idle", "save"}
      <3>1. CASE status[m] = "pending"
        BY <1>4, <3>1 DEF handleStartFirstMilestone, TakeJob, ToSave, Goto, TypeOK
      <3>2. CASE status[m] # "pending"
        BY <1>4, <3>2 DEF handleStartFirstMilestone, TakeJob
      <3> QED
        BY <3>1, <3>2
    <2> QED
      BY <1>4, <2>2, <2>3 DEF handleStartFirstMilestone, TakeJob
  <1>5. ASSUME NEW m \in Milestones, handleAutoApproveMilestone(p, m)
        PROVE  Covered(p, n)
    <2>1. /\ "auto-approve-milestone" \in JobKinds
          /\ pc[p] = "idle" /\ pc'[p] \in {"idle", "readAgain"}
      BY <1>5 DEF handleAutoApproveMilestone, TakeJob, Goto, JobKinds, TypeOK
    <2>2. jobs'[Release][n] = jobs[Release][n]
      BY <1>5, <2>1, TakeEffect DEF handleAutoApproveMilestone
    <2> QED
      BY <1>5, <2>1, <2>2 DEF handleAutoApproveMilestone, TakeJob
  <1>6. ASSUME NEW m \in Milestones, handleReleaseMilestoneFunds(p, m)
        PROVE  Covered(p, n)
    <2>1. pc[p] = "idle" /\ pc'[p] = "pay" /\ task'[p].m = m
      BY <1>6 DEF handleReleaseMilestoneFunds, TakeJob, Goto, TypeOK
    <2>2. jobs'[Release][n] = IF n = m THEN jobs[Release][n] - 1 ELSE jobs[Release][n]
      <3>1. TakeJob(p, Release, m)
        BY <1>6 DEF handleReleaseMilestoneFunds, Release
      <3>2. \A l \in JobKinds, o \in Milestones :
               jobs'[l][o] = IF l = Release /\ o = m THEN jobs[l][o] - 1 ELSE jobs[l][o]
        BY <3>1, TakeEffect
      <3> QED
        BY <3>2
    <2> QED
      BY <1>6, <2>1, <2>2 DEF handleReleaseMilestoneFunds, TakeJob
  <1>7. ASSUME createNext(p)
        PROVE  Covered(p, n)
    <2>1. pc[p] = "createNext" /\ pc'[p] \in {"idle", "save"}
      BY <1>7 DEF createNext, ToSave, Done, Goto, TypeOK
    <2> QED
      BY <1>7, <2>1 DEF createNext
  <1>8. ASSUME createPayout(p)
        PROVE  Covered(p, n)
    <2>1. pc[p] = "pay" /\ pc'[p] = "readAgain"
      BY <1>8 DEF createPayout, Goto, TypeOK
    <2>2. payouts'[n] = IF n = task[p].m THEN payouts[n] + 1 ELSE payouts[n]
      BY <1>8 DEF createPayout, TypeOK
    <2> QED
      BY <1>8, <2>1, <2>2 DEF createPayout
  <1>9. ASSUME readAgain(p)
        PROVE  Covered(p, n)
    <2>1. pc[p] = "readAgain" /\ pc'[p] \in {"idle", "save"}
      BY <1>9 DEF readAgain, ToSave, Done, Goto, TypeOK
    <2> QED
      BY <1>9, <2>1 DEF readAgain
  <1>10. ASSUME save(p)
        PROVE  Covered(p, n)
    <2>1. PICK next \in AfterSave(task[p]) : IF next = "idle" THEN Done(p)
                                             ELSE Goto(p, next) /\ UNCHANGED task
      BY <1>10 DEF save
    <2>2. pc[p] = "save" /\ pc'[p] = next
      BY <1>10, <2>1 DEF save, Done, Goto, TypeOK
    <2>3. approvals'[n] = IF n = task[p].m /\ task[p].op = "approve"
                          THEN approvals[n] + 1 ELSE approvals[n]
      BY <1>10 DEF save, TypeOK
    <2>4. next # "idle" => task'[p] = task[p]
      BY <2>1
    <2>5. next # "pay"
      BY <2>1 DEF AfterSave
    <2> QED
      BY <1>10, <2>2, <2>3, <2>4, <2>5 DEF save
  <1>11. ASSUME saveEscrow(p)
        PROVE  Covered(p, n)
    BY <1>11, DoneEffect DEF saveEscrow
  <1>12. ASSUME refuse(p)
        PROVE  Covered(p, n)
    BY <1>12, DoneEffect DEF refuse
  <1>13. ASSUME queueJob(p)
        PROVE  Covered(p, n)
    <2>1. CASE task[p].op = "submit"
      <3>1. "auto-approve-milestone" \in JobKinds
        BY DEF JobKinds
      <3>2. jobs' = [jobs EXCEPT !["auto-approve-milestone"][task[p].m] = @ + 1] /\ Done(p)
        BY <1>13, <2>1 DEF queueJob
      <3>3. jobs'[Release][n] = jobs[Release][n]
        BY <1>t, <3>1, <3>2, QueueEffect
      <3> QED
        BY <1>13, <3>2, <3>3, DoneEffect DEF queueJob
    <2>2. CASE task[p].op = "approve"
      <3>1. /\ jobs' = [jobs EXCEPT ![Release][task[p].m] = @ + 1]
            /\ Goto(p, "check") /\ task' = task
        BY <1>13, <2>2 DEF queueJob, Release
      <3>2. jobs'[Release][n] = IF n = task[p].m THEN jobs[Release][n] + 1 ELSE jobs[Release][n]
        <4>1. \A l \in JobKinds, o \in Milestones :
                 jobs'[l][o] = IF l = Release /\ o = task[p].m THEN jobs[l][o] + 1 ELSE jobs[l][o]
          BY <1>t, <3>1, QueueEffect
        <4> QED
          BY <4>1
      <3>3. pc[p] = "queue" /\ pc'[p] = "check"
        BY <1>13, <3>1, GotoEffect DEF queueJob, Positions
      <3> QED
        BY <1>13, <2>2, <3>1, <3>2, <3>3 DEF queueJob
    <2> QED
      BY <1>13, <2>1, <2>2 DEF queueJob
  <1>14. ASSUME checkEscrowCompletion(p)
        PROVE  Covered(p, n)
    BY <1>14, DoneEffect DEF checkEscrowCompletion
  <1>15. ASSUME fail(p)
        PROVE  Covered(p, n)
    BY <1>15, DoneEffect DEF fail
  <1>16. ASSUME stall(p)
        PROVE  Covered(p, n)
    <2>1. pc'[p] = "idle"
      BY <1>16, DoneEffect DEF stall
    <2>2. LET one == IF Release = task[p].job /\ n = task[p].m THEN 1 ELSE 0
          IN  /\ jobs'[Release][n] = jobs[Release][n] + one
              /\ stalls'[Release][n] = stalls[Release][n] + one
      BY <1>16, StallEffect
    <2> QED
      BY <1>16, <2>1, <2>2 DEF stall
  <1> QED
    BY <1>1, <1>2, <1>3, <1>4, <1>5, <1>6, <1>7, <1>8, <1>9, <1>10, <1>11,
       <1>12, <1>13, <1>14, <1>15, <1>16, UserCalls
    DEF HandlerStep, TakeAny, Continue

LEMMA BackedStep ==
    ASSUME IInv, TypeOK', [Next]_vars
    PROVE  AllBacked'
  <1> SUFFICES ASSUME NEW m \in Milestones
               PROVE  Backed(m)'
    BY DEF AllBacked
  <1>1. CASE UNCHANGED vars
    BY <1>1 DEF vars, IInv, AllBacked, Backed, Owing, Owes
  <1>2. ASSUME NEW p \in Procs, HandlerStep(p)
        PROVE  Backed(m)'
    BY <1>2, HandlerMoves, CoveredStep, CoveredIsBacked DEF IInv, AllBacked
  <1> QED
    BY <1>1, <1>2 DEF Next, HandlerStep

(* Nothing is owed at first, and nothing waits to be paid.                 *)
LEMMA Initially == Init => IInv
  <1> SUFFICES ASSUME Init
               PROVE  IInv
    OBVIOUS
  <1>1. TypeOK
    <2>1. \A k \in JobKinds, m \in Milestones : (IF Queued(k) /\ m = 1 THEN 1 ELSE 0) \in Nat
      OBVIOUS
    <2>2. jobs \in [JobKinds -> [Milestones -> Nat]]
      BY <2>1 DEF Init
    <2>3. status \in [Milestones -> MilestoneStatus \cup {"absent"}]
      BY DEF Init, MilestoneStatus
    <2>4. task \in [Procs -> Task]
      BY NoTaskType DEF Init
    <2> QED
      BY <2>2, <2>3, <2>4, ConstantsAssumption DEF Init, TypeOK, Task, Stages
  <1>2. Planning
    BY ConstantsAssumption DEF Init, Planning, Queued, JobKinds, Milestones
  <1>3. AllBacked
    <2> SUFFICES ASSUME NEW m \in Milestones
                 PROVE  Backed(m)
      BY DEF AllBacked
    <2>1. Owing(m) = {}
      BY DEF Init, Owing, Owes
    <2>2. Cardinality(Owing(m)) = 0
      BY <2>1, FS_EmptySet
    <2>3. Release \in JobKinds /\ ~ Queued(Release)
      BY DEF Release, JobKinds, Queued
    <2> QED
      BY <2>2, <2>3 DEF Init, Backed
  <1> QED
    BY <1>1, <1>2, <1>3 DEF IInv

LEMMA Inductive == IInv /\ [Next]_vars => IInv'
  BY TypeStep, PlanningStep, BackedStep DEF IInv

LEMMA Invariance == Spec => []IInv
  BY Initially, Inductive, PTL DEF Spec

(* The columns, the tasks and the jobs of the milestone service have the   *)
(* values TypeOK lists, and no job is run again beyond Bull's bound.       *)
THEOREM MilestoneTypes == Spec => []TypeOK
  <1>1. IInv => TypeOK
    BY DEF IInv
  <1> QED
    BY <1>1, Invariance, PTL

(* The release job pays for a milestone no more often than approvals of it *)
(* were saved and the job was run again, whatever overlaps, fails, dies or *)
(* is edited in between.                                                   *)
THEOREM PaymentsAreApproved == Spec => []PaidOnApproval
  <1>1. IInv => PaidOnApproval
    <2> SUFFICES ASSUME IInv, NEW m \in Milestones
                 PROVE  payouts[m] <= approvals[m] + stalls["release-milestone-funds"][m]
      BY DEF PaidOnApproval
    <2>1. Backed(m)
      BY DEF IInv, AllBacked
    <2>2. Owing(m) \in SUBSET Procs
      BY DEF Owing
    <2>3. Cardinality(Owing(m)) \in Nat
      BY <2>2, ConstantsAssumption, FS_Subset, FS_CardinalityType
    <2>4. Release \in JobKinds
      BY DEF Release, JobKinds
    <2>5. /\ payouts[m] \in Nat /\ approvals[m] \in Nat
          /\ jobs[Release][m] \in Nat /\ stalls[Release][m] \in Nat
      BY <2>4, ConstantsAssumption DEF IInv, TypeOK
    <2> QED
      BY <2>1, <2>3, <2>5 DEF Backed, Release
  <1> QED
    BY <1>1, Invariance, PTL
-----------------------------------------------------------------------------
(* Completions against payments, where nobody sets "completed" by hand.    *)

(* Only a payment changes what was paid, and it adds to it.                *)
LEMMA PayoutsGrow ==
    ASSUME TypeOK, NEW p \in Procs, HandlerStep(p)
    PROVE  \A m \in Milestones : payouts[m] > 0 => payouts'[m] > 0
  <1>1. ASSUME getEscrowById(p)
        PROVE  \A m \in Milestones : payouts[m] > 0 => payouts'[m] > 0
    BY <1>1 DEF getEscrowById, Request
  <1>2. ASSUME NEW op \in Operations, NEW m \in Milestones, NEW copy \in Stages,
               UserSave(p, op, m, copy)
        PROVE  \A i \in Milestones : payouts[i] > 0 => payouts'[i] > 0
    BY <1>2 DEF UserSave, Request
  <1>3. ASSUME handleCreateMilestones(p)
        PROVE  \A m \in Milestones : payouts[m] > 0 => payouts'[m] > 0
    BY <1>3 DEF handleCreateMilestones, TakeJob
  <1>4. ASSUME NEW m \in Milestones, handleStartFirstMilestone(p, m)
        PROVE  \A i \in Milestones : payouts[i] > 0 => payouts'[i] > 0
    BY <1>4 DEF handleStartFirstMilestone, TakeJob
  <1>5. ASSUME NEW m \in Milestones, handleAutoApproveMilestone(p, m)
        PROVE  \A i \in Milestones : payouts[i] > 0 => payouts'[i] > 0
    BY <1>5 DEF handleAutoApproveMilestone, TakeJob
  <1>6. ASSUME NEW m \in Milestones, handleReleaseMilestoneFunds(p, m)
        PROVE  \A i \in Milestones : payouts[i] > 0 => payouts'[i] > 0
    BY <1>6 DEF handleReleaseMilestoneFunds, TakeJob
  <1>7. ASSUME createNext(p)
        PROVE  \A m \in Milestones : payouts[m] > 0 => payouts'[m] > 0
    BY <1>7 DEF createNext
  <1>8. ASSUME createPayout(p)
        PROVE  \A m \in Milestones : payouts[m] > 0 => payouts'[m] > 0
    BY <1>8 DEF createPayout, TypeOK
  <1>9. ASSUME readAgain(p)
        PROVE  \A m \in Milestones : payouts[m] > 0 => payouts'[m] > 0
    BY <1>9 DEF readAgain
  <1>10. ASSUME save(p)
        PROVE  \A m \in Milestones : payouts[m] > 0 => payouts'[m] > 0
    BY <1>10 DEF save
  <1>11. ASSUME saveEscrow(p)
        PROVE  \A m \in Milestones : payouts[m] > 0 => payouts'[m] > 0
    BY <1>11 DEF saveEscrow
  <1>12. ASSUME refuse(p)
        PROVE  \A m \in Milestones : payouts[m] > 0 => payouts'[m] > 0
    BY <1>12 DEF refuse
  <1>13. ASSUME queueJob(p)
        PROVE  \A m \in Milestones : payouts[m] > 0 => payouts'[m] > 0
    BY <1>13 DEF queueJob
  <1>14. ASSUME checkEscrowCompletion(p)
        PROVE  \A m \in Milestones : payouts[m] > 0 => payouts'[m] > 0
    BY <1>14 DEF checkEscrowCompletion
  <1>15. ASSUME fail(p)
        PROVE  \A m \in Milestones : payouts[m] > 0 => payouts'[m] > 0
    BY <1>15 DEF fail
  <1>16. ASSUME stall(p)
        PROVE  \A m \in Milestones : payouts[m] > 0 => payouts'[m] > 0
    BY <1>16 DEF stall
  <1> QED
    BY <1>1, <1>2, <1>3, <1>4, <1>5, <1>6, <1>7, <1>8, <1>9, <1>10, <1>11,
       <1>12, <1>13, <1>14, <1>15, <1>16, UserCalls
    DEF HandlerStep, TakeAny, Continue

(* What p takes along is paid for.                                         *)
CopyPaid(p) ==
    /\ task[p].copy = "completed" => payouts[task[p].m] > 0
    /\ task[p].op = "release" /\ pc[p] \in {"readAgain", "save"} => payouts[task[p].m] > 0
    /\ \A m \in Milestones : task[p].all[m] = "completed" => payouts[m] > 0

LEMMA CopyPaidStep ==
    ASSUME PaidInv, "completed" \notin EditStatuses, NEW p \in Procs, HandlerStep(p)
    PROVE  CopyPaid(p)'
  <1>t. TypeOK /\ CopyPaid(p)
    BY DEF PaidInv, IInv, CopiesPaid, CopyPaid
  <1>g. \A m \in Milestones : payouts[m] > 0 => payouts'[m] > 0
    BY <1>t, PayoutsGrow
  <1>s. \A m \in Milestones : status[m] = "completed" => payouts[m] > 0
    BY DEF PaidInv, CompletedIsPaid
  <1>m. task[p].m \in Milestones
    BY <1>t DEF TypeOK
  <1>k. 1 \in Milestones
    BY ConstantsAssumption DEF Milestones
  <1>d. ASSUME Done(p)
        PROVE  CopyPaid(p)'
    BY <1>t, <1>d, DoneEffect, NoTaskType DEF CopyPaid
  <1> USE <1>t, <1>g, <1>s, <1>m DEF CopyPaid
  <1>1. ASSUME getEscrowById(p)
        PROVE  CopyPaid(p)'
    <2>1. task'[p] = [NoTask EXCEPT !.op = "escrow", !.all = status]
      BY <1>1 DEF getEscrowById, TypeOK
    <2>2. task'[p].copy = "absent" /\ task'[p].op = "escrow" /\ task'[p].all = status
      BY <2>1 DEF NoTask
    <2> QED
      BY <1>1, <2>2 DEF getEscrowById, Request
  <1>2. ASSUME NEW op \in Operations, NEW m \in Milestones, NEW copy \in Stages,
               UserSave(p, op, m, copy)
        PROVE  CopyPaid(p)'
    BY <1>2, ToSaveEffect DEF UserSave, Request
  <1>3. ASSUME handleCreateMilestones(p)
        PROVE  CopyPaid(p)'
    <2>1. task'[p].copy = "pending" /\ task'[p].op = "createAll" /\ task'[p].all = NoCopies
      BY <1>3 DEF handleCreateMilestones, ToSave, TypeOK
    <2> QED
      BY <2>1 DEF NoCopies
  <1>4. ASSUME NEW m \in Milestones, handleStartFirstMilestone(p, m)
        PROVE  CopyPaid(p)'
    <2>1. CASE status[m] = "pending"
      <3>1. task'[p].copy = "in_progress" /\ task'[p].op = "start" /\ task'[p].all = NoCopies
        BY <1>4, <2>1 DEF handleStartFirstMilestone, ToSave, TypeOK
      <3> QED
        BY <3>1 DEF NoCopies
    <2>2. CASE status[m] # "pending"
      BY <1>4, <2>2 DEF handleStartFirstMilestone, TakeJob
    <2> QED
      BY <2>1, <2>2
  <1>5. ASSUME NEW m \in Milestones, handleAutoApproveMilestone(p, m)
        PROVE  CopyPaid(p)'
    <2>1. CASE status[m] = "submitted"
      <3>1. task'[p].copy = "submitted" /\ task'[p].op = "autoApprove" /\ task'[p].all = NoCopies
        BY <1>5, <2>1 DEF handleAutoApproveMilestone, TypeOK
      <3> QED
        BY <3>1 DEF NoCopies
    <2>2. CASE status[m] # "submitted"
      BY <1>5, <2>2 DEF handleAutoApproveMilestone, TakeJob
    <2> QED
      BY <2>1, <2>2
  <1>6. ASSUME NEW m \in Milestones, handleReleaseMilestoneFunds(p, m)
        PROVE  CopyPaid(p)'
    <2>1. /\ task'[p].copy = status[m] /\ task'[p].m = m /\ task'[p].all = NoCopies
          /\ pc'[p] = "pay"
      BY <1>6 DEF handleReleaseMilestoneFunds, Goto, TypeOK
    <2> QED
      BY <2>1 DEF NoCopies
  <1>7. ASSUME createNext(p)
        PROVE  CopyPaid(p)'
    <2>1. CASE Done(p)
      BY <2>1, <1>d
    <2>2. CASE ~ Done(p)
      <3>1. task'[p].copy = "pending" /\ task'[p].op = "createAll" /\ task'[p].all = NoCopies
        BY <1>7, <2>2 DEF createNext, ToSave, TypeOK
      <3> QED
        BY <3>1 DEF NoCopies
    <2> QED
      BY <2>1, <2>2
  <1>8. ASSUME createPayout(p)
        PROVE  CopyPaid(p)'
    <2>1. payouts'[task[p].m] > 0
      BY <1>8 DEF createPayout, TypeOK
    <2> QED
      BY <1>8, <2>1 DEF createPayout
  <1>9. ASSUME readAgain(p)
        PROVE  CopyPaid(p)'
    <2>1. CASE Done(p)
      BY <2>1, <1>d
    <2>2. CASE ~ Done(p)
      <3>1. PICK op, copy : ToSave(p, op, task[p].m, task[p].job, copy)
        BY <1>9, <2>2 DEF readAgain
      <3>2. /\ task'[p].op = op /\ task'[p].m = task[p].m /\ task'[p].copy = copy
            /\ task'[p].all = NoCopies
        BY <3>1 DEF ToSave, TypeOK
      <3>3. copy = "completed" \/ op = "release" => task[p].op = "release"
        BY <1>9, <2>2, <3>2 DEF readAgain, ToSave, TypeOK
      <3>4. pc[p] = "readAgain"
        BY <1>9 DEF readAgain
      <3> QED
        BY <3>2, <3>3, <3>4 DEF NoCopies
    <2> QED
      BY <2>1, <2>2
  <1>10. ASSUME save(p)
        PROVE  CopyPaid(p)'
    <2>1. PICK next \in AfterSave(task[p]) : IF next = "idle" THEN Done(p)
                                             ELSE Goto(p, next) /\ UNCHANGED task
      BY <1>10 DEF save
    <2>2. CASE next = "idle"
      BY <1>d, <2>1, <2>2
    <2>3. CASE next # "idle"
      <3>1. task'[p] = task[p] /\ pc'[p] = next /\ pc[p] = "save"
        BY <1>10, <2>1, <2>3 DEF Goto, TypeOK, save
      <3> QED
        BY <3>1
    <2> QED
      BY <2>2, <2>3
  <1>11. ASSUME saveEscrow(p)
        PROVE  CopyPaid(p)'
    BY <1>11, <1>d DEF saveEscrow
  <1>12. ASSUME refuse(p)
        PROVE  CopyPaid(p)'
    BY <1>12, <1>d DEF refuse
  <1>13. ASSUME queueJob(p)
        PROVE  CopyPaid(p)'
    <2>1. CASE Done(p)
      BY <1>d, <2>1
    <2>2. CASE ~ Done(p)
      <3>1. task' = task /\ Goto(p, "check")
        BY <1>13, <2>2 DEF queueJob
      <3>2. pc'[p] = "check"
        BY <3>1 DEF Goto, TypeOK
      <3> QED
        BY <3>1, <3>2
    <2> QED
      BY <2>1, <2>2
  <1>14. ASSUME checkEscrowCompletion(p)
        PROVE  CopyPaid(p)'
    BY <1>14, <1>d DEF checkEscrowCompletion
  <1>15. ASSUME fail(p)
        PROVE  CopyPaid(p)'
    BY <1>15, <1>d DEF fail
  <1>16. ASSUME stall(p)
        PROVE  CopyPaid(p)'
    BY <1>16, <1>d DEF stall
  <1> QED
    BY <1>1, <1>2, <1>3, <1>4, <1>5, <1>6, <1>7, <1>8, <1>9, <1>10, <1>11,
       <1>12, <1>13, <1>14, <1>15, <1>16, UserCalls
    DEF HandlerStep, TakeAny, Continue

(* The status column changes by a save only, and to what a copy says.      *)
LEMMA StatusChanges ==
    ASSUME TypeOK, NEW p \in Procs, HandlerStep(p), NEW n \in Milestones,
           status'[n] # status[n]
    PROVE  \/ save(p) /\ n = task[p].m /\ status'[n] = task[p].copy
           \/ saveEscrow(p) /\ status'[n] = task[p].all[n]
  <1>1. CASE save(p)
    BY <1>1 DEF save, TypeOK
  <1>2. CASE saveEscrow(p)
    BY <1>2 DEF saveEscrow
  <1>3. CASE ~ save(p) /\ ~ saveEscrow(p)
    <2> DEFINE Goal == status' = status
    <2>1. ASSUME getEscrowById(p)
          PROVE  Goal
      BY <2>1 DEF getEscrowById, Request
    <2>2. ASSUME NEW op \in Operations, NEW m \in Milestones, NEW copy \in Stages,
                 UserSave(p, op, m, copy)
          PROVE  Goal
      BY <2>2 DEF UserSave, Request
    <2>3. ASSUME handleCreateMilestones(p)
          PROVE  Goal
      BY <2>3 DEF handleCreateMilestones, TakeJob
    <2>4. ASSUME NEW m \in Milestones, handleStartFirstMilestone(p, m)
          PROVE  Goal
      BY <2>4 DEF handleStartFirstMilestone, TakeJob
    <2>5. ASSUME NEW m \in Milestones, handleAutoApproveMilestone(p, m)
          PROVE  Goal
      BY <2>5 DEF handleAutoApproveMilestone, TakeJob
    <2>6. ASSUME NEW m \in Milestones, handleReleaseMilestoneFunds(p, m)
          PROVE  Goal
      BY <2>6 DEF handleReleaseMilestoneFunds, TakeJob
    <2>7. ASSUME createNext(p)
          PROVE  Goal
      BY <2>7 DEF createNext
    <2>8. ASSUME createPayout(p)
          PROVE  Goal
      BY <2>8 DEF createPayout
    <2>9. ASSUME readAgain(p)
          PROVE  Goal
      BY <2>9 DEF readAgain
    <2>10. ASSUME save(p)
          PROVE  Goal
      BY <1>3, <2>10
    <2>11. ASSUME saveEscrow(p)
          PROVE  Goal
      BY <1>3, <2>11
    <2>12. ASSUME refuse(p)
          PROVE  Goal
      BY <2>12 DEF refuse
    <2>13. ASSUME queueJob(p)
          PROVE  Goal
      BY <2>13 DEF queueJob
    <2>14. ASSUME checkEscrowCompletion(p)
          PROVE  Goal
      BY <2>14 DEF checkEscrowCompletion
    <2>15. ASSUME fail(p)
          PROVE  Goal
      BY <2>15 DEF fail
    <2>16. ASSUME stall(p)
          PROVE  Goal
      BY <2>16 DEF stall
    <2>17. Goal
      BY <2>1, <2>2, <2>3, <2>4, <2>5, <2>6, <2>7, <2>8, <2>9, <2>10,
         <2>11, <2>12, <2>13, <2>14, <2>15, <2>16, UserCalls
      DEF HandlerStep, TakeAny, Continue
    <2> QED
      BY <2>17
  <1> QED
    BY <1>1, <1>2, <1>3

LEMMA PaidStep ==
    ASSUME PaidInv, "completed" \notin EditStatuses, [Next]_vars
    PROVE  CopiesPaid' /\ CompletedIsPaid'
  <1>1. CASE UNCHANGED vars
    BY <1>1 DEF vars, PaidInv, CopiesPaid, CompletedIsPaid
  <1>2. ASSUME NEW p \in Procs, HandlerStep(p)
        PROVE  CopiesPaid' /\ CompletedIsPaid'
    <2>t. TypeOK /\ Planning /\ Moved(p)
      BY <1>2, HandlerMoves DEF PaidInv, IInv
    <2>g. \A m \in Milestones : payouts[m] > 0 => payouts'[m] > 0
      BY <1>2, <2>t, PayoutsGrow
    <2>1. ASSUME NEW q \in Procs
          PROVE  CopyPaid(q)'
      <3>1. CASE q = p
        BY <1>2, <3>1, CopyPaidStep
      <3>2. CASE q # p
        <4>1. task'[q] = task[q] /\ pc'[q] = pc[q] /\ task[q].m \in Milestones
          BY <2>t, <3>2 DEF Moved, TypeOK
        <4>2. CopyPaid(q)
          BY DEF PaidInv, CopiesPaid, CopyPaid
        <4> QED
          BY <2>g, <4>1, <4>2 DEF CopyPaid
      <3> QED
        BY <3>1, <3>2
    <2>2. ASSUME NEW m \in Milestones, status'[m] = "completed"
          PROVE  payouts'[m] > 0
      <3>1. CASE status[m] = "completed"
        BY <2>g, <3>1 DEF PaidInv, CompletedIsPaid
      <3>2. CASE status[m] # "completed"
        <4>1. \/ m = task[p].m /\ status'[m] = task[p].copy
              \/ status'[m] = task[p].all[m]
          BY <1>2, <2>t, <2>2, <3>2, StatusChanges
        <4>2. CopyPaid(p)
          BY DEF PaidInv, CopiesPaid, CopyPaid
        <4> QED
          BY <2>2, <2>g, <4>1, <4>2 DEF CopyPaid
      <3> QED
        BY <3>1, <3>2
    <2>3. CopiesPaid'
      BY <2>1 DEF CopiesPaid, CopyPaid
    <2>4. CompletedIsPaid'
      BY <2>2 DEF CompletedIsPaid
    <2> QED
      BY <2>3, <2>4
  <1> QED
    BY <1>1, <1>2 DEF Next, HandlerStep

LEMMA PaidInit == Init => CopiesPaid /\ CompletedIsPaid
  BY NoTaskType DEF Init, CopiesPaid, CompletedIsPaid

LEMMA PaidInvariance ==
    ASSUME "completed" \notin EditStatuses
    PROVE  Spec => []PaidInv
  <1>1. Init => PaidInv
    BY Initially, PaidInit DEF PaidInv
  <1>2. PaidInv /\ [Next]_vars => PaidInv'
    BY Inductive, PaidStep DEF PaidInv
  <1> QED
    BY <1>1, <1>2, PTL DEF Spec

(* A completed milestone has been paid for, whatever overlaps, fails, dies *)
(* and is run again, as long as updateMilestone, which checks nothing, is  *)
(* not sent the status "completed".                                        *)
THEOREM CompletionsArePaid ==
    ASSUME "completed" \notin EditStatuses
    PROVE  Spec => []CompletedIsPaid
  <1>1. PaidInv => CompletedIsPaid
    BY DEF PaidInv
  <1> QED
    BY <1>1, PaidInvariance, PTL
-----------------------------------------------------------------------------
(* Handlers that do not overlap, and jobs that are not run again.          *)

(* What p is about to save is a move of the milestone it read.             *)
FreshSave(op, m, copy) == \/ <<op, status[m], copy>> \in Saves
                          \/ op \in {"edit", "requirement"} /\ copy = status[m]

LEMMA SerialUserCalls ==
    ASSUME Serial, TypeOK, \A m \in Milestones : status[m] # "under_review",
           NEW p \in Procs, UserCall(p)
    PROVE  \/ getEscrowById(p)
           \/ \E op \in Operations \ {"createAll"}, m \in Milestones, copy \in Stages :
                 /\ Request(p)
                 /\ ToSave(p, op, m, "none", copy)
                 /\ FreshSave(op, m, copy)
                 /\ op = "create" => m \notin Copies
  <1> DEFINE Saved(op, m, copy) == /\ Request(p)
                                   /\ ToSave(p, op, m, "none", copy)
                                   /\ FreshSave(op, m, copy)
                                   /\ op = "create" => m \notin Copies
  <1> SUFFICES ASSUME ~ getEscrowById(p)
               PROVE  \E op \in Operations \ {"createAll"}, m \in Milestones, copy \in Stages :
                          Saved(op, m, copy)
    OBVIOUS
  <1>1. PICK m \in Milestones : \/ createMilestone(p, m) \/ startMilestone(p, m)
                                \/ submitMilestone(p, m) \/ approveMilestone(p, m)
                                \/ rejectMilestone(p, m) \/ updateMilestone(p, m)
                                \/ updateRequirement(p, m)
    BY DEF UserCall
  <1>o. /\ {"create", "start", "submit", "approve", "reject", "edit", "requirement"}
              \subseteq Operations \ {"createAll"}
        /\ {"pending", "in_progress", "submitted", "approved", "rejected"} \subseteq Stages
        /\ status[m] \in Stages
    BY DEF Operations, Stages, MilestoneStatus, TypeOK
  <1> USE DEF FreshSave, Saves
  <1>2. CASE createMilestone(p, m)
    <2>1. Saved("create", m, "pending")
      BY <1>2 DEF createMilestone
    <2> QED
      BY <1>o, <2>1
  <1>3. CASE startMilestone(p, m)
    <2>1. Saved("start", m, "in_progress")
      BY <1>3 DEF startMilestone
    <2> QED
      BY <1>o, <2>1
  <1>4. CASE submitMilestone(p, m)
    <2>1. Saved("submit", m, "submitted")
      BY <1>4 DEF submitMilestone
    <2> QED
      BY <1>o, <2>1
  <1>5. CASE approveMilestone(p, m)
    <2>1. Saved("approve", m, "approved")
      BY <1>5 DEF approveMilestone, Reviewable
    <2> QED
      BY <1>o, <2>1
  <1>6. CASE rejectMilestone(p, m)
    <2>1. Saved("reject", m, "rejected")
      BY <1>6 DEF rejectMilestone, Reviewable
    <2> QED
      BY <1>o, <2>1
  <1>7. CASE updateRequirement(p, m)
    <2>1. Saved("requirement", m, status[m])
      BY <1>7 DEF updateRequirement
    <2> QED
      BY <1>o, <2>1
  <1>8. CASE updateMilestone(p, m)
    <2>1. Saved("edit", m, status[m])
      BY <1>8 DEF updateMilestone, Serial
    <2> QED
      BY <1>o, <2>1
  <1> QED
    BY <1>1, <1>2, <1>3, <1>4, <1>5, <1>6, <1>7, <1>8

LEMMA FreshStep ==
    ASSUME Serial, SerialInv, NEW p \in Procs, HandlerStep(p)
    PROVE  CopiesFresh'
  <1>t. TypeOK /\ task[p] \in Task /\ task[p].m \in Milestones
    BY DEF SerialInv, PaidInv, IInv, TypeOK, Task, Stages
  <1>u. \A m \in Milestones : status[m] # "under_review"
    BY DEF SerialInv, ApprovedOnce
  <1> DEFINE Kept == /\ pc'[p] = "saveEscrow" => task'[p].all = status'
                     /\ pc'[p] = "save" =>
                           \/ <<task'[p].op, status'[task'[p].m], task'[p].copy>> \in Saves
                           \/ /\ task'[p].op \in {"edit", "requirement"}
                              /\ task'[p].copy = status'[task'[p].m]
  <1> SUFFICES Kept
    BY DEF Serial, CopiesFresh
  <1>d. ASSUME Done(p)
        PROVE  Kept
    BY <1>t, <1>d, DoneEffect
  <1> USE <1>t
  <1>1. ASSUME getEscrowById(p)
        PROVE  Kept
    <2>1. task'[p] = [NoTask EXCEPT !.op = "escrow", !.all = status]
      BY <1>1 DEF getEscrowById, TypeOK
    <2>2. task'[p].all = status
      BY <2>1 DEF NoTask
    <2>3. pc'[p] = "saveEscrow" /\ status' = status
      BY <1>1 DEF getEscrowById, Request, Goto, TypeOK
    <2> QED
      BY <2>2, <2>3
  <1>2. ASSUME NEW op \in Operations \ {"createAll"}, NEW m \in Milestones,
               NEW copy \in Stages, Request(p), ToSave(p, op, m, "none", copy),
               FreshSave(op, m, copy), op = "create" => m \notin Copies
        PROVE  Kept
    <2>1. /\ task'[p].op = op /\ task'[p].m = m /\ task'[p].copy = copy
          /\ pc'[p] = "save" /\ status' = status
      BY <1>2 DEF ToSave, Goto, Request, TypeOK
    <2> QED
      BY <1>2, <2>1 DEF FreshSave
  <1>3. ASSUME handleCreateMilestones(p)
        PROVE  Kept
    <2>1. jobs["create-milestones"][1] = 1 /\ status' = status
      BY <1>3 DEF handleCreateMilestones, TakeJob, SerialInv, ToCreate
    <2>2. Planned + 1 \in Copies
      BY <2>1, ConstantsAssumption DEF SerialInv, PaidInv, IInv, Planning, Copies
    <2>3. status[Planned + 1] = "absent"
      BY <2>1, <2>2 DEF SerialInv, ToCreate
    <2>4. /\ task'[p].op = "createAll" /\ task'[p].m = Planned + 1 /\ task'[p].copy = "pending"
          /\ pc'[p] = "save"
      BY <1>3 DEF handleCreateMilestones, ToSave, Goto, TypeOK
    <2> QED
      BY <2>1, <2>3, <2>4 DEF Saves
  <1>4. ASSUME NEW m \in Milestones, handleStartFirstMilestone(p, m)
        PROVE  Kept
    <2>1. CASE status[m] = "pending"
      <3>1. /\ task'[p].op = "start" /\ task'[p].m = m /\ task'[p].copy = "in_progress"
            /\ pc'[p] = "save" /\ status' = status
        BY <1>4, <2>1 DEF handleStartFirstMilestone, TakeJob, ToSave, Goto, TypeOK
      <3> QED
        BY <2>1, <3>1 DEF Saves
    <2>2. CASE status[m] # "pending"
      BY <1>4, <2>2 DEF handleStartFirstMilestone, TakeJob
    <2> QED
      BY <2>1, <2>2
  <1>5. ASSUME NEW m \in Milestones, handleAutoApproveMilestone(p, m)
        PROVE  Kept
    <2>1. pc'[p] \in {"idle", "readAgain"}
      BY <1>5 DEF handleAutoApproveMilestone, TakeJob, Goto, TypeOK
    <2> QED
      BY <2>1
  <1>6. ASSUME NEW m \in Milestones, handleReleaseMilestoneFunds(p, m)
        PROVE  Kept
    <2>1. pc'[p] = "pay"
      BY <1>6 DEF handleReleaseMilestoneFunds, TakeJob, Goto, TypeOK
    <2> QED
      BY <2>1
  <1>7. ASSUME createNext(p)
        PROVE  Kept
    <2>1. CASE Done(p)
      BY <1>d, <2>1
    <2>2. CASE ~ Done(p)
      <3>1. /\ pc[p] = "createNext" /\ task[p].m + 1 \in Copies /\ status' = status
            /\ ToSave(p, "createAll", task[p].m + 1, "create-milestones", "pending")
        BY <1>7, <2>2 DEF createNext
      <3>2. status[task[p].m + 1] = "absent"
        BY <3>1, ConstantsAssumption DEF SerialInv, ToCreate, Milestones
      <3>3. /\ task'[p].op = "createAll" /\ task'[p].m = task[p].m + 1
            /\ task'[p].copy = "pending" /\ pc'[p] = "save"
        BY <3>1 DEF ToSave, Goto, TypeOK
      <3> QED
        BY <3>1, <3>2, <3>3 DEF Saves
    <2> QED
      BY <2>1, <2>2
  <1>8. ASSUME createPayout(p)
        PROVE  Kept
    <2>1. pc'[p] = "readAgain"
      BY <1>8 DEF createPayout, Goto, TypeOK
    <2> QED
      BY <2>1
  <1>9. ASSUME readAgain(p)
        PROVE  Kept
    <2>1. CASE Done(p)
      BY <1>d, <2>1
    <2>2. CASE ~ Done(p)
      <3>1. PICK op, copy : /\ ToSave(p, op, task[p].m, task[p].job, copy)
                            /\ <<op, status[task[p].m], copy>> \in Saves
        BY <1>9, <2>2, <1>u DEF readAgain, Reviewable, Saves
      <3>2. /\ task'[p].op = op /\ task'[p].m = task[p].m /\ task'[p].copy = copy
            /\ pc'[p] = "save"
        BY <3>1 DEF ToSave, Goto, TypeOK
      <3> QED
        BY <1>9, <3>1, <3>2 DEF readAgain
    <2> QED
      BY <2>1, <2>2
  <1>10. ASSUME save(p)
        PROVE  Kept
    <2>1. PICK next \in AfterSave(task[p]) : IF next = "idle" THEN Done(p)
                                             ELSE Goto(p, next) /\ UNCHANGED task
      BY <1>10 DEF save
    <2>2. pc'[p] \in {"createNext", "queue", "readAgain", "idle"}
      BY <2>1 DEF AfterSave, Done, Goto, TypeOK
    <2> QED
      BY <2>2
  <1>11. ASSUME saveEscrow(p)
        PROVE  Kept
    BY <1>11, <1>d DEF saveEscrow
  <1>12. ASSUME refuse(p)
        PROVE  Kept
    BY <1>12, <1>d DEF refuse
  <1>13. ASSUME queueJob(p)
        PROVE  Kept
    <2>1. pc'[p] \in {"idle", "check"}
      BY <1>13 DEF queueJob, Done, Goto, TypeOK
    <2> QED
      BY <2>1
  <1>14. ASSUME checkEscrowCompletion(p)
        PROVE  Kept
    BY <1>14, <1>d DEF checkEscrowCompletion
  <1>15. ASSUME fail(p)
        PROVE  Kept
    BY <1>15, <1>d DEF fail
  <1>16. ASSUME stall(p)
        PROVE  Kept
    BY <1>16, <1>d DEF stall
  <1> QED
    BY <1>1, <1>2, <1>3, <1>4, <1>5, <1>6, <1>7, <1>8, <1>9, <1>10, <1>11,
       <1>12, <1>13, <1>14, <1>15, <1>16, <1>t, <1>u, SerialUserCalls
    DEF HandlerStep, TakeAny, Continue

(* Without overlap a save is a move of one milestone, or changes nothing.  *)
LEMMA SerialSaves ==
    ASSUME SerialInv, NEW p \in Procs, save(p)
    PROVE  /\ task[p].m \in Milestones
           /\ \A m \in Milestones :
                 status'[m] = IF m = task[p].m THEN task[p].copy ELSE status[m]
           /\ FreshSave(task[p].op, task[p].m, task[p].copy)
  BY DEF save, SerialInv, PaidInv, IInv, TypeOK, CopiesFresh, FreshSave

LEMMA SerialSaveEscrow ==
    ASSUME SerialInv, NEW p \in Procs, saveEscrow(p)
    PROVE  status' = status
  BY DEF saveEscrow, SerialInv, CopiesFresh

LEMMA ApprovalsChange ==
    ASSUME NEW p \in Procs, HandlerStep(p), TypeOK, ~ save(p)
    PROVE  approvals' = approvals
  <1>1. ASSUME getEscrowById(p)
        PROVE  approvals' = approvals
    BY <1>1 DEF getEscrowById, Request
  <1>2. ASSUME NEW op \in Operations, NEW m \in Milestones, NEW copy \in Stages,
               UserSave(p, op, m, copy)
        PROVE  approvals' = approvals
    BY <1>2 DEF UserSave, Request
  <1>3. ASSUME handleCreateMilestones(p)
        PROVE  approvals' = approvals
    BY <1>3 DEF handleCreateMilestones, TakeJob
  <1>4. ASSUME NEW m \in Milestones, handleStartFirstMilestone(p, m)
        PROVE  approvals' = approvals
    BY <1>4 DEF handleStartFirstMilestone, TakeJob
  <1>5. ASSUME NEW m \in Milestones, handleAutoApproveMilestone(p, m)
        PROVE  approvals' = approvals
    BY <1>5 DEF handleAutoApproveMilestone, TakeJob
  <1>6. ASSUME NEW m \in Milestones, handleReleaseMilestoneFunds(p, m)
        PROVE  approvals' = approvals
    BY <1>6 DEF handleReleaseMilestoneFunds, TakeJob
  <1>7. ASSUME createNext(p)
        PROVE  approvals' = approvals
    BY <1>7 DEF createNext
  <1>8. ASSUME createPayout(p)
        PROVE  approvals' = approvals
    BY <1>8 DEF createPayout
  <1>9. ASSUME readAgain(p)
        PROVE  approvals' = approvals
    BY <1>9 DEF readAgain
  <1>10. ASSUME save(p)
        PROVE  approvals' = approvals
    BY <1>10
  <1>11. ASSUME saveEscrow(p)
        PROVE  approvals' = approvals
    BY <1>11 DEF saveEscrow
  <1>12. ASSUME refuse(p)
        PROVE  approvals' = approvals
    BY <1>12 DEF refuse
  <1>13. ASSUME queueJob(p)
        PROVE  approvals' = approvals
    BY <1>13 DEF queueJob
  <1>14. ASSUME checkEscrowCompletion(p)
        PROVE  approvals' = approvals
    BY <1>14 DEF checkEscrowCompletion
  <1>15. ASSUME fail(p)
        PROVE  approvals' = approvals
    BY <1>15 DEF fail
  <1>16. ASSUME stall(p)
        PROVE  approvals' = approvals
    BY <1>16 DEF stall
  <1> QED
    BY <1>1, <1>2, <1>3, <1>4, <1>5, <1>6, <1>7, <1>8, <1>9, <1>10, <1>11,
       <1>12, <1>13, <1>14, <1>15, <1>16, UserCalls
    DEF HandlerStep, TakeAny, Continue

LEMMA ApprovedOnceStep ==
    ASSUME Serial, SerialInv, NEW p \in Procs, HandlerStep(p)
    PROVE  ApprovedOnce'
  <1>t. TypeOK
    BY DEF SerialInv, PaidInv, IInv
  <1> SUFFICES ASSUME NEW m \in Milestones
               PROVE  /\ status'[m] # "under_review"
                      /\ approvals'[m] = IF status'[m] \in {"approved", "completed"} THEN 1 ELSE 0
    BY DEF ApprovedOnce
  <1>m. /\ status[m] # "under_review"
        /\ approvals[m] = IF status[m] \in {"approved", "completed"} THEN 1 ELSE 0
    BY DEF SerialInv, ApprovedOnce
  <1>1. CASE save(p)
    <2>1. approvals'[m] = IF m = task[p].m /\ task[p].op = "approve"
                          THEN approvals[m] + 1 ELSE approvals[m]
      BY <1>t, <1>1 DEF save, TypeOK
    <2>2. CASE m = task[p].m
      <3>1. FreshSave(task[p].op, m, status'[m])
        BY <1>1, <2>2, SerialSaves
      <3> QED
        BY <1>m, <2>1, <2>2, <3>1 DEF FreshSave, Saves
    <2>3. CASE m # task[p].m
      BY <1>1, <1>m, <2>1, <2>3, SerialSaves
    <2> QED
      BY <2>2, <2>3
  <1>2. CASE ~ save(p)
    <2>1. status'[m] = status[m]
      BY <1>t, <1>2, StatusChanges, SerialSaveEscrow
    <2>2. approvals' = approvals
      BY <1>t, <1>2, ApprovalsChange
    <2> QED
      BY <1>m, <2>1, <2>2
  <1> QED
    BY <1>1, <1>2

(* The queue of create-milestones gets no more jobs.                       *)
LEMMA CreateJobs ==
    ASSUME TypeOK, Planning, NEW p \in Procs, HandlerStep(p)
    PROVE  LET k == "create-milestones"
           IN  \/ ~ handleCreateMilestones(p) /\ jobs'[k][1] = jobs[k][1]
               \/ handleCreateMilestones(p) /\ jobs'[k][1] = jobs[k][1] - 1 /\ jobs[k][1] > 0
  <1> DEFINE k == "create-milestones"
             Goal == \/ ~ handleCreateMilestones(p) /\ jobs'[k][1] = jobs[k][1]
                     \/ handleCreateMilestones(p) /\ jobs'[k][1] = jobs[k][1] - 1 /\ jobs[k][1] > 0
  <1>k. /\ {k, "start-first-milestone", "auto-approve-milestone", Release} \subseteq JobKinds
        /\ 1 \in Milestones
    BY ConstantsAssumption DEF JobKinds, Milestones, Release
  <1> SUFFICES ASSUME ~ handleCreateMilestones(p)
               PROVE  jobs'[k][1] = jobs[k][1]
    <2>1. ASSUME handleCreateMilestones(p)
          PROVE  jobs'[k][1] = jobs[k][1] - 1 /\ jobs[k][1] > 0
      BY <1>k, <2>1, TakeEffect DEF handleCreateMilestones
    <2> QED
      BY <2>1
  <1> USE <1>k
  <1>1. ASSUME getEscrowById(p)
        PROVE  jobs'[k][1] = jobs[k][1]
    BY <1>1 DEF getEscrowById, Request
  <1>2. ASSUME NEW op \in Operations, NEW m \in Milestones, NEW copy \in Stages,
               UserSave(p, op, m, copy)
        PROVE  jobs'[k][1] = jobs[k][1]
    BY <1>2 DEF UserSave, Request
  <1>3. ASSUME handleCreateMilestones(p)
        PROVE  jobs'[k][1] = jobs[k][1]
    BY <1>3
  <1>4. ASSUME NEW m \in Milestones, handleStartFirstMilestone(p, m)
        PROVE  jobs'[k][1] = jobs[k][1]
    <2>1. TakeJob(p, "start-first-milestone", 1)
      BY <1>4 DEF handleStartFirstMilestone
    <2>2. \A l \in JobKinds, o \in Milestones :
             jobs'[l][o] = IF l = "start-first-milestone" /\ o = 1 THEN jobs[l][o] - 1 ELSE jobs[l][o]
      BY <2>1, TakeEffect
    <2> QED
      BY <2>2
  <1>5. ASSUME NEW m \in Milestones, handleAutoApproveMilestone(p, m)
        PROVE  jobs'[k][1] = jobs[k][1]
    <2>1. TakeJob(p, "auto-approve-milestone", m)
      BY <1>5 DEF handleAutoApproveMilestone
    <2>2. \A l \in JobKinds, o \in Milestones :
             jobs'[l][o] = IF l = "auto-approve-milestone" /\ o = m THEN jobs[l][o] - 1 ELSE jobs[l][o]
      BY <2>1, TakeEffect
    <2> QED
      BY <2>2
  <1>6. ASSUME NEW m \in Milestones, handleReleaseMilestoneFunds(p, m)
        PROVE  jobs'[k][1] = jobs[k][1]
    <2>1. TakeJob(p, "release-milestone-funds", m)
      BY <1>6 DEF handleReleaseMilestoneFunds
    <2>2. \A l \in JobKinds, o \in Milestones :
             jobs'[l][o] = IF l = "release-milestone-funds" /\ o = m THEN jobs[l][o] - 1 ELSE jobs[l][o]
      BY <2>1, TakeEffect DEF Release
    <2> QED
      BY <2>2
  <1>7. ASSUME createNext(p)
        PROVE  jobs'[k][1] = jobs[k][1]
    BY <1>7 DEF createNext
  <1>8. ASSUME createPayout(p)
        PROVE  jobs'[k][1] = jobs[k][1]
    BY <1>8 DEF createPayout
  <1>9. ASSUME readAgain(p)
        PROVE  jobs'[k][1] = jobs[k][1]
    BY <1>9 DEF readAgain
  <1>10. ASSUME save(p)
        PROVE  jobs'[k][1] = jobs[k][1]
    BY <1>10 DEF save
  <1>11. ASSUME saveEscrow(p)
        PROVE  jobs'[k][1] = jobs[k][1]
    BY <1>11 DEF saveEscrow
  <1>12. ASSUME refuse(p)
        PROVE  jobs'[k][1] = jobs[k][1]
    BY <1>12 DEF refuse
  <1>13. ASSUME queueJob(p)
        PROVE  jobs'[k][1] = jobs[k][1]
    <2>1. task[p].m \in Milestones
      BY DEF TypeOK
    <2>2. PICK l \in {"auto-approve-milestone", Release} :
              jobs' = [jobs EXCEPT ![l][task[p].m] = @ + 1]
      BY <1>13 DEF queueJob, Release
    <2> QED
      BY <2>1, <2>2, QueueEffect DEF Release
  <1>14. ASSUME checkEscrowCompletion(p)
        PROVE  jobs'[k][1] = jobs[k][1]
    BY <1>14 DEF checkEscrowCompletion
  <1>15. ASSUME fail(p)
        PROVE  jobs'[k][1] = jobs[k][1]
    BY <1>15 DEF fail
  <1>16. ASSUME stall(p)
        PROVE  jobs'[k][1] = jobs[k][1]
    <2>1. task[p].job # k
      BY <1>16, StallEffect
    <2>2. jobs[k][1] \in Nat
      BY DEF TypeOK
    <2> QED
      BY <1>16, <2>1, <2>2, StallEffect
  <1> QED
    BY <1>1, <1>2, <1>3, <1>4, <1>5, <1>6, <1>7, <1>8, <1>9, <1>10, <1>11,
       <1>12, <1>13, <1>14, <1>15, <1>16, UserCalls
    DEF HandlerStep, TakeAny, Continue

LEMMA ToCreateStep ==
    ASSUME Serial, SerialInv, NEW p \in Procs, HandlerStep(p)
    PROVE  ToCreate'
  <1> DEFINE k == "create-milestones"
  <1>t. TypeOK /\ Planning /\ task[p].m \in Milestones
    BY DEF SerialInv, PaidInv, IInv, TypeOK
  <1>u. \A m \in Milestones : status[m] # "under_review"
    BY DEF SerialInv, ApprovedOnce
  <1>c. Copies \subseteq Milestones /\ Copies \subseteq Nat
    BY ConstantsAssumption DEF Copies, Milestones
  <1>j. /\ jobs[k][1] \in {0, 1}
        /\ jobs'[k][1] \in {0, 1}
        /\ jobs'[k][1] = 1 => jobs[k][1] = 1
        /\ handleCreateMilestones(p) => jobs'[k][1] = 0
    BY <1>t, CreateJobs DEF SerialInv, ToCreate
  <1>1. ASSUME jobs'[k][1] = 1, NEW m \in Copies
        PROVE  status'[m] = "absent"
    <2>1. jobs[k][1] = 1 /\ status[m] = "absent"
      BY <1>j, <1>1 DEF SerialInv, ToCreate
    <2> SUFFICES ASSUME status'[m] # status[m]
                 PROVE  FALSE
      BY <2>1
    <2>2. save(p) /\ m = task[p].m /\ status'[m] = task[p].copy
      BY <1>t, <1>c, StatusChanges, SerialSaveEscrow
    <2>3. FreshSave(task[p].op, m, task[p].copy)
      BY <2>2, SerialSaves
    <2>4. task[p].op \in {"create", "createAll"}
      BY <2>1, <2>2, <2>3 DEF FreshSave, Saves
    <2>5. pc[p] = "save"
      BY <2>2 DEF save
    <2> QED
      BY <2>1, <2>2, <2>4, <2>5 DEF SerialInv, ToCreate
  <1> DEFINE Kept == /\ pc'[p] = "save" /\ task'[p].op = "create" => task'[p].m \notin Copies
                     /\ pc'[p] = "save" /\ task'[p].op = "createAll" =>
                           /\ jobs'[k][1] = 0
                           /\ \A m \in Copies : m >= task'[p].m => status'[m] = "absent"
                     /\ pc'[p] = "createNext" =>
                           /\ jobs'[k][1] = 0
                           /\ \A m \in Copies : m > task'[p].m => status'[m] = "absent"
  <1>2. Kept
    <2>d. ASSUME Done(p)
          PROVE  Kept
      BY <1>t, <2>d, DoneEffect
    <2> USE <1>t
    <2>1. ASSUME getEscrowById(p)
          PROVE  Kept
      <3>1. pc'[p] = "saveEscrow"
        BY <2>1 DEF getEscrowById, Goto, TypeOK
      <3> QED
        BY <3>1
    <2>2. ASSUME NEW op \in Operations \ {"createAll"}, NEW m \in Milestones,
                 NEW copy \in Stages, Request(p), ToSave(p, op, m, "none", copy),
                 FreshSave(op, m, copy), op = "create" => m \notin Copies
          PROVE  Kept
      <3>1. /\ task'[p].op = op /\ task'[p].m = m /\ pc'[p] = "save"
        BY <2>2 DEF ToSave, Goto, TypeOK
      <3> QED
        BY <2>2, <3>1
    <2>3. ASSUME handleCreateMilestones(p)
          PROVE  Kept
      <3>1. jobs[k][1] = 1 /\ jobs'[k][1] = 0 /\ status' = status
        BY <2>3, <1>j DEF handleCreateMilestones, TakeJob
      <3>2. task'[p].op = "createAll" /\ pc'[p] = "save"
        BY <2>3 DEF handleCreateMilestones, ToSave, Goto, TypeOK
      <3>3. \A m \in Copies : status[m] = "absent"
        BY <3>1 DEF SerialInv, ToCreate
      <3> QED
        BY <3>1, <3>2, <3>3
    <2>4. ASSUME NEW m \in Milestones, handleStartFirstMilestone(p, m)
          PROVE  Kept
      <3>1. CASE status[m] = "pending"
        <4>1. task'[p].op = "start" /\ pc'[p] = "save"
          BY <2>4, <3>1 DEF handleStartFirstMilestone, ToSave, Goto, TypeOK
        <4> QED
          BY <4>1
      <3>2. CASE status[m] # "pending"
        <4>1. pc'[p] = "idle"
          BY <2>4, <3>2 DEF handleStartFirstMilestone, TakeJob
        <4> QED
          BY <4>1
      <3> QED
        BY <3>1, <3>2
    <2>5. ASSUME NEW m \in Milestones, handleAutoApproveMilestone(p, m)
          PROVE  Kept
      <3>1. pc'[p] \in {"idle", "readAgain"}
        BY <2>5 DEF handleAutoApproveMilestone, TakeJob, Goto, TypeOK
      <3> QED
        BY <3>1
    <2>6. ASSUME NEW m \in Milestones, handleReleaseMilestoneFunds(p, m)
          PROVE  Kept
      <3>1. pc'[p] = "pay"
        BY <2>6 DEF handleReleaseMilestoneFunds, Goto, TypeOK
      <3> QED
        BY <3>1
    <2>7. ASSUME createNext(p)
          PROVE  Kept
      <3>1. CASE Done(p)
        BY <2>d, <3>1
      <3>2. CASE ~ Done(p)
        <4>1. /\ pc[p] = "createNext" /\ task[p].m + 1 \in Copies /\ status' = status
              /\ ToSave(p, "createAll", task[p].m + 1, "create-milestones", "pending")
              /\ jobs' = jobs
          BY <2>7, <3>2 DEF createNext
        <4>2. /\ task'[p].op = "createAll" /\ task'[p].m = task[p].m + 1 /\ pc'[p] = "save"
          BY <4>1 DEF ToSave, Goto, TypeOK
        <4>3. /\ jobs[k][1] = 0
              /\ \A m \in Copies : m > task[p].m => status[m] = "absent"
          BY <4>1 DEF SerialInv, ToCreate
        <4>4. \A m \in Copies : m >= task[p].m + 1 => m > task[p].m
          BY <1>c, ConstantsAssumption DEF Milestones
        <4> QED
          BY <4>1, <4>2, <4>3, <4>4
      <3> QED
        BY <3>1, <3>2
    <2>8. ASSUME createPayout(p)
          PROVE  Kept
      <3>1. pc'[p] = "readAgain"
        BY <2>8 DEF createPayout, Goto, TypeOK
      <3> QED
        BY <3>1
    <2>9. ASSUME readAgain(p)
          PROVE  Kept
      <3>1. CASE Done(p)
        BY <2>d, <3>1
      <3>2. CASE ~ Done(p)
        <4>1. PICK op \in {"approve", "release", "submit"},
                  copy \in {"approved", "completed", "submitted"} :
                  ToSave(p, op, task[p].m, task[p].job, copy)
          BY <2>9, <3>2 DEF readAgain
        <4>2. task'[p].op = op /\ pc'[p] = "save"
          BY <4>1 DEF ToSave, Goto, TypeOK
        <4> QED
          BY <4>2
      <3> QED
        BY <3>1, <3>2
    <2>10. ASSUME save(p)
          PROVE  Kept
      <3>1. PICK next \in AfterSave(task[p]) : IF next = "idle" THEN Done(p)
                                               ELSE Goto(p, next) /\ UNCHANGED task
        BY <2>10 DEF save
      <3>2. CASE next = "createNext"
        <4>1. task' = task /\ task[p].op = "createAll" /\ pc'[p] = "createNext" /\ jobs' = jobs
          BY <2>10, <3>1, <3>2 DEF AfterSave, Goto, TypeOK, save
        <4>2. /\ jobs[k][1] = 0
              /\ \A m \in Copies : m >= task[p].m => status[m] = "absent"
          BY <2>10, <4>1 DEF save, SerialInv, ToCreate
        <4>3. \A m \in Copies : m > task[p].m => status'[m] = "absent"
          <5>1. \A m \in Copies : m > task[p].m => m # task[p].m /\ m >= task[p].m
            <6>1. task[p].m \in Nat
              BY <2>10, SerialSaves, ConstantsAssumption DEF Milestones
            <6>2. \A m \in Copies : m \in Nat
              BY <1>c, ConstantsAssumption DEF Milestones
            <6> QED
              BY <6>1, <6>2
          <5> QED
            BY <2>10, <1>c, <4>2, <5>1, SerialSaves
        <4> QED
          BY <4>1, <4>2, <4>3
      <3>3. CASE next # "createNext"
        <4>1. pc'[p] \in {"queue", "readAgain", "idle"}
          BY <3>1, <3>3 DEF AfterSave, Done, Goto, TypeOK
        <4> QED
          BY <4>1
      <3> QED
        BY <3>2, <3>3
    <2>11. ASSUME saveEscrow(p)
          PROVE  Kept
      BY <2>11, <2>d DEF saveEscrow
    <2>12. ASSUME refuse(p)
          PROVE  Kept
      BY <2>12, <2>d DEF refuse
    <2>13. ASSUME queueJob(p)
          PROVE  Kept
      <3>1. pc'[p] \in {"idle", "check"}
        BY <2>13 DEF queueJob, Done, Goto, TypeOK
      <3> QED
        BY <3>1
    <2>14. ASSUME checkEscrowCompletion(p)
          PROVE  Kept
      BY <2>14, <2>d DEF checkEscrowCompletion
    <2>15. ASSUME fail(p)
          PROVE  Kept
      BY <2>15, <2>d DEF fail
    <2>16. ASSUME stall(p)
          PROVE  Kept
      BY <2>16, <2>d DEF stall
    <2> QED
      BY <2>1, <2>2, <2>3, <2>4, <2>5, <2>6, <2>7, <2>8, <2>9, <2>10, <2>11,
         <2>12, <2>13, <2>14, <2>15, <2>16, <1>u, SerialUserCalls
      DEF HandlerStep, TakeAny, Continue
  <1>3. \A q \in Procs : q = p
    BY DEF Serial
  <1> QED
    BY <1>j, <1>1, <1>2, <1>3 DEF ToCreate

LEMMA SerialStep ==
    ASSUME Serial, SerialInv, [Next]_vars
    PROVE  CopiesFresh' /\ ApprovedOnce' /\ ToCreate'
  <1>1. CASE UNCHANGED vars
    BY <1>1 DEF vars, SerialInv, CopiesFresh, ApprovedOnce, ToCreate
  <1>2. ASSUME NEW p \in Procs, HandlerStep(p)
        PROVE  CopiesFresh' /\ ApprovedOnce' /\ ToCreate'
    BY <1>2, FreshStep, ApprovedOnceStep, ToCreateStep
  <1> QED
    BY <1>1, <1>2 DEF Next, HandlerStep

LEMMA SerialInit == Init => CopiesFresh /\ ApprovedOnce /\ ToCreate
  <1> SUFFICES ASSUME Init
               PROVE  CopiesFresh /\ ApprovedOnce /\ ToCreate
    OBVIOUS
  <1>1. CopiesFresh /\ ApprovedOnce
    BY DEF Init, CopiesFresh, ApprovedOnce
  <1>2. "create-milestones" \in JobKinds /\ 1 \in Milestones
    BY ConstantsAssumption DEF JobKinds, Milestones
  <1>3. jobs["create-milestones"][1] \in {0, 1}
    BY <1>2 DEF Init
  <1>4. \A m \in Copies : m \in Milestones /\ m \notin Cascaded
    BY ConstantsAssumption DEF Copies, Cascaded, Milestones
  <1>5. \A m \in Copies : status[m] = "absent"
    BY <1>4 DEF Init
  <1>6. \A p \in Procs : pc[p] = "idle"
    BY DEF Init
  <1> QED
    BY <1>1, <1>3, <1>5, <1>6 DEF ToCreate

LEMMA SerialInvariance ==
    ASSUME Serial
    PROVE  Spec => []SerialInv
  <1>1. "completed" \notin EditStatuses
    BY DEF Serial
  <1>2. Init => SerialInv
    BY Initially, PaidInit, SerialInit DEF PaidInv, SerialInv
  <1>3. SerialInv /\ [Next]_vars => SerialInv'
    BY <1>1, Inductive, PaidStep, SerialStep DEF PaidInv, SerialInv
  <1> QED
    BY <1>2, <1>3, PTL DEF Spec

(* Without overlap a payment is the first one of an approved milestone.    *)
LEMMA PaymentImplements ==
    ASSUME SerialInv, Serial, NEW p \in Procs, createPayout(p)
    PROVE  Promise!Next
  <1> DEFINE m == task[p].m
  <1>t. TypeOK /\ m \in Milestones /\ Release \in JobKinds
    BY DEF SerialInv, PaidInv, IInv, TypeOK, Release, JobKinds
  <1>1. payouts[m] + jobs[Release][m] + Cardinality(Owing(m)) <= approvals[m] + stalls[Release][m]
    BY <1>t DEF SerialInv, PaidInv, IInv, AllBacked, Backed
  <1>2. stalls[Release][m] = 0 /\ payouts[m] \in Nat /\ jobs[Release][m] \in Nat
    BY <1>t DEF TypeOK, Serial
  <1>3. Cardinality(Owing(m)) \in Nat /\ Cardinality(Owing(m)) > 0
    <2>1. Owing(m) \in SUBSET Procs
      BY DEF Owing
    <2>2. p \in Owing(m)
      BY DEF createPayout, Owing, Owes
    <2>3. IsFiniteSet(Owing(m))
      BY <2>1, ConstantsAssumption, FS_Subset
    <2> QED
      BY <2>2, <2>3, FS_CardinalityType, FS_EmptySet
  <1>4. approvals[m] = IF status[m] \in {"approved", "completed"} THEN 1 ELSE 0
    BY <1>t DEF SerialInv, ApprovedOnce
  <1> HIDE DEF m
  <1>5. payouts[m] = 0 /\ status[m] \in {"approved", "completed"}
    BY <1>1, <1>2, <1>3, <1>4
  <1>6. status[m] = "approved"
    BY <1>t, <1>5 DEF SerialInv, PaidInv, CompletedIsPaid
  <1>7. payouts' = [payouts EXCEPT ![m] = 1] /\ status' = status
    BY <1>5, <1>t DEF createPayout, m, TypeOK
  <1> QED
    BY <1>t, <1>5, <1>6, <1>7 DEF Promise!Next, Promise!Pay

LEMMA SaveImplements ==
    ASSUME SerialInv, Serial, NEW p \in Procs, save(p)
    PROVE  Promise!Next \/ UNCHANGED <<status, payouts>>
  <1> DEFINE m == task[p].m
             op == task[p].op
             copy == task[p].copy
  <1>t. TypeOK /\ m \in Milestones /\ Release \in JobKinds
    BY DEF SerialInv, PaidInv, IInv, TypeOK, Release, JobKinds
  <1>1. /\ status' = [status EXCEPT ![m] = copy]
        /\ payouts' = payouts
        /\ FreshSave(op, m, copy)
    BY SerialSaves DEF save
  <1>2. op = "release" => payouts[m] = 1
    <2> SUFFICES ASSUME op = "release"
                 PROVE  payouts[m] = 1
      OBVIOUS
    <2>1. payouts[m] > 0
      BY DEF SerialInv, PaidInv, CopiesPaid, save
    <2>2. payouts[m] + jobs[Release][m] + Cardinality(Owing(m)) <= approvals[m] + stalls[Release][m]
      BY <1>t DEF SerialInv, PaidInv, IInv, AllBacked, Backed
    <2>3. stalls[Release][m] = 0 /\ payouts[m] \in Nat /\ jobs[Release][m] \in Nat
      BY <1>t DEF TypeOK, Serial
    <2>4. Owing(m) \in SUBSET Procs
      BY DEF Owing
    <2>5. Cardinality(Owing(m)) \in Nat
      BY <2>4, ConstantsAssumption, FS_Subset, FS_CardinalityType
    <2>6. approvals[m] \in {0, 1}
      BY <1>t DEF SerialInv, ApprovedOnce
    <2> QED
      BY <2>1, <2>2, <2>3, <2>5, <2>6
  <1>3. status \in [Milestones -> Stages]
    BY <1>t DEF TypeOK, Stages
  <1> HIDE DEF m, op, copy
  <1>4. CASE copy = status[m]
    BY <1>1, <1>3, <1>4
  <1>5. CASE op # "release" /\ <<op, status[m], copy>> \in Saves
    <2>1. Promise!Move(m, status[m], copy)
      BY <1>1 DEF Promise!Move
    <2>2. <<status[m], copy>> \in {<<"absent", "pending">>, <<"pending", "in_progress">>,
             <<"in_progress", "submitted">>, <<"submitted", "approved">>, <<"submitted", "rejected">>}
      BY <1>5 DEF Saves
    <2> QED
      BY <1>t, <2>1, <2>2 DEF Promise!Next
  <1>6. CASE op = "release" /\ <<op, status[m], copy>> \in Saves
    <2>1. status[m] = "approved" /\ copy = "completed"
      BY <1>6 DEF Saves
    <2>2. Promise!Complete(m)
      BY <1>1, <1>2, <1>6, <2>1 DEF Promise!Complete, Promise!Move
    <2> QED
      BY <1>t, <2>2 DEF Promise!Next
  <1> QED
    BY <1>1, <1>4, <1>5, <1>6 DEF FreshSave

LEMMA OthersKeep ==
    ASSUME SerialInv, NEW p \in Procs, HandlerStep(p), ~ save(p), ~ createPayout(p)
    PROVE  UNCHANGED <<status, payouts>>
  <1>t. TypeOK
    BY DEF SerialInv, PaidInv, IInv
  <1>1. ASSUME getEscrowById(p)
        PROVE  UNCHANGED <<status, payouts>>
    BY <1>1 DEF getEscrowById, Request
  <1>2. ASSUME NEW op \in Operations, NEW m \in Milestones, NEW copy \in Stages,
               UserSave(p, op, m, copy)
        PROVE  UNCHANGED <<status, payouts>>
    BY <1>2 DEF UserSave, Request
  <1>3. ASSUME handleCreateMilestones(p)
        PROVE  UNCHANGED <<status, payouts>>
    BY <1>3 DEF handleCreateMilestones, TakeJob
  <1>4. ASSUME NEW m \in Milestones, handleStartFirstMilestone(p, m)
        PROVE  UNCHANGED <<status, payouts>>
    BY <1>4 DEF handleStartFirstMilestone, TakeJob
  <1>5. ASSUME NEW m \in Milestones, handleAutoApproveMilestone(p, m)
        PROVE  UNCHANGED <<status, payouts>>
    BY <1>5 DEF handleAutoApproveMilestone, TakeJob
  <1>6. ASSUME NEW m \in Milestones, handleReleaseMilestoneFunds(p, m)
        PROVE  UNCHANGED <<status, payouts>>
    BY <1>6 DEF handleReleaseMilestoneFunds, TakeJob
  <1>7. ASSUME createNext(p)
        PROVE  UNCHANGED <<status, payouts>>
    BY <1>7 DEF createNext
  <1>8. ASSUME createPayout(p)
        PROVE  UNCHANGED <<status, payouts>>
    BY <1>8
  <1>9. ASSUME readAgain(p)
        PROVE  UNCHANGED <<status, payouts>>
    BY <1>9 DEF readAgain
  <1>10. ASSUME save(p)
        PROVE  UNCHANGED <<status, payouts>>
    BY <1>10
  <1>11. ASSUME saveEscrow(p)
        PROVE  UNCHANGED <<status, payouts>>
    BY <1>11, SerialSaveEscrow DEF saveEscrow
  <1>12. ASSUME refuse(p)
        PROVE  UNCHANGED <<status, payouts>>
    BY <1>12 DEF refuse
  <1>13. ASSUME queueJob(p)
        PROVE  UNCHANGED <<status, payouts>>
    BY <1>13 DEF queueJob
  <1>14. ASSUME checkEscrowCompletion(p)
        PROVE  UNCHANGED <<status, payouts>>
    BY <1>14 DEF checkEscrowCompletion
  <1>15. ASSUME fail(p)
        PROVE  UNCHANGED <<status, payouts>>
    BY <1>15 DEF fail
  <1>16. ASSUME stall(p)
        PROVE  UNCHANGED <<status, payouts>>
    BY <1>16 DEF stall
  <1> QED
    BY <1>1, <1>2, <1>3, <1>4, <1>5, <1>6, <1>7, <1>8, <1>9, <1>10, <1>11,
       <1>12, <1>13, <1>14, <1>15, <1>16, <1>t, UserCalls
    DEF HandlerStep, TakeAny, Continue

(* With one handler at a time, no re-runs and no status set by hand, the   *)
(* milestone service implements MilestoneLifecycle: its callers and its    *)
(* jobs, refused or failing ones included, make only the moves of the life *)
(* cycle, pay an approved milestone once, and complete it after that.      *)
THEOREM ImplementsMilestones ==
    ASSUME Serial
    PROVE  Spec => PromiseSpec
  <1>1. Init => Promise!Init
    BY DEF Init, Promise!Init
  <1>2. SerialInv /\ [Next]_vars => [Promise!Next]_<<status, payouts>>
    <2> SUFFICES ASSUME SerialInv, [Next]_vars
                 PROVE  Promise!Next \/ UNCHANGED <<status, payouts>>
      OBVIOUS
    <2>1. CASE UNCHANGED vars
      BY <2>1 DEF vars
    <2>2. ASSUME NEW p \in Procs, HandlerStep(p)
          PROVE  Promise!Next \/ UNCHANGED <<status, payouts>>
      BY <2>2, PaymentImplements, SaveImplements, OthersKeep
    <2> QED
      BY <2>1, <2>2 DEF Next, HandlerStep
  <1> QED
    BY <1>1, <1>2, SerialInvariance, PTL DEF Spec, PromiseSpec, Promise!Spec, Promise!vars
================================================================================
