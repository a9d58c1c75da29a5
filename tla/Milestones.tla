------------------------------ MODULE Milestones ------------------------------
(***************************************************************************)
(* MilestoneService and the jobs that call it: create-milestones and       *)
(* start-first-milestone of escrow-queue, auto-approve-milestone and       *)
(* release-milestone-funds of milestone-queue, for one escrow.             *)
(*                                                                         *)
(* A handler reads the milestone, checks its status, changes its copy and  *)
(* saves the whole copy; every await in between lets others run.           *)
(***************************************************************************)
EXTENDS Naturals, FiniteSets

CONSTANTS Last,             \* the ids of the escrow's milestones are 1..Last
          Planned,          \* how many milestones createEscrow was given
          AutoApprove,      \* those with autoApprove and a delay
          EditStatuses,     \* the statuses UpdateMilestoneDto is sent with
          Procs,            \* the handlers that can be in flight at a time
          MaxStalledCount,  \* Bull: how often a job whose worker died is run again
          MaxRequests       \* bound: requests of users

Milestones == 1..Last

MilestoneStatus == {"pending", "in_progress", "submitted", "under_review",
                    "approved", "rejected", "completed", "cancelled"}

ASSUME ConstantsAssumption ==
    /\ Last \in Nat \ {0}
    /\ Planned \in Nat /\ 2 * Planned <= Last
    /\ AutoApprove \subseteq Milestones
    /\ EditStatuses \subseteq MilestoneStatus
    /\ IsFiniteSet(Procs)
    /\ MaxStalledCount \in Nat
    /\ MaxRequests \in Nat

VARIABLES systemStored, \* do the uuid columns store the actor "system"?
          unreliable,  \* may calls be rejected and processes die?
          status,      \* the status column of each milestone
          pc,          \* where each handler stands
          task,        \* its operation, milestone, job if any, copied status
                       \* and, if it read the escrow, the statuses of all
          jobs,        \* waiting jobs of each kind and milestone
          completions, \* complete-escrow jobs on milestone-queue
          payouts,     \* partial_release transactions created for a milestone
          approvals,   \* how often an approval of it was saved
          stalls,      \* how often a job of a kind was run again for it
          requests     \* requests of users so far

setting == <<systemStored, unreliable>>
vars == <<setting, status, pc, task, jobs, completions, payouts, approvals, stalls, requests>>

JobKinds == {"create-milestones", "start-first-milestone", "auto-approve-milestone",
             "release-milestone-funds"}

(* The milestones createEscrow is given are stored twice: with the escrow, *)
(* whose entity cascades to them (ids up to Planned), and by the job       *)
(* create-milestones, with the same orders.  Users add the others.         *)
Cascaded == 1..Planned
Copies   == Planned + 1 .. 2 * Planned
order(m) == IF m \in Copies THEN m - Planned ELSE m

(* createEscrow queued create-milestones if it was given milestones, and   *)
(* fundEscrow start-first-milestone.                                       *)
Queued(kind) == \/ kind = "create-milestones" /\ Planned > 0
                \/ kind = "start-first-milestone"

NoCopies == [m \in Milestones |-> "absent"]
NoTask   == [op |-> "none", m |-> 1, job |-> "none", copy |-> "absent", all |-> NoCopies]

(* The setting is any, and does not change.                                *)
Init ==
    /\ systemStored \in BOOLEAN
    /\ unreliable \in BOOLEAN
    /\ status = [m \in Milestones |-> IF m \in Cascaded THEN "pending" ELSE "absent"]
    /\ pc = [p \in Procs |-> "idle"]
    /\ task = [p \in Procs |-> NoTask]
    /\ jobs = [k \in JobKinds |-> [m \in Milestones |->
                  IF Queued(k) /\ m = 1 THEN 1 ELSE 0]]
    /\ completions = 0
    /\ payouts = [m \in Milestones |-> 0]
    /\ approvals = [m \in Milestones |-> 0]
    /\ stalls = [k \in JobKinds |-> [m \in Milestones |-> 0]]
    /\ requests = 0
-----------------------------------------------------------------------------
Goto(p, label) == pc' = [pc EXCEPT ![p] = label]
Done(p) == Goto(p, "idle") /\ task' = [task EXCEPT ![p] = NoTask]

(* The handler has read m and changed its copy; the save comes next.       *)
ToSave(p, op, m, job, copy) ==
    /\ task' = [task EXCEPT ![p] = [op |-> op, m |-> m, job |-> job, copy |-> copy,
                                    all |-> NoCopies]]
    /\ Goto(p, "save")

(* A user's call of the milestone controller.                              *)
Request(p) == /\ pc[p] = "idle"
              /\ requests < MaxRequests
              /\ requests' = requests + 1
              /\ UNCHANGED <<setting, status, jobs, completions, payouts, approvals, stalls>>

createMilestone(p, m) ==
    /\ status[m] = "absent"
    /\ m \notin Copies
    /\ \A q \in Procs : task[q].op = "create" => task[q].m # m
    /\ Request(p)
    /\ ToSave(p, "create", m, "none", "pending")

startMilestone(p, m) ==
    /\ status[m] = "pending"
    /\ Request(p)
    /\ ToSave(p, "start", m, "none", "in_progress")

submitMilestone(p, m) ==
    /\ status[m] = "in_progress"
    /\ Request(p)
    /\ ToSave(p, "submit", m, "none", "submitted")

Reviewable == {"submitted", "under_review"}

(* A slip in approveMilestone: the payment is queued before the approval   *)
(* is saved.                                                               *)
QueueBeforeSave(p, m) ==
    /\ status[m] \in Reviewable
    /\ pc[p] = "idle"
    /\ requests < MaxRequests
    /\ requests' = requests + 1
    /\ jobs' = [jobs EXCEPT !["release-milestone-funds"][m] = @ + 1]
    /\ ToSave(p, "approve", m, "none", "approved")
    /\ UNCHANGED <<setting, status, completions, payouts, approvals, stalls>>

(* A slip in approveMilestone: its status check is left to the guard.      *)
ApproveAny(p, m) ==
    /\ status[m] # "absent"
    /\ Request(p)
    /\ ToSave(p, "approve", m, "none", "approved")

approveMilestone(p, m) ==
    /\ status[m] \in Reviewable
    /\ Request(p)
    /\ ToSave(p, "approve", m, "none", "approved")

rejectMilestone(p, m) ==
    /\ status[m] \in Reviewable
    /\ Request(p)
    /\ ToSave(p, "reject", m, "none", "rejected")

(* updateMilestone looks at no status and can set any.                     *)
updateMilestone(p, m) ==
    /\ status[m] # "absent"
    /\ Request(p)
    /\ \E s \in {status[m]} \cup EditStatuses : ToSave(p, "edit", m, "none", s)

updateRequirement(p, m) ==
    /\ status[m] # "absent"
    /\ Request(p)
    /\ ToSave(p, "requirement", m, "none", status[m])
(* EscrowService reads the escrow with its milestones, changes the escrow  *)
(* and saves it with the milestones as they were.                          *)
getEscrowById(p) ==
    /\ Request(p)
    /\ task' = [task EXCEPT ![p] = [NoTask EXCEPT !.op = "escrow", !.all = status]]
    /\ Goto(p, "saveEscrow")
-----------------------------------------------------------------------------
(* A worker takes a waiting job, reads the milestone and goes on.          *)
TakeJob(p, kind, m) ==
    /\ pc[p] = "idle"
    /\ jobs[kind][m] > 0
    /\ jobs' = [jobs EXCEPT ![kind][m] = @ - 1]
    /\ UNCHANGED <<setting, status, completions, payouts, approvals, stalls, requests>>

(* The create-milestones job: one createMilestone after the other.         *)
handleCreateMilestones(p) ==
    /\ TakeJob(p, "create-milestones", 1)
    /\ ToSave(p, "createAll", Planned + 1, "create-milestones", "pending")

(* The audit of a milestone the job created, as "system": where it is      *)
(* refused the job ends with the milestones created so far.                *)
createNext(p) ==
    /\ pc[p] = "createNext"
    /\ IF systemStored /\ task[p].m + 1 \in Copies
       THEN ToSave(p, "createAll", task[p].m + 1, "create-milestones", "pending")
       ELSE Done(p)
    /\ UNCHANGED <<setting, status, jobs, completions, payouts, approvals, stalls, requests>>

(* Of several milestones with the order 1 any may be found first.          *)
handleStartFirstMilestone(p, m) ==
    /\ order(m) = 1
    /\ status[m] = "absent" => \A n \in Milestones : order(n) = 1 => status[n] = "absent"
    /\ TakeJob(p, "start-first-milestone", 1)
    /\ IF status[m] = "pending"
       THEN ToSave(p, "start", m, "start-first-milestone", "in_progress")
       ELSE UNCHANGED <<pc, task>>

(* The delay is over: the job checks that m is still submitted, and then   *)
(* approveMilestone reads m again.                                         *)
handleAutoApproveMilestone(p, m) ==
    /\ TakeJob(p, "auto-approve-milestone", m)
    /\ IF status[m] = "submitted"
       THEN /\ task' = [task EXCEPT ![p] = [op |-> "autoApprove", m |-> m,
                                            job |-> "auto-approve-milestone",
                                            copy |-> "submitted", all |-> NoCopies]]
            /\ Goto(p, "readAgain")
       ELSE UNCHANGED <<pc, task>>

(* A slip in handleReleaseMilestoneFunds: it completes the milestone first, *)
(* so that the payment, which would follow, may never come.                *)
CompleteBeforePay(p, m) ==
    /\ TakeJob(p, "release-milestone-funds", m)
    /\ task' = [task EXCEPT ![p] = [op |-> "release", m |-> m,
                                    job |-> "release-milestone-funds",
                                    copy |-> status[m], all |-> NoCopies]]
    /\ Goto(p, "readAgain")

handleReleaseMilestoneFunds(p, m) ==
    /\ TakeJob(p, "release-milestone-funds", m)
    /\ task' = [task EXCEPT ![p] = [op |-> "release", m |-> m,
                                    job |-> "release-milestone-funds",
                                    copy |-> status[m], all |-> NoCopies]]
    /\ Goto(p, "pay")

(* createTransaction of the release job; a waiting completeMilestone next. *)
createPayout(p) ==
    /\ pc[p] = "pay"
    /\ payouts' = [payouts EXCEPT ![task[p].m] = @ + 1]
    /\ Goto(p, "readAgain")
    /\ UNCHANGED <<setting, status, task, jobs, completions, approvals, stalls, requests>>

(* The second service call of a handler reads m afresh and checks it:      *)
(* approveMilestone of the auto-approval, completeMilestone of the release, *)
(* submitMilestone of a requirement that was the last one open.            *)
readAgain(p) ==
    LET t == task[p] IN
    /\ pc[p] = "readAgain"
    /\ \/ /\ t.op = "autoApprove" /\ status[t.m] \in Reviewable
          /\ ToSave(p, "approve", t.m, t.job, "approved")
       \/ /\ t.op = "release" /\ status[t.m] = "approved"
          /\ ToSave(p, "release", t.m, t.job, "completed")
       \/ /\ t.op = "requirement" /\ status[t.m] = "in_progress"
          /\ ToSave(p, "submit", t.m, t.job, "submitted")
       \/ /\ \/ t.op = "autoApprove" /\ status[t.m] \notin Reviewable
             \/ t.op = "release" /\ status[t.m] # "approved"
             \/ t.op = "requirement" /\ status[t.m] # "in_progress"
          /\ Done(p)
    /\ UNCHANGED <<setting, status, jobs, completions, payouts, approvals, stalls, requests>>
-----------------------------------------------------------------------------
(* milestoneRepository.save.  approvedBy is a uuid column: an approval by  *)
(* "system" is refused if such columns do not store it.                    *)
CanSave(t) == t.op = "approve" /\ t.job # "none" => systemStored

(* A slip in submitMilestone and approveMilestone: nothing is queued.      *)
NothingQueued(t) ==
    CASE t.op = "createAll"                             -> {"createNext"}
      [] t.op = "approve"                               -> {"check"}
      [] t.op = "requirement" /\ t.copy = "in_progress" -> {"readAgain", "idle"}
      [] OTHER                                          -> {"idle"}

(* What the handler has left to do once its copy is saved.                 *)
AfterSave(t) ==
    CASE t.op = "createAll"                            -> {"createNext"}
      [] t.op = "submit" /\ t.m \in AutoApprove        -> {"queue"}
      [] t.op = "approve"                              -> {"queue"}
      [] t.op = "requirement" /\ t.copy = "in_progress" -> {"readAgain", "idle"}
      [] OTHER                                         -> {"idle"}

save(p) ==
    LET t == task[p] IN
    /\ pc[p] = "save"
    /\ CanSave(t)
    /\ status' = [status EXCEPT ![t.m] = t.copy]
    /\ approvals' = [approvals EXCEPT ![t.m] = IF t.op = "approve" THEN @ + 1 ELSE @]
    /\ \E next \in AfterSave(t) : IF next = "idle" THEN Done(p)
                                  ELSE Goto(p, next) /\ UNCHANGED task
    /\ UNCHANGED <<setting, jobs, completions, payouts, stalls, requests>>

(* escrowRepository.save cascades to the milestones.  One created since    *)
(* the read is no part of what is saved: TypeORM would clear its escrowId, *)
(* which is not nullable, and the save throws.                             *)
saveEscrow(p) ==
    LET created == \E m \in Milestones : task[p].all[m] = "absent" /\ status[m] # "absent"
    IN  /\ pc[p] = "saveEscrow"
        /\ status' = IF created THEN status ELSE task[p].all
        /\ Done(p)
        /\ UNCHANGED <<setting, jobs, completions, payouts, approvals, stalls, requests>>

(* approvedBy "system" is refused: the handler throws.                     *)
refuse(p) ==
    /\ pc[p] = "save"
    /\ ~CanSave(task[p])
    /\ Done(p)
    /\ UNCHANGED <<setting, status, jobs, completions, payouts, approvals, stalls, requests>>

queueJob(p) ==
    LET t == task[p] IN
    /\ pc[p] = "queue"
    /\ \/ /\ t.op = "submit"
          /\ jobs' = [jobs EXCEPT !["auto-approve-milestone"][t.m] = @ + 1]
          /\ Done(p)
       \/ /\ t.op = "approve"
          /\ jobs' = [jobs EXCEPT !["release-milestone-funds"][t.m] = @ + 1]
          /\ Goto(p, "check") /\ UNCHANGED task
    /\ UNCHANGED <<setting, status, completions, payouts, approvals, stalls, requests>>

(* checkEscrowCompletion, the end of approveMilestone.                     *)
checkEscrowCompletion(p) ==
    /\ pc[p] = "check"
    /\ completions' = IF \A m \in Milestones : status[m] \in {"completed", "absent"}
                      THEN completions + 1 ELSE completions
    /\ Done(p)
    /\ UNCHANGED <<setting, status, jobs, payouts, approvals, stalls, requests>>

(* A call is rejected, or the process dies and the job is not run again.   *)
fail(p) ==
    /\ unreliable
    /\ pc[p] # "idle"
    /\ Done(p)
    /\ UNCHANGED <<setting, status, jobs, completions, payouts, approvals, stalls, requests>>

(* A slip in the queue's options: a stalled job is run again without end.  *)
StallForEver(p) ==
    LET t == task[p] IN
    /\ unreliable
    /\ t.job \notin {"none", "create-milestones"}
    /\ stalls' = [stalls EXCEPT ![t.job][t.m] = @ + 1]
    /\ jobs' = [jobs EXCEPT ![t.job][t.m] = @ + 1]
    /\ Done(p)
    /\ UNCHANGED <<setting, status, completions, payouts, approvals, requests>>

(* The process dies while it runs a job, and Bull runs the job again.  (A  *)
(* re-run of create-milestones inserts rows this module has no names for.) *)
stall(p) ==
    LET t == task[p] IN
    /\ unreliable
    /\ t.job \notin {"none", "create-milestones"}
    /\ stalls[t.job][t.m] < MaxStalledCount
    /\ stalls' = [stalls EXCEPT ![t.job][t.m] = @ + 1]
    /\ jobs' = [jobs EXCEPT ![t.job][t.m] = @ + 1]
    /\ Done(p)
    /\ UNCHANGED <<setting, status, completions, payouts, approvals, requests>>
-----------------------------------------------------------------------------
UserCall(p) == \/ getEscrowById(p)
               \/ \E m \in Milestones : \/ createMilestone(p, m)
                                        \/ startMilestone(p, m)
                                        \/ submitMilestone(p, m)
                                        \/ approveMilestone(p, m)
                                        \/ rejectMilestone(p, m)
                                        \/ updateMilestone(p, m)
                                        \/ updateRequirement(p, m)

TakeAny(p) == \/ handleCreateMilestones(p)
              \/ \E m \in Milestones : \/ handleStartFirstMilestone(p, m)
                                       \/ handleAutoApproveMilestone(p, m)
                                       \/ handleReleaseMilestoneFunds(p, m)

Continue(p) == \/ createNext(p)
               \/ createPayout(p)
               \/ readAgain(p)
               \/ save(p)
               \/ saveEscrow(p)
               \/ refuse(p)
               \/ queueJob(p)
               \/ checkEscrowCompletion(p)

Next == \E p \in Procs : \/ UserCall(p)
                         \/ TakeAny(p)
                         \/ Continue(p)
                         \/ fail(p)
                         \/ stall(p)

Spec == Init /\ [][Next]_vars

(* A handler whose call is not rejected goes on, and Bull hands every      *)
(* waiting job to a worker that is free time and again.                    *)
FairSpec ==
    /\ Spec
    /\ \A p \in Procs : WF_vars(Continue(p)) /\ SF_vars(TakeAny(p))
-----------------------------------------------------------------------------
Operations == {"none", "create", "createAll", "start", "submit", "approve", "autoApprove",
               "reject", "edit", "requirement", "release", "escrow"}

TypeOK ==
    /\ systemStored \in BOOLEAN
    /\ unreliable \in BOOLEAN
    /\ status \in [Milestones -> MilestoneStatus \cup {"absent"}]
    /\ pc \in [Procs -> {"idle", "save", "saveEscrow", "createNext", "pay", "readAgain", "queue", "check"}]
    /\ task \in [Procs -> [op : Operations, m : Milestones, job : JobKinds \cup {"none"},
                           copy : MilestoneStatus \cup {"absent"},
                           all : [Milestones -> MilestoneStatus \cup {"absent"}]]]
    /\ jobs \in [JobKinds -> [Milestones -> Nat]]
    /\ completions \in Nat
    /\ payouts \in [Milestones -> Nat]
    /\ approvals \in [Milestones -> Nat]
    /\ stalls \in [JobKinds -> [Milestones -> 0..MaxStalledCount]]
    /\ requests \in 0..MaxRequests

(* Money leaves the escrow for a milestone only after an approval of it    *)
(* was saved, once for each such approval and once more for each re-run of *)
(* its release job: approveMilestone saves before it queues the release.   *)
PaidOnApproval == \A m \in Milestones : payouts[m] <=
    approvals[m] + stalls["release-milestone-funds"][m]

(* A completed milestone has been paid: the release job creates the        *)
(* transaction first, and no stale copy says "completed" before that.      *)
CompletedIsPaid == \A m \in Milestones : status[m] = "completed" => payouts[m] > 0

(* The service as its callers see it, when handlers do not overlap.  The   *)
(* milestones stored with the escrow are there from the start.             *)
Promise == INSTANCE MilestoneLifecycle
           WITH stage <- status, paid <- payouts, Stored <- Cascaded
PromiseSpec == Promise!Spec

(* An approved milestone is paid and completed, whoever approved it,       *)
(* provided nothing dies and handlers do not overlap.                      *)
ApprovedGetsCompleted ==
    ~unreliable => \A m \in Milestones : status[m] = "approved" ~> status[m] = "completed"
=============================================================================
