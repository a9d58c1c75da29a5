----------------------------- MODULE EscrowFunds -----------------------------
(***************************************************************************)
(* EscrowService: the handlers that move the status and the money columns  *)
(* of an escrow row.  Every handler reads the row, checks it, changes its  *)
(* copy, saves the copy and only then queues jobs, writes the audit log    *)
(* and notifies; each of those is an await, so handlers interleave there.  *)
(* TypeORM's save writes back every column in which the copy differs from  *)
(* the row: for a copy that is out of date that is the whole copy.         *)
(***************************************************************************)
EXTENDS Integers, EscrowStates

CONSTANTS Escrows,       \* the escrows (ids are generated, hence never reused)
          Procs,         \* the handlers that can be in flight at a time
          Total,         \* the totalAmount of every escrow
          BulkStatuses,  \* the statuses bulk updates carry
          MaxRequests    \* bound: requests made in a behaviour

ASSUME ConstantsAssumption ==
    /\ Escrows # {}
    /\ Total \in Nat \ {0}
    /\ BulkStatuses \subseteq EscrowStatus
    /\ MaxRequests \in Nat

VARIABLES rows,      \* the table escrows: the columns the handlers compute with
          pc,        \* where each handler stands
          task,      \* what each handler in flight holds in its local variables
          ledger,    \* the money of the create-transaction jobs put on escrow-queue,
                     \* and of the payments saved but not queued (yet, or never)
          jobs,      \* the other jobs put on escrow-queue
          audit,     \* the actions the audit log has for each escrow
          requests   \* the number of requests made so far

vars == <<rows, pc, task, ledger, jobs, audit, requests>>

NoRow  == [status |-> "absent", locked |-> 0, released |-> 0, multi |-> FALSE]
NoTask == [op |-> "none", escrow |-> CHOOSE e \in Escrows : TRUE,
           row |-> NoRow, amount |-> 0]

Init ==
    /\ rows = [e \in Escrows |-> NoRow]
    /\ pc = [p \in Procs |-> "idle"]
    /\ task = [p \in Procs |-> NoTask]
    /\ ledger = [e \in Escrows |-> [deposit |-> 0, due |-> 0, release |-> 0, refund |-> 0]]
    /\ jobs = {}
    /\ audit = [e \in Escrows |-> {}]
    /\ requests = 0
-----------------------------------------------------------------------------
(* A handler has read its row, passed its checks and changed its copy: the *)
(* next thing it does is to save it.                                       *)
Begin(p, op, e, row, amount) ==
    /\ pc[p] = "idle"
    /\ requests < MaxRequests
    /\ requests' = requests + 1
    /\ pc' = [pc EXCEPT ![p] = "save"]
    /\ task' = [task EXCEPT ![p] = [op |-> op, escrow |-> e, row |-> row, amount |-> amount]]
    /\ UNCHANGED <<rows, ledger, jobs, audit>>

(* The handler of p returns or throws.                                     *)
Done(p) == /\ pc' = [pc EXCEPT ![p] = "idle"]
           /\ task' = [task EXCEPT ![p] = NoTask]

createEscrow(p, e) ==
    /\ rows[e] = NoRow
    /\ \A q \in Procs : pc[q] # "idle" => task[q].escrow # e
    /\ \E multi \in BOOLEAN :
          Begin(p, "create", e, [NoRow EXCEPT !.status = "created", !.multi = multi], 0)

(* PUT /escrows/:id, the deploy-smart-contract job and the job of a bulk   *)
(* update; only the last carries a status.                                 *)
updateEscrow(p, e) ==
    /\ rows[e] # NoRow
    /\ rows[e].status \notin Frozen
    /\ \E s \in {rows[e].status} \cup BulkStatuses :
          Begin(p, "update", e, [rows[e] EXCEPT !.status = s], 0)

fundEscrow(p, e) ==
    /\ canTransitionTo(rows[e].status, "funded")
    /\ Begin(p, "fund", e, [rows[e] EXCEPT !.status = "funded", !.locked = Total], Total)

(* A slip in validateFundRelease: the amount is not compared.              *)
NoAmountCheck(row, amount) == row.locked > 0 /\ row.status \in Releasable

(* A slip in validateFundRelease: the status is not looked at.             *)
NoStatusCheck(row, amount) == row.locked > 0 /\ amount <= row.locked

validateFundRelease(row, amount) ==
    /\ row.locked > 0
    /\ amount <= row.locked
    /\ row.status \in Releasable

(* releasedAmount is a decimal column, which the driver returns as text:   *)
(* += appends the digits of the amount to four decimals, and storing the   *)
(* text rounds it to four decimals again.  What is left of an integer      *)
(* amount is one unit of the last decimal, if its first digit is 5 or more. *)
FirstDigit[n \in Nat] == IF n < 10 THEN n ELSE FirstDigit[n \div 10]

Appended(amount) == IF FirstDigit[amount] >= 5 THEN 1 ELSE 0

(* A slip in releaseEscrowFunds: it completes below zero, not at zero.     *)
CompletesBelowZero(row, amount) ==
    [row EXCEPT !.locked = @ - amount,
                !.status = IF row.locked - amount < 0 THEN "completed" ELSE @]

(* A slip in releaseEscrowFunds: a last release leaves lockedAmount alone.  *)
KeepsLocked(row, amount) ==
    [row EXCEPT !.locked = IF @ = amount THEN @ ELSE @ - amount]

AfterRelease(row, amount) ==
    [row EXCEPT !.released = @ + Appended(amount),
                !.locked   = @ - amount,
                !.status   = IF row.locked - amount <= 0 THEN "completed" ELSE @]

releaseEscrowFunds(p, e) ==
    \E amount \in 1..Total :
        /\ validateFundRelease(rows[e], amount)
        /\ Begin(p, "release", e, AfterRelease(rows[e], amount), amount)

(* Without an amount the release is of lockedAmount, text as well: the two *)
(* texts joined have two decimal points and the database refuses the row.  *)
releaseAll(p, e) ==
    /\ validateFundRelease(rows[e], rows[e].locked)
    /\ Begin(p, "releaseAll", e, rows[e], rows[e].locked)

cancelEscrow(p, e) ==
    /\ canTransitionTo(rows[e].status, "cancelled")
    /\ Begin(p, "cancel", e, [rows[e] EXCEPT !.status = "cancelled"], rows[e].locked)
-----------------------------------------------------------------------------
(* The operations that pay money out of the escrow.                        *)
Payments == {"release", "cancel"}

(* A slip in the handlers: the audit log comes before the transaction job.  *)
AuditFirst(p) ==
    /\ pc[p] = "save"
    /\ task[p].op # "releaseAll"
    /\ rows' = [rows EXCEPT ![task[p].escrow] = task[p].row]
    /\ pc' = [pc EXCEPT ![p] = "audit"]
    /\ UNCHANGED <<task, ledger, jobs, audit, requests>>

(* A slip in releaseEscrowFunds: the amount is subtracted in the database,  *)
(* the status still comes from the copy.                                   *)
SubtractInPlace(p) ==
    LET t == task[p] IN
    /\ pc[p] = "save"
    /\ rows' = [rows EXCEPT ![t.escrow] =
                  IF t.op = "release" /\ @.locked >= t.amount
                  THEN [t.row EXCEPT !.locked = rows[t.escrow].locked - t.amount]
                  ELSE t.row]
    /\ pc' = [pc EXCEPT ![p] = "queue"]
    /\ UNCHANGED <<task, ledger, jobs, audit, requests>>

(* escrowRepository.save: the row becomes the copy.                        *)
save(p) ==
    /\ pc[p] = "save"
    /\ task[p].op # "releaseAll"
    /\ rows' = [rows EXCEPT ![task[p].escrow] = task[p].row]
    /\ pc' = [pc EXCEPT ![p] =
                IF \/ task[p].op = "update"
                   \/ task[p].op = "cancel" /\ task[p].amount = 0
                THEN "audit" ELSE "queue"]
    /\ ledger' = IF task[p].op \in Payments
                 THEN [ledger EXCEPT ![task[p].escrow].due = @ + task[p].amount]
                 ELSE ledger
    /\ UNCHANGED <<task, jobs, audit, requests>>

(* escrowQueue.add("create-transaction", ...) of a fund, release or cancel. *)
queueTransaction(p) ==
    LET t == task[p] IN
    /\ pc[p] = "queue"
    /\ \/ /\ t.op = "fund"
          /\ ledger' = [ledger EXCEPT ![t.escrow].deposit = @ + t.amount]
       \/ /\ t.op = "release"
          /\ ledger' = [ledger EXCEPT ![t.escrow].release = @ + t.amount,
                                      ![t.escrow].due     = @ - t.amount]
       \/ /\ t.op = "cancel"
          /\ ledger' = [ledger EXCEPT ![t.escrow].refund = @ + t.amount,
                                      ![t.escrow].due    = @ - t.amount]
    /\ pc' = [pc EXCEPT ![p] = "audit"]
    /\ UNCHANGED <<rows, task, jobs, audit, requests>>

(* The create-milestones job of a new escrow, if it came with milestones.  *)
(* The jobs for conditions and participants have no handler.               *)
queueMilestones(p) ==
    /\ pc[p] = "queue"
    /\ task[p].op = "create"
    /\ \/ jobs' = jobs \cup {<<task[p].escrow, "create-milestones">>}
       \/ UNCHANGED jobs
    /\ pc' = [pc EXCEPT ![p] = "audit"]
    /\ UNCHANGED <<rows, task, ledger, audit, requests>>

logAction(p) ==
    LET t == task[p] IN
    /\ pc[p] = "audit"
    /\ audit' = [audit EXCEPT ![t.escrow] = @ \cup {t.op}]
    /\ IF t.op = "update"
       THEN Done(p)
       ELSE pc' = [pc EXCEPT ![p] = "notify"] /\ UNCHANGED task
    /\ UNCHANGED <<rows, ledger, jobs, requests>>

(* The notification; a new escrow and the funding of one with several      *)
(* milestones still have a job to queue.                                   *)
notify(p) ==
    LET t == task[p] IN
    /\ pc[p] = "notify"
    /\ IF t.op = "create" \/ (t.op = "fund" /\ t.row.multi)
       THEN pc' = [pc EXCEPT ![p] = "after"] /\ UNCHANGED task
       ELSE Done(p)
    /\ UNCHANGED <<rows, ledger, jobs, audit, requests>>

(* start-first-milestone after a funding; deploy-smart-contract after the  *)
(* creation of an escrow that is not simple.                               *)
queueFollowUp(p) ==
    LET t == task[p] IN
    /\ pc[p] = "after"
    /\ \/ /\ t.op = "fund"
          /\ jobs' = jobs \cup {<<t.escrow, "start-first-milestone">>}
       \/ /\ t.op = "create"
          /\ \/ jobs' = jobs \cup {<<t.escrow, "deploy-smart-contract">>}
             \/ UNCHANGED jobs
    /\ Done(p)
    /\ UNCHANGED <<rows, ledger, audit, requests>>

(* The call a handler awaits is rejected, or the process dies: the handler *)
(* does nothing more.  A payment saved but not queued stays due for ever.  *)
fail(p) ==
    /\ pc[p] # "idle"
    /\ Done(p)
    /\ UNCHANGED <<rows, ledger, jobs, audit, requests>>
-----------------------------------------------------------------------------
Request(p) == \E e \in Escrows : \/ createEscrow(p, e)
                                 \/ updateEscrow(p, e)
                                 \/ fundEscrow(p, e)
                                 \/ releaseEscrowFunds(p, e)
                                 \/ releaseAll(p, e)
                                 \/ cancelEscrow(p, e)

Next == \E p \in Procs : \/ Request(p)
                         \/ save(p)
                         \/ queueTransaction(p)
                         \/ queueMilestones(p)
                         \/ logAction(p)
                         \/ notify(p)
                         \/ queueFollowUp(p)
                         \/ fail(p)

Spec == Init /\ [][Next]_vars
-----------------------------------------------------------------------------
EscrowRow == [status : EscrowStatus \cup {"absent"}, locked : 0..Total,
              released : Nat, multi : BOOLEAN]

Operations == {"none", "create", "update", "fund", "release", "releaseAll", "cancel"}

Task == [op : Operations,
         escrow : Escrows, row : EscrowRow, amount : 0..Total]

(* The type invariant of the escrow service: a locked amount, of a row or  *)
(* of a handler's copy, is never negative and never above the total.       *)
TypeOK ==
    /\ rows \in [Escrows -> EscrowRow]
    /\ pc \in [Procs -> {"idle", "save", "queue", "audit", "notify", "after"}]
    /\ task \in [Procs -> Task]
    /\ ledger \in [Escrows -> [deposit : Nat, due : Int, release : Nat, refund : Nat]]
    /\ jobs \subseteq Escrows \X {"create-milestones", "start-first-milestone",
                                  "deploy-smart-contract"}
    /\ audit \in [Escrows -> SUBSET Operations]
    /\ requests \in 0..MaxRequests

(* Status and money agree: a funded escrow holds some, a new or completed   *)
(* one holds none.  The other statuses come from bulk updates, or are      *)
(* reached with whatever is left.                                          *)
Coherent(row) ==
    /\ row.status \in {"absent", "created", "completed"} => row.locked = 0
    /\ row.status = "funded" => row.locked > 0

(* However the reads and saves of fundEscrow, releaseEscrowFunds,          *)
(* cancelEscrow and updateEscrow interleave, the row that is left is       *)
(* coherent: the handlers save the status and the amounts together.  (A    *)
(* bulk update must not carry one of the three statuses that promise one.) *)
MoneyBehindStatus == \A e \in Escrows : Coherent(rows[e])

(* The first milestone of an escrow is started only after its funding is   *)
(* in the audit log, and that only after the deposit was queued, whatever  *)
(* fails in between: the order of the awaits of fundEscrow.                *)
FundingOrder ==
    \A e \in Escrows :
        /\ <<e, "start-first-milestone">> \in jobs => "fund" \in audit[e]
        /\ "fund" \in audit[e] => ledger[e].deposit > 0

(* The money that has left a row, and how it agrees with what is in it.    *)
Paid(entry) == entry.due + entry.release + entry.refund

Balanced(row, entry) ==
    /\ row.status \in {"absent", "created"} => Paid(entry) = 0
    /\ row.status \in {"funded", "completed"} =>
           row.locked + Paid(entry) = Total /\ entry.refund = 0
    /\ row.status = "cancelled" => Paid(entry) \in {0, Total}

(* Without overlapping handlers no money is created or lost by the         *)
(* service: what was locked by the funding is still locked, or owed by a   *)
(* saved payment, or queued as a release or a refund.                      *)
Conservation == \A e \in Escrows : Balanced(rows[e], ledger[e])

(* validateFundRelease: "Release amount cannot exceed locked amount".  So  *)
(* the jobs releaseEscrowFunds and cancelEscrow queue never pay out more   *)
(* than the escrow held.                                                   *)
NoOverpayment ==
    \A e \in Escrows : ledger[e].release + ledger[e].refund <= Total

(* The service as its callers see it, when handlers do not overlap: each   *)
(* operation takes effect on status and locked amount at once, at its save. *)
Account == [e \in Escrows |-> [status |-> rows[e].status, locked |-> rows[e].locked]]

Atomic == INSTANCE EscrowLifecycle WITH account <- Account
AtomicSpec == Atomic!Spec
=============================================================================
