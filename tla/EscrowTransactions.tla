-------------------------- MODULE EscrowTransactions --------------------------
(***************************************************************************)
(* EscrowTransactionService and the Bull jobs that drive it.               *)
(*                                                                         *)
(* A create-transaction job inserts a pending transaction, puts a          *)
(* process-transaction job for it on smart-contract-queue, and then        *)
(* processes the transaction itself; a release-milestone-funds job inserts *)
(* and queues, and leaves the processing to the queued job.  Both queues   *)
(* have workers of their own, so the two consumers of a transaction run    *)
(* side by side.                                                           *)
(***************************************************************************)
EXTENDS Naturals

CONSTANTS Jobs,            \* the jobs that create a transaction
          Rows,            \* the ids of the rows of escrow_transactions
          Workers,         \* the job handlers that can be in flight at a time
          NoJob,           \* what an idle worker works on
          MaxStalledCount  \* Bull: how often a job whose worker died is run again

ASSUME ConstantsAssumption ==
    /\ Jobs \cap Rows = {}
    /\ NoJob \notin Jobs \cup Rows
    /\ MaxStalledCount \in Nat

VARIABLES direct,     \* the jobs that process their transaction too: create-transaction
          systemStored, \* does the audit table store the performer "system"?
          unreliable,   \* may calls be rejected and processes die?
          rows,     \* the table: the job that inserted a row, and its status
          queue,    \* the state of every job; a process-transaction job has the
                    \* id of the row it carries
          stalls,   \* how often Bull has run a job again
          worker,   \* the job, the row and the position of every worker
          settled   \* how often the payment of a row was carried out

setting == <<direct, systemStored, unreliable>>
vars == <<setting, rows, queue, stalls, worker, settled>>

Idle == [job |-> NoJob, row |-> NoJob, pc |-> "idle"]

(* The setting is any, and does not change.                                *)
Init ==
    /\ direct \in SUBSET Jobs
    /\ systemStored \in BOOLEAN
    /\ unreliable \in BOOLEAN
    /\ rows = [r \in Rows |-> [job |-> NoJob, status |-> "absent"]]
    /\ queue = [j \in Jobs \cup Rows |-> IF j \in Jobs THEN "waiting" ELSE "none"]
    /\ stalls = [j \in Jobs \cup Rows |-> 0]
    /\ worker = [w \in Workers |-> Idle]
    /\ settled = [r \in Rows |-> 0]
-----------------------------------------------------------------------------
Goto(w, pc) == worker' = [worker EXCEPT ![w].pc = pc]

(* The job of w ends, and its worker is free.                              *)
Finish(w, outcome) ==
    /\ queue' = [queue EXCEPT ![worker[w].job] = outcome]
    /\ worker' = [worker EXCEPT ![w] = Idle]

Take(w) ==
    /\ worker[w] = Idle
    /\ \E j \in Jobs \cup Rows :
          /\ queue[j] = "waiting"
          /\ queue' = [queue EXCEPT ![j] = "active"]
          /\ worker' = [worker EXCEPT ![w] =
                          IF j \in Jobs THEN [job |-> j, row |-> NoJob, pc |-> "insert"]
                                        ELSE [job |-> j, row |-> j, pc |-> "read"]]
    /\ UNCHANGED <<setting, rows, stalls, settled>>

(* createTransaction: the row, the job, the audit log (of a real user).    *)
insert(w) ==
    /\ worker[w].pc = "insert"
    /\ \E r \in Rows :
          /\ rows[r].status = "absent"
          /\ rows' = [rows EXCEPT ![r] = [job |-> worker[w].job, status |-> "pending"]]
          /\ worker' = [worker EXCEPT ![w].row = r, ![w].pc = "queue"]
    /\ UNCHANGED <<setting, queue, stalls, settled>>

(* A slip in requiresBlockchainProcessing: partial releases are left out.  *)
QueueOnlyDirect(w) ==
    /\ worker[w].pc = "queue"
    /\ queue' = IF worker[w].job \in direct
                THEN [queue EXCEPT ![worker[w].row] = "waiting"] ELSE queue
    /\ Goto(w, "auditCreated")
    /\ UNCHANGED <<setting, rows, stalls, settled>>

queueProcessing(w) ==
    /\ worker[w].pc = "queue"
    /\ queue' = [queue EXCEPT ![worker[w].row] = "waiting"]
    /\ Goto(w, "auditCreated")
    /\ UNCHANGED <<setting, rows, stalls, settled>>

auditCreated(w) ==
    /\ worker[w].pc = "auditCreated"
    /\ IF worker[w].job \in direct
       THEN Goto(w, "read") /\ UNCHANGED queue
       ELSE Finish(w, "completed")
    /\ UNCHANGED <<setting, rows, stalls, settled>>

(* A slip in processTransaction: one that was left processing is resumed.  *)
ResumeProcessing(w) ==
    /\ worker[w].pc = "read"
    /\ IF rows[worker[w].row].status \in {"pending", "processing"}
       THEN Goto(w, "processing") /\ UNCHANGED queue
       ELSE Finish(w, "failed")
    /\ UNCHANGED <<setting, rows, stalls, settled>>

(* A slip in processTransaction: one that is not pending counts as done.   *)
SkipProcessed(w) ==
    /\ worker[w].pc = "read"
    /\ IF rows[worker[w].row].status = "pending"
       THEN Goto(w, "processing") /\ UNCHANGED queue
       ELSE Finish(w, "completed")
    /\ UNCHANGED <<setting, rows, stalls, settled>>

(* processTransaction: only a pending transaction is processed.            *)
readPending(w) ==
    /\ worker[w].pc = "read"
    /\ IF rows[worker[w].row].status = "pending"
       THEN Goto(w, "processing") /\ UNCHANGED queue
       ELSE Finish(w, "failed")
    /\ UNCHANGED <<setting, rows, stalls, settled>>

(* updateTransactionStatus saves the status without looking at the one it  *)
(* replaces, then logs it as performed by "system".                        *)
updateTransactionStatus(w) ==
    /\ worker[w].pc \in {"processing", "completed", "failed"}
    /\ rows' = [rows EXCEPT ![worker[w].row].status = worker[w].pc]
    /\ Goto(w, CASE worker[w].pc = "processing" -> "auditProcessing"
                 [] worker[w].pc = "completed"  -> "auditCompleted"
                 [] worker[w].pc = "failed"     -> "auditFailed")
    /\ UNCHANGED <<setting, queue, stalls, settled>>

(* The audit of a status: what follows if "system" is stored; otherwise    *)
(* the catch block, and out of the catch block the end of the job.         *)
auditStatus(w) ==
    LET pc == worker[w].pc IN
    /\ \/ /\ pc = "auditProcessing"
          /\ Goto(w, IF systemStored THEN "settle" ELSE "failed")
          /\ UNCHANGED queue
       \/ /\ pc = "auditCompleted" /\ systemStored
          /\ Finish(w, "completed")
       \/ /\ pc = "auditCompleted" /\ ~systemStored
          /\ Goto(w, "failed")
          /\ UNCHANGED queue
       \/ /\ pc = "auditFailed"
          /\ Finish(w, "failed")
    /\ UNCHANGED <<setting, rows, stalls, settled>>

(* processDeposit, processRelease, processRefund, processPartialRelease.   *)
settle(w) ==
    /\ worker[w].pc = "settle"
    /\ settled' = [settled EXCEPT ![worker[w].row] = @ + 1]
    /\ Goto(w, "completed")
    /\ UNCHANGED <<setting, rows, queue, stalls>>

(* The awaited call is rejected: inside the try block the transaction is   *)
(* failed, before it and in the catch block the job is.                    *)
reject(w) ==
    /\ unreliable
    /\ worker[w].pc # "idle"
    /\ IF worker[w].pc \in {"processing", "auditProcessing", "settle", "completed",
                            "auditCompleted"}
       THEN Goto(w, "failed") /\ UNCHANGED queue
       ELSE Finish(w, "failed")
    /\ UNCHANGED <<setting, rows, stalls, settled>>

(* A slip in the queue's options: a stalled job is run again without end.  *)
StallForEver(w) ==
    /\ unreliable
    /\ worker[w].pc # "idle"
    /\ stalls' = [stalls EXCEPT ![worker[w].job] = @ + 1]
    /\ Finish(w, "waiting")
    /\ UNCHANGED <<setting, rows, settled>>

(* The process dies: Bull finds the job stalled and runs it again from the *)
(* start, a bounded number of times.                                       *)
stall(w) ==
    /\ unreliable
    /\ worker[w].pc # "idle"
    /\ IF stalls[worker[w].job] < MaxStalledCount
       THEN /\ stalls' = [stalls EXCEPT ![worker[w].job] = @ + 1]
            /\ Finish(w, "waiting")
       ELSE Finish(w, "failed") /\ UNCHANGED stalls
    /\ UNCHANGED <<setting, rows, settled>>
-----------------------------------------------------------------------------
Work(w) == \/ Take(w)
           \/ insert(w)
           \/ queueProcessing(w)
           \/ auditCreated(w)
           \/ readPending(w)
           \/ updateTransactionStatus(w)
           \/ auditStatus(w)
           \/ settle(w)

Next == \E w \in Workers : Work(w) \/ reject(w) \/ stall(w)

Spec == Init /\ [][Next]_vars

(* Bull keeps handing waiting jobs to free workers, and an awaited call    *)
(* that is not rejected returns.                                           *)
FairSpec == Spec /\ \A w \in Workers : WF_vars(Work(w))
-----------------------------------------------------------------------------
Positions == {"idle", "insert", "queue", "auditCreated", "read", "processing",
              "auditProcessing", "settle", "completed", "auditCompleted", "failed",
              "auditFailed"}

TypeOK ==
    /\ direct \subseteq Jobs
    /\ systemStored \in BOOLEAN
    /\ unreliable \in BOOLEAN
    /\ rows \in [Rows -> [job : Jobs \cup {NoJob},
                          status : {"absent", "pending", "processing", "completed", "failed"}]]
    /\ queue \in [Jobs \cup Rows -> {"none", "waiting", "active", "completed", "failed"}]
    /\ stalls \in [Jobs \cup Rows -> 0..MaxStalledCount]
    /\ worker \in [Workers -> [job : Jobs \cup Rows \cup {NoJob}, row : Rows \cup {NoJob},
                               pc : Positions]]
    /\ settled \in [Rows -> Nat]

(* A completed transaction was carried out, and a job that ended well has  *)
(* carried out a payment: neither the other consumer nor a crash and re-run *)
(* makes processTransaction report one that did not take place.            *)
CompletedIsSettled ==
    /\ \A r \in Rows :
          rows[r].status = "completed" \/ queue[r] = "completed" => settled[r] > 0
    /\ \A j \in direct :
          queue[j] = "completed" => \E r \in Rows : rows[r].job = j /\ settled[r] > 0

(* With a single consumer, a milestone payment, the check for "pending"    *)
(* and the save of "processing" are enough: whatever dies and is run again, *)
(* a row is not carried out twice.                                         *)
SingleConsumerSettlesOnce ==
    \A r \in Rows : rows[r].job \in Jobs \ direct => settled[r] <= 1

(* Processed by create-transaction as well, a row is carried out at most   *)
(* once by each of its two consumers, re-runs of their jobs included.      *)
AtMostTwice == \A r \in Rows : settled[r] <= 2

(* Every payment ends up as a transaction that is processed to an end, and  *)
(* stays so, provided nothing dies and the store is up: carried out if the *)
(* audit table stores "system", failed if it refuses it.                   *)
EventuallyProcessed ==
    ~unreliable =>
        \A j \in Jobs :
            <>[](\E r \in Rows :
                    /\ rows[r].job = j
                    /\ rows[r].status = IF systemStored THEN "completed" ELSE "failed")
=============================================================================
