----------------------- MODULE EscrowTransactions_proofs -----------------------
(***************************************************************************)
(* Theorems about EscrowTransactions for any jobs, rows, workers, setting, *)
(* and bound on the re-runs of a job.                                      *)
(***************************************************************************)
EXTENDS EscrowTransactions, TLAPS

-----------------------------------------------------------------------------
(* The inductive invariant, in named parts.                                *)

(* A job is worked on by one worker at a time, and is active meanwhile.    *)
Exclusive ==
    /\ \A w \in Workers : worker[w].pc = "idle" <=> worker[w].job = NoJob
    /\ \A w \in Workers : worker[w].job # NoJob => queue[worker[w].job] = "active"
    /\ \A w, v \in Workers :
          worker[w].job = worker[v].job /\ worker[w].job # NoJob => w = v

(* A row that is there was inserted by a job; only then is it queued.      *)
Inserted ==
    \A r \in Rows : /\ rows[r].status # "absent" => rows[r].job \in Jobs
                    /\ queue[r] # "none" => rows[r].status # "absent"

(* The positions of processTransaction.                                    *)
Processing == {"read", "processing", "auditProcessing", "settle", "completed",
               "auditCompleted", "failed", "auditFailed"}

(* A worker past the insert works for one of the two consumers of its row: *)
(* the queued job, or the job that inserted it.                            *)
Placed ==
    \A w \in Workers :
        /\ worker[w].pc = "insert" => worker[w].job \in Jobs
        /\ worker[w].pc \notin {"idle", "insert"} =>
              /\ worker[w].row \in Rows
              /\ rows[worker[w].row].status # "absent"
              /\ worker[w].job \in {worker[w].row, rows[worker[w].row].job}
        /\ worker[w].pc = "queue" => queue[worker[w].row] = "none"
        /\ worker[w].pc \in {"queue", "auditCreated"} => worker[w].job \in Jobs
        /\ worker[w].pc \in Processing => worker[w].job \in direct \cup {worker[w].row}

(* w has passed the check for "pending" and may still carry r out.         *)
MaySettle(w, r) ==
    /\ worker[w].row = r
    /\ worker[w].pc \in {"processing", "auditProcessing", "settle"}

(* A payment is carried out only of a row that has left "pending".         *)
Started ==
    \A w \in Workers :
        worker[w].pc \in {"auditProcessing", "settle"} =>
            rows[worker[w].row].status \notin {"absent", "pending"}

(* What was carried out of r, and what may still be, is bounded together.  *)
Bounded(r) ==
    /\ rows[r].status \in {"absent", "pending"} => settled[r] = 0
    /\ settled[r] \in {0, 1, 2}
    /\ settled[r] = 2 => \A w \in Workers : ~MaySettle(w, r)
    /\ settled[r] = 1 => \A w, v \in Workers :
                            MaySettle(w, r) /\ MaySettle(v, r) => w = v
    /\ rows[r].job \notin direct /\ settled[r] # 0 =>
          /\ settled[r] = 1
          /\ \A w \in Workers : ~MaySettle(w, r)

Counted == \A r \in Rows : Bounded(r)

(* A worker that reports a success has carried the payment out.            *)
Reported ==
    \A w \in Workers :
        worker[w].pc \in {"completed", "auditCompleted"} => settled[worker[w].row] > 0

IInv == /\ TypeOK
        /\ Exclusive
        /\ Inserted
        /\ Placed
        /\ Started
        /\ Counted
        /\ Reported
        /\ CompletedIsSettled
-----------------------------------------------------------------------------
(* What the two ways of moving a worker do, component by component.        *)

Worker == [job : Jobs \cup Rows \cup {NoJob}, row : Rows \cup {NoJob}, pc : Positions]
JobState == {"none", "waiting", "active", "completed", "failed"}

LEMMA GotoEffect ==
    ASSUME TypeOK, NEW w \in Workers, NEW pc \in Positions, Goto(w, pc)
    PROVE  /\ worker' \in [Workers -> Worker]
           /\ \A v \in Workers : /\ worker'[v].job = worker[v].job
                                 /\ worker'[v].row = worker[v].row
                                 /\ worker'[v].pc = IF v = w THEN pc ELSE worker[v].pc
  BY DEF Goto, TypeOK, Worker

LEMMA FinishEffect ==
    ASSUME TypeOK, NEW w \in Workers, NEW outcome \in JobState, Finish(w, outcome),
           worker[w].job # NoJob
    PROVE  /\ worker' \in [Workers -> Worker]
           /\ queue' \in [Jobs \cup Rows -> JobState]
           /\ worker[w].job \in Jobs \cup Rows
           /\ worker'[w] = Idle
           /\ worker'[w].job = NoJob
           /\ worker'[w].row = NoJob
           /\ worker'[w].pc = "idle"
           /\ \A v \in Workers : v # w => worker'[v] = worker[v]
           /\ \A j \in Jobs \cup Rows :
                 queue'[j] = IF j = worker[w].job THEN outcome ELSE queue[j]
  <1>1. Idle \in Worker
    BY DEF Idle, Worker, Positions
  <1>2. worker[w].job \in Jobs \cup Rows
    BY DEF TypeOK
  <1> QED
    BY <1>1, <1>2 DEF Finish, TypeOK, Worker, JobState, Idle
-----------------------------------------------------------------------------
(* Type correctness, one step at a time.                                   *)
LEMMA TypeStep ==
    ASSUME TypeOK, Exclusive, Placed, [Next]_vars
    PROVE  TypeOK'
  <1> USE DEF Worker, JobState
  <1>1. CASE UNCHANGED vars
    BY <1>1 DEF vars, setting, TypeOK
  <1>2. ASSUME NEW w \in Workers, Take(w)
        PROVE  TypeOK'
    <2>1. PICK j \in Jobs \cup Rows :
            /\ queue' = [queue EXCEPT ![j] = "active"]
            /\ worker' = [worker EXCEPT ![w] =
                            IF j \in Jobs THEN [job |-> j, row |-> NoJob, pc |-> "insert"]
                                          ELSE [job |-> j, row |-> j, pc |-> "read"]]
      BY <1>2 DEF Take
    <2>2. worker' \in [Workers -> Worker]
      BY <2>1 DEF TypeOK, Positions
    <2>3. queue' \in [Jobs \cup Rows -> JobState]
      BY <2>1 DEF TypeOK
    <2> QED
      BY <1>2, <2>2, <2>3 DEF Take, setting, TypeOK
  <1>3. ASSUME NEW w \in Workers, insert(w)
        PROVE  TypeOK'
    <2>1. PICK r \in Rows :
            /\ rows' = [rows EXCEPT ![r] = [job |-> worker[w].job, status |-> "pending"]]
            /\ worker' = [worker EXCEPT ![w].row = r, ![w].pc = "queue"]
      BY <1>3 DEF insert
    <2>2. worker' \in [Workers -> Worker]
      BY <2>1 DEF TypeOK, Positions
    <2>3. worker[w].job \in Jobs
      BY <1>3 DEF insert, Placed
    <2>4. rows' \in [Rows -> [job : Jobs \cup {NoJob},
                              status : {"absent", "pending", "processing", "completed",
                                        "failed"}]]
      BY <2>1, <2>3 DEF TypeOK
    <2> QED
      BY <1>3, <2>2, <2>4 DEF insert, setting, TypeOK
  <1>4. ASSUME NEW w \in Workers, queueProcessing(w)
        PROVE  TypeOK'
    <2>1. worker[w].row \in Rows
      BY <1>4 DEF queueProcessing, Placed
    <2>2. Goto(w, "auditCreated") /\ "auditCreated" \in Positions
      BY <1>4 DEF queueProcessing, Positions
    <2> QED
      BY <1>4, <2>1, <2>2, GotoEffect DEF queueProcessing, setting, TypeOK
  <1>5. ASSUME NEW w \in Workers, auditCreated(w) \/ readPending(w) \/ reject(w)
        PROVE  TypeOK'
    <2>1. PICK pc \in {"read", "processing", "failed"} :
             \/ Goto(w, pc) /\ UNCHANGED queue
             \/ Finish(w, "completed")
             \/ Finish(w, "failed")
      BY <1>5 DEF auditCreated, readPending, reject
    <2>2. worker[w].job # NoJob
      BY <1>5 DEF auditCreated, readPending, reject, Exclusive
    <2>3. worker' \in [Workers -> Worker] /\ queue' \in [Jobs \cup Rows -> JobState]
      <3>1. CASE Goto(w, pc) /\ UNCHANGED queue
        BY <3>1, GotoEffect DEF Positions, TypeOK
      <3>2. CASE Finish(w, "completed")
        BY <3>2, <2>2, FinishEffect
      <3>3. CASE Finish(w, "failed")
        BY <3>3, <2>2, FinishEffect
      <3> QED
        BY <2>1, <3>1, <3>2, <3>3
    <2> QED
      BY <1>5, <2>3 DEF auditCreated, readPending, reject, setting, TypeOK
  <1>6. ASSUME NEW w \in Workers, updateTransactionStatus(w)
        PROVE  TypeOK'
    <2>1. worker[w].row \in Rows
      BY <1>6 DEF updateTransactionStatus, Placed
    <2>2. PICK pc \in {"auditProcessing", "auditCompleted", "auditFailed"} : Goto(w, pc)
      BY <1>6 DEF updateTransactionStatus
    <2>3. rows' \in [Rows -> [job : Jobs \cup {NoJob},
                              status : {"absent", "pending", "processing", "completed",
                                        "failed"}]]
      BY <1>6, <2>1 DEF updateTransactionStatus, TypeOK
    <2>4. worker' \in [Workers -> Worker]
      BY <2>2, GotoEffect DEF Positions
    <2> QED
      BY <1>6, <2>3, <2>4 DEF updateTransactionStatus, setting, TypeOK
  <1>7. ASSUME NEW w \in Workers, auditStatus(w)
        PROVE  TypeOK'
    <2>1. PICK pc \in {"settle", "failed"} :
             \/ Goto(w, pc) /\ UNCHANGED queue
             \/ Finish(w, "completed")
             \/ Finish(w, "failed")
      BY <1>7 DEF auditStatus
    <2>2. worker[w].job # NoJob
      BY <1>7 DEF auditStatus, Exclusive
    <2>3. worker' \in [Workers -> Worker] /\ queue' \in [Jobs \cup Rows -> JobState]
      <3>1. CASE Goto(w, pc) /\ UNCHANGED queue
        BY <3>1, GotoEffect DEF Positions, TypeOK
      <3>2. CASE Finish(w, "completed")
        BY <3>2, <2>2, FinishEffect
      <3>3. CASE Finish(w, "failed")
        BY <3>3, <2>2, FinishEffect
      <3> QED
        BY <2>1, <3>1, <3>2, <3>3
    <2> QED
      BY <1>7, <2>3 DEF auditStatus, setting, TypeOK
  <1>8. ASSUME NEW w \in Workers, settle(w)
        PROVE  TypeOK'
    <2>1. worker[w].row \in Rows
      BY <1>8 DEF settle, Placed
    <2>2. worker' \in [Workers -> Worker]
      BY <1>8, GotoEffect DEF settle, Positions
    <2>3. settled' \in [Rows -> Nat]
      BY <1>8, <2>1 DEF settle, TypeOK
    <2> QED
      BY <1>8, <2>2, <2>3 DEF settle, setting, TypeOK
  <1>9. ASSUME NEW w \in Workers, stall(w)
        PROVE  TypeOK'
    <2>1. worker[w].job # NoJob
      BY <1>9 DEF stall, Exclusive
    <2>2. worker' \in [Workers -> Worker] /\ queue' \in [Jobs \cup Rows -> JobState]
      BY <1>9, <2>1, FinishEffect DEF stall
    <2>3. stalls' \in [Jobs \cup Rows -> 0..MaxStalledCount]
      BY <1>9, <2>1, ConstantsAssumption DEF stall, TypeOK
    <2> QED
      BY <1>9, <2>2, <2>3 DEF stall, setting, TypeOK
  <1> QED
    BY <1>1, <1>2, <1>3, <1>4, <1>5, <1>6, <1>7, <1>8, <1>9 DEF Next, Work
-----------------------------------------------------------------------------
(* Most steps only move one worker.  Those that leave it with its job:     *)
Moves(w) ==
    /\ UNCHANGED <<setting, rows, queue, settled>>
    /\ \/ worker[w].pc = "auditCreated" /\ worker[w].job \in direct /\ Goto(w, "read")
       \/ /\ worker[w].pc = "read"
          /\ rows[worker[w].row].status = "pending"
          /\ Goto(w, "processing")
       \/ worker[w].pc = "auditProcessing" /\ Goto(w, "settle")
       \/ /\ worker[w].pc \in {"processing", "auditProcessing", "settle", "completed",
                                "auditCompleted"}
          /\ Goto(w, "failed")

(* and those that take the job from it.                                    *)
Ends(w) ==
    /\ UNCHANGED <<setting, rows, settled>>
    /\ worker[w].pc # "idle"
    /\ \/ /\ worker[w].pc = "auditCreated"
          /\ worker[w].job \notin direct
          /\ Finish(w, "completed")
       \/ worker[w].pc = "auditCompleted" /\ Finish(w, "completed")
       \/ \E outcome \in {"failed", "waiting"} : Finish(w, outcome)

LEMMA StepKinds ==
    ASSUME Next
    PROVE  \E w \in Workers : \/ Moves(w)
                              \/ Ends(w)
                              \/ Take(w)
                              \/ insert(w)
                              \/ queueProcessing(w)
                              \/ updateTransactionStatus(w)
                              \/ settle(w)
  <1> PICK w \in Workers : Work(w) \/ reject(w) \/ stall(w)
    BY DEF Next
  <1>1. CASE auditCreated(w)
    BY <1>1 DEF auditCreated, Moves, Ends, setting
  <1>2. CASE readPending(w)
    BY <1>2 DEF readPending, Moves, Ends, setting
  <1>3. CASE auditStatus(w)
    BY <1>3 DEF auditStatus, Moves, Ends, setting
  <1>4. CASE reject(w)
    BY <1>4 DEF reject, Moves, Ends, setting
  <1>5. CASE stall(w)
    BY <1>5 DEF stall, Moves, Ends, setting
  <1> QED
    BY <1>1, <1>2, <1>3, <1>4, <1>5 DEF Work

(* What a worker is, said without the updates of a function.               *)
LEMMA MovesEffect ==
    ASSUME TypeOK, NEW w \in Workers, Moves(w)
    PROVE  /\ UNCHANGED <<direct, rows, queue, settled>>
           /\ \A v \in Workers : /\ worker'[v].job = worker[v].job
                                 /\ worker'[v].row = worker[v].row
                                 /\ v # w => worker'[v].pc = worker[v].pc
           /\ \/ /\ worker[w].pc = "auditCreated"
                 /\ worker[w].job \in direct
                 /\ worker'[w].pc = "read"
              \/ /\ worker[w].pc = "read"
                 /\ rows[worker[w].row].status = "pending"
                 /\ worker'[w].pc = "processing"
              \/ worker[w].pc = "auditProcessing" /\ worker'[w].pc = "settle"
              \/ /\ worker[w].pc \in {"processing", "auditProcessing", "settle",
                                       "completed", "auditCompleted"}
                 /\ worker'[w].pc = "failed"
  <1>1. UNCHANGED <<direct, rows, queue, settled>>
    BY DEF Moves, setting
  <1>2. PICK pc \in {"read", "processing", "settle", "failed"} : Goto(w, pc)
    BY DEF Moves
  <1>3. \A v \in Workers : /\ worker'[v].job = worker[v].job
                           /\ worker'[v].row = worker[v].row
                           /\ worker'[v].pc = IF v = w THEN pc ELSE worker[v].pc
    BY <1>2, GotoEffect DEF Positions
  <1>4. \A q \in Positions : Goto(w, q) => worker'[w].pc = q
    BY GotoEffect
  <1> QED
    BY <1>1, <1>3, <1>4 DEF Moves, Positions

LEMMA EndsEffect ==
    ASSUME TypeOK, Exclusive, NEW w \in Workers, Ends(w)
    PROVE  /\ UNCHANGED <<direct, rows, settled>>
           /\ worker[w].job \in Jobs \cup Rows
           /\ worker'[w].job = NoJob /\ worker'[w].row = NoJob /\ worker'[w].pc = "idle"
           /\ \A v \in Workers : v # w => worker'[v] = worker[v]
           /\ \A j \in Jobs \cup Rows : j # worker[w].job => queue'[j] = queue[j]
           /\ \/ queue'[worker[w].job] \in {"failed", "waiting"}
              \/ /\ queue'[worker[w].job] = "completed"
                 /\ \/ worker[w].pc = "auditCreated" /\ worker[w].job \notin direct
                    \/ worker[w].pc = "auditCompleted"
  <1>1. UNCHANGED <<direct, rows, settled>> /\ worker[w].job # NoJob
    BY DEF Ends, setting, Exclusive
  <1>2. PICK outcome \in {"completed", "failed", "waiting"} :
            /\ Finish(w, outcome)
            /\ outcome = "completed" =>
                  \/ worker[w].pc = "auditCreated" /\ worker[w].job \notin direct
                  \/ worker[w].pc = "auditCompleted"
    BY DEF Ends
  <1> QED
    BY <1>1, <1>2, FinishEffect DEF JobState

LEMMA TakeEffect ==
    ASSUME TypeOK, NEW w \in Workers, Take(w)
    PROVE  /\ UNCHANGED <<direct, rows, settled>>
           /\ worker[w] = Idle
           /\ \A v \in Workers : v # w => worker'[v] = worker[v]
           /\ \E j \in Jobs \cup Rows :
                 /\ queue[j] = "waiting"
                 /\ queue'[j] = "active"
                 /\ \A i \in Jobs \cup Rows : i # j => queue'[i] = queue[i]
                 /\ worker'[w].job = j
                 /\ j \in Jobs => worker'[w].row = NoJob /\ worker'[w].pc = "insert"
                 /\ j \in Rows => worker'[w].row = j /\ worker'[w].pc = "read"
  <1>1. PICK j \in Jobs \cup Rows :
          /\ queue[j] = "waiting"
          /\ queue' = [queue EXCEPT ![j] = "active"]
          /\ worker' = [worker EXCEPT ![w] =
                          IF j \in Jobs THEN [job |-> j, row |-> NoJob, pc |-> "insert"]
                                        ELSE [job |-> j, row |-> j, pc |-> "read"]]
    BY DEF Take
  <1>2. j \in Rows => j \notin Jobs
    BY ConstantsAssumption
  <1>3. UNCHANGED <<direct, rows, settled>> /\ worker[w] = Idle
    BY DEF Take, setting
  <1>4. \A v \in Workers : v # w => worker'[v] = worker[v]
    BY <1>1 DEF TypeOK
  <1>5. /\ worker'[w].job = j
        /\ j \in Jobs => worker'[w].row = NoJob /\ worker'[w].pc = "insert"
        /\ j \in Rows => worker'[w].row = j /\ worker'[w].pc = "read"
    BY <1>1, <1>2 DEF TypeOK
  <1>6. /\ queue'[j] = "active"
        /\ \A i \in Jobs \cup Rows : i # j => queue'[i] = queue[i]
    BY <1>1 DEF TypeOK
  <1> QED
    BY <1>1, <1>3, <1>4, <1>5, <1>6

LEMMA InsertEffect ==
    ASSUME TypeOK, Placed, NEW w \in Workers, insert(w)
    PROVE  /\ UNCHANGED <<direct, queue, settled>>
           /\ worker[w].pc = "insert" /\ worker[w].job \in Jobs
           /\ \A v \in Workers : v # w => worker'[v] = worker[v]
           /\ \E r \in Rows :
                 /\ rows[r].status = "absent"
                 /\ rows'[r].job = worker[w].job /\ rows'[r].status = "pending"
                 /\ \A q \in Rows : q # r => rows'[q] = rows[q]
                 /\ worker'[w].job = worker[w].job
                 /\ worker'[w].row = r
                 /\ worker'[w].pc = "queue"
  <1>1. PICK r \in Rows :
          /\ rows[r].status = "absent"
          /\ rows' = [rows EXCEPT ![r] = [job |-> worker[w].job, status |-> "pending"]]
          /\ worker' = [worker EXCEPT ![w].row = r, ![w].pc = "queue"]
    BY DEF insert
  <1>2. /\ UNCHANGED <<direct, queue, settled>>
        /\ worker[w].pc = "insert" /\ worker[w].job \in Jobs
    BY DEF insert, setting, Placed
  <1>3. /\ \A v \in Workers : v # w => worker'[v] = worker[v]
        /\ worker'[w].job = worker[w].job
        /\ worker'[w].row = r
        /\ worker'[w].pc = "queue"
    BY <1>1 DEF TypeOK
  <1>4. /\ rows'[r].job = worker[w].job /\ rows'[r].status = "pending"
        /\ \A q \in Rows : q # r => rows'[q] = rows[q]
    BY <1>1 DEF TypeOK
  <1> QED
    BY <1>1, <1>2, <1>3, <1>4

LEMMA QueueEffect ==
    ASSUME TypeOK, Placed, NEW w \in Workers, queueProcessing(w)
    PROVE  /\ UNCHANGED <<direct, rows, settled>>
           /\ worker[w].pc = "queue" /\ worker[w].row \in Rows
           /\ worker'[w].pc = "auditCreated"
           /\ \A v \in Workers : /\ worker'[v].job = worker[v].job
                                 /\ worker'[v].row = worker[v].row
                                 /\ v # w => worker'[v].pc = worker[v].pc
           /\ queue'[worker[w].row] = "waiting"
           /\ \A j \in Jobs \cup Rows : j # worker[w].row => queue'[j] = queue[j]
  <1>1. worker[w].pc = "queue" /\ worker[w].row \in Rows
    BY DEF queueProcessing, Placed
  <1>2. /\ queue'[worker[w].row] = "waiting"
        /\ \A j \in Jobs \cup Rows : j # worker[w].row => queue'[j] = queue[j]
    BY <1>1 DEF queueProcessing, TypeOK
  <1>3. Goto(w, "auditCreated") /\ "auditCreated" \in Positions
    BY DEF queueProcessing, Positions
  <1>4. UNCHANGED <<direct, rows, settled>>
    BY DEF queueProcessing, setting
  <1> QED
    BY <1>1, <1>2, <1>3, <1>4, GotoEffect

LEMMA StatusEffect ==
    ASSUME TypeOK, Placed, NEW w \in Workers, updateTransactionStatus(w)
    PROVE  /\ UNCHANGED <<direct, queue, settled>>
           /\ worker[w].pc \in {"processing", "completed", "failed"}
           /\ worker[w].row \in Rows
           /\ rows'[worker[w].row].status = worker[w].pc
           /\ rows'[worker[w].row].job = rows[worker[w].row].job
           /\ \A r \in Rows : r # worker[w].row => rows'[r] = rows[r]
           /\ \A v \in Workers : /\ worker'[v].job = worker[v].job
                                 /\ worker'[v].row = worker[v].row
                                 /\ v # w => worker'[v].pc = worker[v].pc
           /\ worker[w].pc = "processing" => worker'[w].pc = "auditProcessing"
           /\ worker[w].pc = "completed" => worker'[w].pc = "auditCompleted"
           /\ worker[w].pc = "failed" => worker'[w].pc = "auditFailed"
  <1>1. worker[w].pc \in {"processing", "completed", "failed"} /\ worker[w].row \in Rows
    BY DEF updateTransactionStatus, Placed
  <1>2. /\ rows'[worker[w].row].status = worker[w].pc
        /\ rows'[worker[w].row].job = rows[worker[w].row].job
        /\ \A r \in Rows : r # worker[w].row => rows'[r] = rows[r]
    BY <1>1 DEF updateTransactionStatus, TypeOK
  <1>3. UNCHANGED <<direct, queue, settled>>
    BY DEF updateTransactionStatus, setting
  <1>4. /\ worker[w].pc = "processing" => Goto(w, "auditProcessing")
        /\ worker[w].pc = "completed" => Goto(w, "auditCompleted")
        /\ worker[w].pc = "failed" => Goto(w, "auditFailed")
    BY DEF updateTransactionStatus
  <1>5. {"auditProcessing", "auditCompleted", "auditFailed"} \subseteq Positions
    BY DEF Positions
  <1>6. PICK pc \in Positions : Goto(w, pc)
    BY <1>1, <1>4, <1>5
  <1>7. \A v \in Workers : /\ worker'[v].job = worker[v].job
                           /\ worker'[v].row = worker[v].row
                           /\ v # w => worker'[v].pc = worker[v].pc
    BY <1>6, GotoEffect
  <1>8. \A q \in Positions : Goto(w, q) => worker'[w].pc = q
    BY GotoEffect
  <1> QED
    BY <1>1, <1>2, <1>3, <1>4, <1>5, <1>7, <1>8

LEMMA SettleEffect ==
    ASSUME TypeOK, Placed, NEW w \in Workers, settle(w)
    PROVE  /\ UNCHANGED <<direct, rows, queue>>
           /\ worker[w].pc = "settle" /\ worker[w].row \in Rows
           /\ worker'[w].pc = "completed"
           /\ \A v \in Workers : /\ worker'[v].job = worker[v].job
                                 /\ worker'[v].row = worker[v].row
                                 /\ v # w => worker'[v].pc = worker[v].pc
           /\ settled'[worker[w].row] = settled[worker[w].row] + 1
           /\ \A r \in Rows : r # worker[w].row => settled'[r] = settled[r]
  <1>1. worker[w].pc = "settle" /\ worker[w].row \in Rows
    BY DEF settle, Placed
  <1>2. /\ settled'[worker[w].row] = settled[worker[w].row] + 1
        /\ \A r \in Rows : r # worker[w].row => settled'[r] = settled[r]
    BY <1>1 DEF settle, TypeOK
  <1>3. Goto(w, "completed") /\ "completed" \in Positions
    BY DEF settle, Positions
  <1> QED
    BY <1>1, <1>2, <1>3, GotoEffect DEF settle, setting
-----------------------------------------------------------------------------
(* A job stays with one worker.                                           *)
LEMMA ExclusiveStep ==
    ASSUME TypeOK, Exclusive, Inserted, Placed, Next
    PROVE  Exclusive'
  <1> PICK w \in Workers : \/ Moves(w)
                           \/ Ends(w)
                           \/ Take(w)
                           \/ insert(w)
                           \/ queueProcessing(w)
                           \/ updateTransactionStatus(w)
                           \/ settle(w)
    BY StepKinds
  <1>1. CASE Moves(w)
    BY <1>1, MovesEffect, ConstantsAssumption DEF TypeOK, Exclusive, Inserted, Placed, Idle
  <1>2. CASE Ends(w)
    BY <1>2, EndsEffect, ConstantsAssumption DEF TypeOK, Exclusive, Inserted, Placed, Idle
  <1>3. CASE Take(w)
    BY <1>3, TakeEffect, ConstantsAssumption DEF TypeOK, Exclusive, Inserted, Placed, Idle
  <1>4. CASE insert(w)
    BY <1>4, InsertEffect, ConstantsAssumption DEF TypeOK, Exclusive, Inserted, Placed, Idle
  <1>5. CASE queueProcessing(w)
    BY <1>5, QueueEffect, ConstantsAssumption DEF TypeOK, Exclusive, Inserted, Placed, Idle
  <1>6. CASE updateTransactionStatus(w)
    BY <1>6, StatusEffect, ConstantsAssumption DEF TypeOK, Exclusive, Inserted, Placed, Idle
  <1>7. CASE settle(w)
    BY <1>7, SettleEffect, ConstantsAssumption DEF TypeOK, Exclusive, Inserted, Placed, Idle
  <1> QED
    BY <1>1, <1>2, <1>3, <1>4, <1>5, <1>6, <1>7
-----------------------------------------------------------------------------
(* Rows are inserted before they are queued, and never removed.            *)
LEMMA InsertedStep ==
    ASSUME TypeOK, Exclusive, Inserted, Placed, Next
    PROVE  Inserted'
  <1> PICK w \in Workers : \/ Moves(w)
                           \/ Ends(w)
                           \/ Take(w)
                           \/ insert(w)
                           \/ queueProcessing(w)
                           \/ updateTransactionStatus(w)
                           \/ settle(w)
    BY StepKinds
  <1>1. CASE Moves(w)
    BY <1>1, MovesEffect, ConstantsAssumption DEF TypeOK, Exclusive, Inserted, Placed, Idle
  <1>2. CASE Ends(w)
    BY <1>2, EndsEffect, ConstantsAssumption DEF TypeOK, Exclusive, Inserted, Placed, Idle
  <1>3. CASE Take(w)
    BY <1>3, TakeEffect, ConstantsAssumption DEF TypeOK, Exclusive, Inserted, Placed, Idle
  <1>4. CASE insert(w)
    BY <1>4, InsertEffect, ConstantsAssumption DEF TypeOK, Exclusive, Inserted, Placed, Idle
  <1>5. CASE queueProcessing(w)
    BY <1>5, QueueEffect, ConstantsAssumption DEF TypeOK, Exclusive, Inserted, Placed, Idle
  <1>6. CASE updateTransactionStatus(w)
    BY <1>6, StatusEffect, ConstantsAssumption DEF TypeOK, Exclusive, Inserted, Placed, Idle
  <1>7. CASE settle(w)
    BY <1>7, SettleEffect, ConstantsAssumption DEF TypeOK, Exclusive, Inserted, Placed, Idle
  <1> QED
    BY <1>1, <1>2, <1>3, <1>4, <1>5, <1>6, <1>7
-----------------------------------------------------------------------------
(* A worker past the insert keeps its row and works for a consumer of it.  *)
LEMMA PlacedStep ==
    ASSUME TypeOK, Exclusive, Inserted, Placed, Next
    PROVE  Placed'
  <1> PICK w \in Workers : \/ Moves(w)
                           \/ Ends(w)
                           \/ Take(w)
                           \/ insert(w)
                           \/ queueProcessing(w)
                           \/ updateTransactionStatus(w)
                           \/ settle(w)
    BY StepKinds
  <1>1. CASE Moves(w)
    BY <1>1, MovesEffect, ConstantsAssumption DEF TypeOK, Exclusive, Inserted, Placed, Idle, Processing
  <1>2. CASE Ends(w)
    BY <1>2, EndsEffect, ConstantsAssumption DEF TypeOK, Exclusive, Inserted, Placed, Idle, Processing
  <1>3. CASE Take(w)
    BY <1>3, TakeEffect, ConstantsAssumption DEF TypeOK, Exclusive, Inserted, Placed, Idle, Processing
  <1>4. CASE insert(w)
    <2>1. PICK r \in Rows :
            /\ rows[r].status = "absent"
            /\ rows'[r].job = worker[w].job /\ rows'[r].status = "pending"
            /\ \A q \in Rows : q # r => rows'[q] = rows[q]
            /\ worker'[w].job = worker[w].job
            /\ worker'[w].row = r
            /\ worker'[w].pc = "queue"
      BY <1>4, InsertEffect
    <2>2. /\ UNCHANGED <<direct, queue>>
          /\ worker[w].job \in Jobs
          /\ \A v \in Workers : v # w => worker'[v] = worker[v]
      BY <1>4, InsertEffect
    <2>3. queue[r] = "none"
      BY <2>1 DEF Inserted
    <2> QED
      BY <2>1, <2>2, <2>3 DEF Placed, Processing
  <1>5. CASE queueProcessing(w)
    BY <1>5, QueueEffect, ConstantsAssumption DEF TypeOK, Exclusive, Inserted, Placed, Idle, Processing
  <1>6. CASE updateTransactionStatus(w)
    BY <1>6, StatusEffect, ConstantsAssumption DEF TypeOK, Exclusive, Inserted, Placed, Idle, Processing
  <1>7. CASE settle(w)
    BY <1>7, SettleEffect, ConstantsAssumption DEF TypeOK, Exclusive, Inserted, Placed, Idle, Processing
  <1> QED
    BY <1>1, <1>2, <1>3, <1>4, <1>5, <1>6, <1>7
-----------------------------------------------------------------------------
(* No status leads back to "pending".                                     *)
LEMMA StartedStep ==
    ASSUME TypeOK, Exclusive, Inserted, Placed, Started, Next
    PROVE  Started'
  <1> PICK w \in Workers : \/ Moves(w)
                           \/ Ends(w)
                           \/ Take(w)
                           \/ insert(w)
                           \/ queueProcessing(w)
                           \/ updateTransactionStatus(w)
                           \/ settle(w)
    BY StepKinds
  <1>1. CASE Moves(w)
    BY <1>1, MovesEffect DEF Inserted, Placed, Started, Idle
  <1>2. CASE Ends(w)
    BY <1>2, EndsEffect DEF Inserted, Placed, Started, Idle
  <1>3. CASE Take(w)
    BY <1>3, TakeEffect DEF Inserted, Placed, Started, Idle
  <1>4. CASE insert(w)
    BY <1>4, InsertEffect DEF Inserted, Placed, Started, Idle
  <1>5. CASE queueProcessing(w)
    BY <1>5, QueueEffect DEF Inserted, Placed, Started, Idle
  <1>6. CASE updateTransactionStatus(w)
    BY <1>6, StatusEffect DEF Inserted, Placed, Started, Idle
  <1>7. CASE settle(w)
    BY <1>7, SettleEffect DEF Inserted, Placed, Started, Idle
  <1> QED
    BY <1>1, <1>2, <1>3, <1>4, <1>5, <1>6, <1>7
-----------------------------------------------------------------------------
(* The bound on what was, or may be, carried out.                          *)

(* Who may settle r works for one of the two consumers of r, and for the   *)
(* queued job if the other one does not process.                           *)
LEMMA ConsumerOf ==
    ASSUME Exclusive, Placed, NEW r \in Rows, NEW w \in Workers, MaySettle(w, r)
    PROVE  /\ worker[w].job \in {r, rows[r].job}
           /\ rows[r].job \notin direct => worker[w].job = r
           /\ worker[w].job # NoJob
  BY DEF Exclusive, Placed, MaySettle, Processing

LEMMA BoundedKept ==
    ASSUME NEW r \in Rows, Bounded(r), settled'[r] = settled[r], UNCHANGED direct,
           \/ settled[r] = 0
           \/ /\ \A v \in Workers : MaySettle(v, r)' => MaySettle(v, r)
              /\ rows'[r].job = rows[r].job
              /\ rows'[r].status \in {"absent", "pending"} =>
                    rows[r].status \in {"absent", "pending"}
    PROVE  Bounded(r)'
  <1> HIDE DEF MaySettle
  <1> QED
    BY DEF Bounded

LEMMA CountedStep ==
    ASSUME TypeOK, Exclusive, Inserted, Placed, Started, Counted, Next
    PROVE  Counted'
  <1> SUFFICES ASSUME NEW r \in Rows
               PROVE  Bounded(r)'
    BY DEF Counted
  <1>0. Bounded(r)
    BY DEF Counted
  <1> PICK w \in Workers : \/ Moves(w)
                           \/ Ends(w)
                           \/ Take(w)
                           \/ insert(w)
                           \/ queueProcessing(w)
                           \/ updateTransactionStatus(w)
                           \/ settle(w)
    BY StepKinds
  <1>1. CASE Moves(w)
    <2>1. UNCHANGED <<direct, rows, settled>>
      BY <1>1, MovesEffect
    <2>2. CASE worker[w].pc = "read" /\ worker[w].row = r
      <3>1. settled[r] = 0
        BY <1>0, <1>1, <2>2, MovesEffect DEF Bounded
      <3> QED
        BY <1>0, <2>1, <3>1, BoundedKept
    <2>3. CASE ~(worker[w].pc = "read" /\ worker[w].row = r)
      <3>1. \A v \in Workers : MaySettle(v, r)' => MaySettle(v, r)
        BY <1>1, <2>3, MovesEffect DEF MaySettle
      <3> QED
        BY <1>0, <2>1, <3>1, BoundedKept
    <2> QED
      BY <2>2, <2>3
  <1>2. CASE Ends(w)
    <2>1. UNCHANGED <<direct, rows, settled>>
      BY <1>2, EndsEffect
    <2>2. \A v \in Workers : MaySettle(v, r)' => MaySettle(v, r)
      BY <1>2, EndsEffect DEF MaySettle
    <2> QED
      BY <1>0, <2>1, <2>2, BoundedKept
  <1>3. CASE Take(w)
    <2>1. UNCHANGED <<direct, rows, settled>>
      BY <1>3, TakeEffect
    <2>2. \A v \in Workers : MaySettle(v, r)' => MaySettle(v, r)
      BY <1>3, TakeEffect DEF MaySettle
    <2> QED
      BY <1>0, <2>1, <2>2, BoundedKept
  <1>4. CASE insert(w)
    <2>1. UNCHANGED <<direct, settled>>
      BY <1>4, InsertEffect
    <2>2. \A v \in Workers : MaySettle(v, r)' => MaySettle(v, r)
      BY <1>4, InsertEffect DEF MaySettle
    <2>3. rows'[r] = rows[r] \/ settled[r] = 0
      BY <1>0, <1>4, InsertEffect DEF Bounded
    <2> QED
      BY <1>0, <2>1, <2>2, <2>3, BoundedKept
  <1>5. CASE queueProcessing(w)
    <2>1. UNCHANGED <<direct, rows, settled>>
      BY <1>5, QueueEffect
    <2>2. \A v \in Workers : MaySettle(v, r)' => MaySettle(v, r)
      BY <1>5, QueueEffect DEF MaySettle
    <2> QED
      BY <1>0, <2>1, <2>2, BoundedKept
  <1>6. CASE updateTransactionStatus(w)
    <2>1. UNCHANGED <<direct, settled>>
      BY <1>6, StatusEffect
    <2>2. \A v \in Workers : MaySettle(v, r)' => MaySettle(v, r)
      BY <1>6, StatusEffect DEF MaySettle
    <2>3. /\ rows'[r].job = rows[r].job
          /\ rows'[r].status \in {"absent", "pending"} =>
                rows[r].status \in {"absent", "pending"}
      BY <1>6, StatusEffect
    <2> QED
      BY <1>0, <2>1, <2>2, <2>3, BoundedKept
  <1>7. CASE settle(w)
    <2>1. UNCHANGED <<direct, rows>>
      BY <1>7, SettleEffect
    <2>2. \A v \in Workers : MaySettle(v, r)' => MaySettle(v, r)
      BY <1>7, SettleEffect DEF MaySettle
    <2>3. CASE worker[w].row # r
      BY <1>0, <1>7, <2>1, <2>2, <2>3, SettleEffect, BoundedKept
    <2>4. CASE worker[w].row = r
      <3>1. MaySettle(w, r) /\ ~MaySettle(w, r)'
        BY <1>7, <2>4, SettleEffect DEF MaySettle
      <3>2. settled'[r] = settled[r] + 1
        BY <1>7, <2>4, SettleEffect
      <3>3. rows[r].status \notin {"absent", "pending"}
        BY <1>7, <2>4, SettleEffect DEF Started
      <3>4. CASE settled[r] = 0
        <4>1. ASSUME NEW u \in Workers, NEW v \in Workers, MaySettle(u, r)', MaySettle(v, r)'
              PROVE  u = v
          <5>1. MaySettle(u, r) /\ MaySettle(v, r) /\ u # w /\ v # w
            BY <2>2, <3>1, <4>1
          <5>2. /\ worker[u].job \in {r, rows[r].job} /\ worker[u].job # NoJob
                /\ worker[v].job \in {r, rows[r].job}
                /\ worker[w].job \in {r, rows[r].job} /\ worker[w].job # NoJob
            BY <3>1, <5>1, ConsumerOf
          <5> QED
            BY <5>1, <5>2 DEF Exclusive
        <4>2. ASSUME rows[r].job \notin direct, NEW v \in Workers, MaySettle(v, r)'
              PROVE  FALSE
          <5>1. MaySettle(v, r) /\ v # w
            BY <2>2, <3>1, <4>2
          <5>2. worker[v].job = r /\ worker[w].job = r /\ worker[w].job # NoJob
            BY <3>1, <4>2, <5>1, ConsumerOf
          <5> QED
            BY <5>1, <5>2 DEF Exclusive
        <4> QED
          BY <2>1, <3>2, <3>3, <3>4, <4>1, <4>2 DEF Bounded
      <3>5. CASE settled[r] = 1
        <4>1. \A v \in Workers : ~MaySettle(v, r)'
          BY <1>0, <2>2, <3>1, <3>5 DEF Bounded
        <4>2. rows[r].job \in direct
          BY <1>0, <3>1, <3>5 DEF Bounded
        <4> QED
          BY <2>1, <3>2, <3>3, <3>5, <4>1, <4>2 DEF Bounded
      <3>6. CASE settled[r] = 2
        BY <1>0, <3>1, <3>6 DEF Bounded
      <3> QED
        BY <1>0, <3>4, <3>5, <3>6 DEF Bounded
    <2> QED
      BY <2>3, <2>4
  <1> QED
    BY <1>1, <1>2, <1>3, <1>4, <1>5, <1>6, <1>7
-----------------------------------------------------------------------------
(* A success is reported only of what was carried out.                     *)

(* A row keeps its job once it is there, and what was carried out of it.   *)
LEMMA RowsKept ==
    ASSUME TypeOK, Exclusive, Inserted, Placed, Next, NEW r \in Rows
    PROVE  /\ rows[r].status # "absent" => rows'[r].job = rows[r].job
           /\ settled[r] > 0 => settled'[r] > 0
  <1> PICK w \in Workers : \/ Moves(w)
                           \/ Ends(w)
                           \/ Take(w)
                           \/ insert(w)
                           \/ queueProcessing(w)
                           \/ updateTransactionStatus(w)
                           \/ settle(w)
    BY StepKinds
  <1>1. CASE Moves(w)
    BY <1>1, MovesEffect DEF TypeOK
  <1>2. CASE Ends(w)
    BY <1>2, EndsEffect DEF TypeOK
  <1>3. CASE Take(w)
    BY <1>3, TakeEffect DEF TypeOK
  <1>4. CASE insert(w)
    BY <1>4, InsertEffect DEF TypeOK
  <1>5. CASE queueProcessing(w)
    BY <1>5, QueueEffect DEF TypeOK
  <1>6. CASE updateTransactionStatus(w)
    BY <1>6, StatusEffect DEF TypeOK
  <1>7. CASE settle(w)
    BY <1>7, SettleEffect DEF TypeOK
  <1> QED
    BY <1>1, <1>2, <1>3, <1>4, <1>5, <1>6, <1>7

LEMMA ReportedStep ==
    ASSUME TypeOK, Exclusive, Inserted, Placed, Reported, Next
    PROVE  Reported'
  <1> SUFFICES ASSUME NEW v \in Workers, worker'[v].pc \in {"completed", "auditCompleted"}
               PROVE  settled'[worker'[v].row] > 0
    BY DEF Reported
  <1> PICK w \in Workers : \/ Moves(w)
                           \/ Ends(w)
                           \/ Take(w)
                           \/ insert(w)
                           \/ queueProcessing(w)
                           \/ updateTransactionStatus(w)
                           \/ settle(w)
    BY StepKinds
  <1>1. CASE Moves(w)
    BY <1>1, MovesEffect DEF TypeOK, Placed, Reported, Idle
  <1>2. CASE Ends(w)
    BY <1>2, EndsEffect DEF TypeOK, Placed, Reported, Idle
  <1>3. CASE Take(w)
    BY <1>3, TakeEffect DEF TypeOK, Placed, Reported, Idle
  <1>4. CASE insert(w)
    BY <1>4, InsertEffect DEF TypeOK, Placed, Reported, Idle
  <1>5. CASE queueProcessing(w)
    BY <1>5, QueueEffect DEF TypeOK, Placed, Reported, Idle
  <1>6. CASE updateTransactionStatus(w)
    BY <1>6, StatusEffect DEF TypeOK, Placed, Reported, Idle
  <1>7. CASE settle(w)
    BY <1>7, SettleEffect DEF TypeOK, Placed, Reported, Idle
  <1> QED
    BY <1>1, <1>2, <1>3, <1>4, <1>5, <1>6, <1>7

(* The two ways in which a completion becomes visible.                     *)
LEMMA NewlyCompleted ==
    ASSUME TypeOK, Exclusive, Inserted, Placed, Next
    PROVE  /\ \A r \in Rows : rows'[r].status = "completed" =>
                 \/ rows[r].status = "completed"
                 \/ \E w \in Workers : worker[w].pc = "completed" /\ worker[w].row = r
           /\ \A j \in Jobs \cup Rows : queue'[j] = "completed" =>
                 \/ queue[j] = "completed"
                 \/ j \notin direct \cup Rows
                 \/ \E w \in Workers : worker[w].pc = "auditCompleted" /\ worker[w].job = j
  <1> PICK w \in Workers : \/ Moves(w)
                           \/ Ends(w)
                           \/ Take(w)
                           \/ insert(w)
                           \/ queueProcessing(w)
                           \/ updateTransactionStatus(w)
                           \/ settle(w)
    BY StepKinds
  <1>1. CASE Moves(w)
    BY <1>1, MovesEffect, ConstantsAssumption DEF TypeOK, Placed, Idle
  <1>2. CASE Ends(w)
    BY <1>2, EndsEffect, ConstantsAssumption DEF TypeOK, Placed, Idle
  <1>3. CASE Take(w)
    BY <1>3, TakeEffect, ConstantsAssumption DEF TypeOK, Placed, Idle
  <1>4. CASE insert(w)
    BY <1>4, InsertEffect, ConstantsAssumption DEF TypeOK, Placed, Idle
  <1>5. CASE queueProcessing(w)
    BY <1>5, QueueEffect, ConstantsAssumption DEF TypeOK, Placed, Idle
  <1>6. CASE updateTransactionStatus(w)
    BY <1>6, StatusEffect, ConstantsAssumption DEF TypeOK, Placed, Idle
  <1>7. CASE settle(w)
    BY <1>7, SettleEffect, ConstantsAssumption DEF TypeOK, Placed, Idle
  <1> QED
    BY <1>1, <1>2, <1>3, <1>4, <1>5, <1>6, <1>7

LEMMA CompletedStep ==
    ASSUME TypeOK, Exclusive, Inserted, Placed, Counted, Reported, CompletedIsSettled, Next
    PROVE  CompletedIsSettled'
  <1>1. ASSUME NEW r \in Rows, rows'[r].status = "completed" \/ queue'[r] = "completed"
        PROVE  settled'[r] > 0
    <2>1. settled[r] > 0
      <3>1. CASE \E w \in Workers : worker[w].pc = "completed" /\ worker[w].row = r
        BY <3>1 DEF Reported
      <3>2. CASE \E w \in Workers : worker[w].pc = "auditCompleted" /\ worker[w].job = r
        <4>1. PICK w \in Workers : worker[w].pc = "auditCompleted" /\ worker[w].job = r
          BY <3>2
        <4>2. worker[w].row = r
          BY <4>1, ConstantsAssumption DEF Placed, Inserted
        <4> QED
          BY <4>1, <4>2 DEF Reported
      <3>3. CASE rows[r].status = "completed" \/ queue[r] = "completed"
        BY <3>3 DEF CompletedIsSettled
      <3> QED
        BY <1>1, <3>1, <3>2, <3>3, NewlyCompleted
    <2> QED
      BY <2>1, RowsKept
  <1>2. ASSUME NEW j \in direct, queue'[j] = "completed"
        PROVE  \E r \in Rows : rows'[r].job = j /\ settled'[r] > 0
    <2>1. PICK r \in Rows : rows[r].job = j /\ settled[r] > 0 /\ rows[r].status # "absent"
      <3>1. j \in Jobs
        BY DEF TypeOK
      <3>2. CASE \E w \in Workers : worker[w].pc = "auditCompleted" /\ worker[w].job = j
        <4>1. PICK w \in Workers : worker[w].pc = "auditCompleted" /\ worker[w].job = j
          BY <3>2
        <4>2. /\ worker[w].row \in Rows
              /\ rows[worker[w].row].status # "absent"
              /\ rows[worker[w].row].job = j
          BY <3>1, <4>1, ConstantsAssumption DEF Placed
        <4> QED
          BY <4>1, <4>2 DEF Reported
      <3>3. CASE queue[j] = "completed"
        BY <3>3 DEF CompletedIsSettled, Counted, Bounded
      <3> QED
        BY <1>2, <3>1, <3>2, <3>3, NewlyCompleted
    <2> QED
      BY <2>1, RowsKept
  <1>3. direct' = direct
    BY DEF Next, Work, Take, insert, queueProcessing, auditCreated, readPending,
           updateTransactionStatus, auditStatus, settle, reject, stall, setting
  <1> QED
    BY <1>1, <1>2, <1>3 DEF CompletedIsSettled
-----------------------------------------------------------------------------
LEMMA Initially == Init => IInv
  <1> SUFFICES ASSUME Init
               PROVE  IInv
    OBVIOUS
  <1>1. /\ \A w \in Workers : /\ worker[w].job = NoJob
                             /\ worker[w].row = NoJob
                             /\ worker[w].pc = "idle"
        /\ \A r \in Rows : /\ rows[r].status = "absent"
                          /\ queue[r] = "none"
                          /\ settled[r] = 0
        /\ \A j \in Jobs : queue[j] = "waiting"
    BY ConstantsAssumption DEF Init, Idle
  <1>2. TypeOK
    BY ConstantsAssumption DEF Init, TypeOK, Idle, Positions
  <1>3. Exclusive /\ Inserted /\ Placed /\ Started /\ Reported
    BY <1>1 DEF Exclusive, Inserted, Placed, Processing, Started, Reported
  <1>4. Counted
    BY <1>1 DEF Counted, Bounded, MaySettle
  <1>5. CompletedIsSettled
    BY <1>1, <1>2 DEF CompletedIsSettled, TypeOK
  <1> QED
    BY <1>2, <1>3, <1>4, <1>5 DEF IInv

LEMMA Inductive == IInv /\ [Next]_vars => IInv'
  <1> SUFFICES ASSUME IInv, [Next]_vars
               PROVE  IInv'
    OBVIOUS
  <1>1. CASE Next
    BY <1>1, TypeStep, ExclusiveStep, InsertedStep, PlacedStep, StartedStep, CountedStep,
       ReportedStep, CompletedStep DEF IInv
  <1>2. CASE UNCHANGED vars
    BY <1>2 DEF vars, setting, IInv, TypeOK, Exclusive, Inserted, Placed, Started, Counted,
                Bounded, MaySettle, Reported, CompletedIsSettled
  <1> QED
    BY <1>1, <1>2

LEMMA Invariance == Spec => []IInv
  BY Initially, Inductive, PTL DEF Spec
-----------------------------------------------------------------------------
(* Every row, job and worker of EscrowTransactionService has the values    *)
(* TypeOK lists, and no job is run again more often than Bull's bound.     *)
THEOREM TransactionTypes == Spec => []TypeOK
  <1>1. IInv => TypeOK
    BY DEF IInv
  <1> QED
    BY <1>1, Invariance, PTL

(* processTransaction reports a payment completed, to the table or to the  *)
(* queue, only if it was carried out: for any number of payments, workers, *)
(* rejected calls, crashes and re-runs.                                    *)
THEOREM CompletionsAreSettled == Spec => []CompletedIsSettled
  <1>1. IInv => CompletedIsSettled
    BY DEF IInv
  <1> QED
    BY <1>1, Invariance, PTL

(* A transaction with the queued job as its only consumer is carried out   *)
(* once at most, whatever is rejected, dies and is run again.              *)
THEOREM OneConsumerSettlesOnce == Spec => []SingleConsumerSettlesOnce
  <1>1. IInv => SingleConsumerSettlesOnce
    <2> SUFFICES ASSUME IInv, NEW r \in Rows, rows[r].job \in Jobs \ direct
                 PROVE  settled[r] <= 1
      BY DEF SingleConsumerSettlesOnce
    <2>1. Bounded(r)
      BY DEF IInv, Counted
    <2> QED
      BY <2>1 DEF Bounded
  <1> QED
    BY <1>1, Invariance, PTL

(* With create-transaction processing as well, twice at most: once for     *)
(* each of the two consumers, re-runs of their jobs included.              *)
THEOREM TwoConsumersSettleTwice == Spec => []AtMostTwice
  <1>1. IInv => AtMostTwice
    <2> SUFFICES ASSUME IInv, NEW r \in Rows
                 PROVE  settled[r] <= 2
      BY DEF AtMostTwice
    <2>1. Bounded(r)
      BY DEF IInv, Counted
    <2> QED
      BY <2>1 DEF Bounded
  <1> QED
    BY <1>1, Invariance, PTL
=============================================================================
