-------------------------- MODULE EscrowFunds_proofs --------------------------
(***************************************************************************)
(* Theorems about EscrowFunds for any set of escrows, any number of        *)
(* handlers, any total and any bound on the requests.                      *)
(***************************************************************************)
EXTENDS EscrowFunds, TLAPS

-----------------------------------------------------------------------------
(* The state machine itself.                                               *)

(* Nothing leads out of a terminal status, and every status the table      *)
(* leads to is a status: the table of EscrowStateService is closed.        *)
THEOREM TableIsClosed ==
    ASSUME NEW s, NEW t, canTransitionTo(s, t)
    PROVE  s \in EscrowStatus /\ t \in EscrowStatus /\ ~isTerminalState(s)
  BY DEF canTransitionTo, stateTransitions, EscrowStatus, isTerminalState
-----------------------------------------------------------------------------
(* Type correctness.                                                       *)

LEMMA NoRowType == NoRow \in EscrowRow
  BY ConstantsAssumption DEF NoRow, EscrowRow

LEMMA NoTaskType == NoTask \in Task
  BY ConstantsAssumption, NoRowType DEF NoTask, Task, Operations

LEMMA AfterReleaseType ==
    ASSUME NEW row \in EscrowRow, NEW amount \in 0..Total, amount <= row.locked
    PROVE  AfterRelease(row, amount) \in EscrowRow
  <1> DEFINE released == row.released + Appended(amount)
             locked   == row.locked - amount
             status   == IF row.locked - amount <= 0 THEN "completed" ELSE row.status
  <1>1. released \in Nat
    BY DEF Appended, EscrowRow
  <1>2. locked \in 0..Total
    BY ConstantsAssumption DEF EscrowRow
  <1>3. status \in EscrowStatus \cup {"absent"}
    BY DEF EscrowRow, EscrowStatus
  <1>4. AfterRelease(row, amount) = [row EXCEPT !.released = released, !.locked = locked,
                                                !.status = status]
    BY DEF AfterRelease
  <1> HIDE DEF released, locked, status
  <1> QED
    BY <1>1, <1>2, <1>3, <1>4 DEF EscrowRow

(* A handler that starts with a well-typed copy keeps the types.           *)
LEMMA BeginType ==
    ASSUME TypeOK, NEW p \in Procs, NEW op \in {"create", "update", "fund", "release",
                                                "releaseAll", "cancel"},
           NEW e \in Escrows, NEW row \in EscrowRow, NEW amount \in 0..Total,
           Begin(p, op, e, row, amount)
    PROVE  TypeOK'
  <1>1. [op |-> op, escrow |-> e, row |-> row, amount |-> amount] \in Task
    BY DEF Task, Operations
  <1>2. requests' \in 0..MaxRequests
    BY ConstantsAssumption DEF Begin, TypeOK
  <1> QED
    BY <1>1, <1>2 DEF Begin, TypeOK

LEMMA DoneType ==
    ASSUME TypeOK, NEW p \in Procs, Done(p)
    PROVE  /\ pc' \in [Procs -> {"idle", "save", "queue", "audit", "notify", "after"}]
           /\ task' \in [Procs -> Task]
  BY NoTaskType DEF Done, TypeOK

LEMMA RequestType ==
    ASSUME TypeOK, NEW p \in Procs, Request(p)
    PROVE  TypeOK'
  <1> PICK e \in Escrows : \/ createEscrow(p, e)
                           \/ updateEscrow(p, e)
                           \/ fundEscrow(p, e)
                           \/ releaseEscrowFunds(p, e)
                           \/ releaseAll(p, e)
                           \/ cancelEscrow(p, e)
    BY DEF Request
  <1>0. rows[e] \in EscrowRow /\ Total \in Nat /\ 0 \in 0..Total /\ Total \in 0..Total
    BY ConstantsAssumption DEF TypeOK
  <1>1. CASE createEscrow(p, e)
    <2>1. PICK multi \in BOOLEAN :
            Begin(p, "create", e, [NoRow EXCEPT !.status = "created", !.multi = multi], 0)
      BY <1>1 DEF createEscrow
    <2>2. [NoRow EXCEPT !.status = "created", !.multi = multi] \in EscrowRow
      BY <1>0 DEF NoRow, EscrowRow, EscrowStatus
    <2> QED
      BY <1>0, <2>1, <2>2, BeginType
  <1>2. CASE updateEscrow(p, e)
    <2>1. PICK s \in {rows[e].status} \cup BulkStatuses :
            Begin(p, "update", e, [rows[e] EXCEPT !.status = s], 0)
      BY <1>2 DEF updateEscrow
    <2>2. [rows[e] EXCEPT !.status = s] \in EscrowRow
      BY <1>0, ConstantsAssumption DEF EscrowRow
    <2> QED
      BY <1>0, <2>1, <2>2, BeginType
  <1>3. CASE fundEscrow(p, e)
    <2>1. [rows[e] EXCEPT !.status = "funded", !.locked = Total] \in EscrowRow
      BY <1>0 DEF EscrowRow, EscrowStatus
    <2> QED
      BY <1>0, <1>3, <2>1, BeginType DEF fundEscrow
  <1>4. CASE releaseEscrowFunds(p, e)
    <2>1. PICK amount \in 1..Total : /\ validateFundRelease(rows[e], amount)
                                     /\ Begin(p, "release", e, AfterRelease(rows[e], amount),
                                              amount)
      BY <1>4 DEF releaseEscrowFunds
    <2>2. amount \in 0..Total
      BY <1>0
    <2>3. AfterRelease(rows[e], amount) \in EscrowRow
      BY <1>0, <2>1, <2>2, AfterReleaseType DEF validateFundRelease
    <2> QED
      BY <2>1, <2>2, <2>3, BeginType
  <1>5. CASE releaseAll(p, e)
    <2>1. rows[e].locked \in 0..Total
      BY <1>0 DEF EscrowRow
    <2> QED
      BY <1>0, <1>5, <2>1, BeginType DEF releaseAll
  <1>6. CASE cancelEscrow(p, e)
    <2>1. /\ rows[e].locked \in 0..Total
          /\ [rows[e] EXCEPT !.status = "cancelled"] \in EscrowRow
      BY <1>0 DEF EscrowRow, EscrowStatus
    <2> QED
      BY <1>0, <1>6, <2>1, BeginType DEF cancelEscrow
  <1> QED
    BY <1>1, <1>2, <1>3, <1>4, <1>5, <1>6

LEMMA SaveType ==
    ASSUME TypeOK, NEW p \in Procs, save(p)
    PROVE  TypeOK'
  <1> DEFINE e == task[p].escrow
  <1>1. task[p] \in Task
    BY DEF TypeOK
  <1>2. e \in Escrows /\ task[p].row \in EscrowRow /\ task[p].amount \in Int
    BY <1>1, ConstantsAssumption DEF Task
  <1>3. rows' \in [Escrows -> EscrowRow]
    BY <1>2 DEF save, TypeOK
  <1>4. ledger' \in [Escrows -> [deposit : Nat, due : Int, release : Nat, refund : Nat]]
    <2>1. CASE task[p].op \in Payments
      <3>1. ledger' = [ledger EXCEPT ![e].due = @ + task[p].amount]
        BY <2>1 DEF save
      <3>2. ledger[e].due + task[p].amount \in Int
        BY <1>2 DEF TypeOK
      <3> QED
        BY <1>2, <3>1, <3>2 DEF TypeOK
    <2>2. CASE task[p].op \notin Payments
      BY <2>2 DEF save, TypeOK
    <2> QED
      BY <2>1, <2>2
  <1>5. pc' \in [Procs -> {"idle", "save", "queue", "audit", "notify", "after"}]
    BY DEF save, TypeOK
  <1> QED
    BY <1>3, <1>4, <1>5 DEF save, TypeOK

LEMMA QueueTransactionType ==
    ASSUME TypeOK, NEW p \in Procs, queueTransaction(p)
    PROVE  TypeOK'
  <1> DEFINE e == task[p].escrow
             a == task[p].amount
  <1>1. task[p] \in Task
    BY DEF TypeOK
  <1>2. e \in Escrows /\ a \in Nat
    BY <1>1, ConstantsAssumption DEF Task
  <1>3. ledger[e] \in [deposit : Nat, due : Int, release : Nat, refund : Nat]
    BY <1>2 DEF TypeOK
  <1>4. /\ ledger[e].deposit + a \in Nat
        /\ ledger[e].release + a \in Nat
        /\ ledger[e].refund + a \in Nat
        /\ ledger[e].due - a \in Int
    BY <1>2, <1>3
  <1>5. \/ ledger' = [ledger EXCEPT ![e].deposit = @ + a]
        \/ ledger' = [ledger EXCEPT ![e].release = @ + a, ![e].due = @ - a]
        \/ ledger' = [ledger EXCEPT ![e].refund = @ + a, ![e].due = @ - a]
    BY DEF queueTransaction
  <1>6. ledger' \in [Escrows -> [deposit : Nat, due : Int, release : Nat, refund : Nat]]
    BY <1>2, <1>3, <1>4, <1>5 DEF TypeOK
  <1> QED
    BY <1>6 DEF queueTransaction, TypeOK

LEMMA OtherStepsType ==
    ASSUME TypeOK, NEW p \in Procs,
           \/ queueMilestones(p)
           \/ logAction(p)
           \/ notify(p)
           \/ queueFollowUp(p)
           \/ fail(p)
    PROVE  TypeOK'
  <1>1. task[p] \in Task
    BY DEF TypeOK
  <1>2. task[p].escrow \in Escrows /\ task[p].op \in Operations
    BY <1>1 DEF Task
  <1>3. CASE queueMilestones(p)
    BY <1>2, <1>3 DEF queueMilestones, TypeOK
  <1>4. CASE logAction(p)
    <2>1. audit' \in [Escrows -> SUBSET Operations]
      BY <1>2, <1>4 DEF logAction, TypeOK
    <2> QED
      BY <1>4, <2>1, DoneType DEF logAction, TypeOK
  <1>5. CASE notify(p)
    BY <1>5, DoneType DEF notify, TypeOK
  <1>6. CASE queueFollowUp(p)
    BY <1>2, <1>6, DoneType DEF queueFollowUp, TypeOK
  <1>7. CASE fail(p)
    BY <1>7, DoneType DEF fail, TypeOK
  <1> QED
    BY <1>3, <1>4, <1>5, <1>6, <1>7

(* Whatever the constants, and however handlers interleave and fail, the   *)
(* state stays well typed; in particular no locked amount, stored or held  *)
(* by a handler, is ever negative or above the total.                      *)
THEOREM TypeCorrect == Spec => []TypeOK
  <1>1. Init => TypeOK
    BY NoRowType, NoTaskType, ConstantsAssumption DEF Init, TypeOK
  <1>2. TypeOK /\ [Next]_vars => TypeOK'
    <2> SUFFICES ASSUME TypeOK, [Next]_vars
                 PROVE  TypeOK'
      OBVIOUS
    <2>1. CASE Next
      BY <2>1, RequestType, SaveType, QueueTransactionType, OtherStepsType DEF Next
    <2>2. CASE UNCHANGED vars
      BY <2>2 DEF vars, TypeOK
    <2> QED
      BY <2>1, <2>2
  <1> QED
    BY <1>1, <1>2, PTL DEF Spec
-----------------------------------------------------------------------------
(* A service whose bulk updates carry no status: an escrow has one of four *)
(* statuses, and its money agrees with it.                                 *)

Plain(row) == /\ row.status \in {"absent", "created", "funded", "completed", "cancelled"}
              /\ Coherent(row)

PlainRows == \A e \in Escrows : Plain(rows[e])

(* What a handler that read the row r is about to save, and to pay.        *)
Derived(op, r, row, amount) ==
    \/ /\ op = "create"
       /\ r.status = "absent" /\ row.status = "created" /\ row.locked = 0
    \/ /\ op \in {"update", "releaseAll"}
       /\ row.status = r.status /\ row.locked = r.locked
    \/ /\ op = "fund"
       /\ r.status = "created" /\ row.status = "funded" /\ row.locked = Total
    \/ /\ op = "release"
       /\ r.status = "funded" /\ amount \in 1..Total /\ amount <= r.locked
       /\ row.locked = r.locked - amount
       /\ row.status = IF r.locked = amount THEN "completed" ELSE "funded"
    \/ /\ op = "cancel"
       /\ r.status \in {"created", "funded"} /\ row.status = "cancelled"
       /\ row.locked = r.locked /\ amount = r.locked

LEMMA DerivedPlain ==
    ASSUME NEW op, NEW amount, NEW r \in EscrowRow, NEW row \in EscrowRow,
           Plain(r), Derived(op, r, row, amount)
    PROVE  Plain(row)
  BY ConstantsAssumption DEF Derived, Plain, Coherent, EscrowRow

LEMMA ReleaseDerived ==
    ASSUME NEW r \in EscrowRow, NEW amount \in 1..Total, Plain(r),
           validateFundRelease(r, amount)
    PROVE  Derived("release", r, AfterRelease(r, amount), amount)
  <1> DEFINE row == AfterRelease(r, amount)
  <1>1. r.locked \in Nat /\ amount \in Nat /\ amount <= r.locked
    BY ConstantsAssumption DEF EscrowRow, validateFundRelease
  <1>2. r.status = "funded"
    BY DEF validateFundRelease, Releasable, Plain, Coherent
  <1>3. row.locked = r.locked - amount
    BY DEF AfterRelease, EscrowRow
  <1>4. row.status = IF r.locked - amount <= 0 THEN "completed" ELSE r.status
    BY DEF AfterRelease, EscrowRow
  <1>5. row.status = IF r.locked = amount THEN "completed" ELSE "funded"
    BY <1>1, <1>2, <1>4
  <1> QED
    BY <1>1, <1>2, <1>3, <1>5 DEF Derived

(* Every handler that starts saves something derived from the row it read. *)
LEMMA RequestDerived ==
    ASSUME BulkStatuses = {}, TypeOK, PlainRows, NEW p \in Procs, Request(p)
    PROVE  \E op \in Operations, e \in Escrows, row \in EscrowRow, amount \in 0..Total :
              /\ Begin(p, op, e, row, amount)
              /\ Derived(op, rows[e], row, amount)
  <1> PICK e \in Escrows : \/ createEscrow(p, e)
                           \/ updateEscrow(p, e)
                           \/ fundEscrow(p, e)
                           \/ releaseEscrowFunds(p, e)
                           \/ releaseAll(p, e)
                           \/ cancelEscrow(p, e)
    BY DEF Request
  <1> DEFINE r == rows[e]
             Goal(op, row, amount) == /\ op \in Operations
                                      /\ row \in EscrowRow
                                      /\ amount \in 0..Total
                                      /\ Begin(p, op, e, row, amount)
                                      /\ Derived(op, r, row, amount)
  <1>0. SUFFICES \E op, row, amount : Goal(op, row, amount)
    OBVIOUS
  <1>a. r \in EscrowRow /\ Total \in Nat /\ 0 \in 0..Total /\ Total \in 0..Total
    BY ConstantsAssumption DEF TypeOK
  <1>b. Plain(r) /\ r.locked \in 0..Total
    BY <1>a DEF PlainRows, EscrowRow
  <1>1. CASE createEscrow(p, e)
    <2>1. PICK multi \in BOOLEAN :
            Begin(p, "create", e, [NoRow EXCEPT !.status = "created", !.multi = multi], 0)
      BY <1>1 DEF createEscrow
    <2> DEFINE row == [NoRow EXCEPT !.status = "created", !.multi = multi]
    <2>2. row \in EscrowRow /\ row.status = "created" /\ row.locked = 0
      BY <1>a DEF NoRow, EscrowRow, EscrowStatus
    <2>a. r = NoRow
      BY <1>1 DEF createEscrow
    <2>3. r.status = "absent"
      BY <2>a DEF NoRow
    <2>4. Goal("create", row, 0)
      BY <1>a, <2>1, <2>2, <2>3 DEF Derived, Operations
    <2> QED
      BY <2>4
  <1>2. CASE updateEscrow(p, e)
    <2> DEFINE row == [r EXCEPT !.status = r.status]
    <2>1. Begin(p, "update", e, row, 0)
      BY <1>2 DEF updateEscrow
    <2>2. row \in EscrowRow /\ row.status = r.status /\ row.locked = r.locked
      BY <1>a DEF EscrowRow
    <2>3. Goal("update", row, 0)
      BY <1>a, <2>1, <2>2 DEF Derived, Operations
    <2> QED
      BY <2>3
  <1>3. CASE fundEscrow(p, e)
    <2> DEFINE row == [r EXCEPT !.status = "funded", !.locked = Total]
    <2>1. row \in EscrowRow /\ row.status = "funded" /\ row.locked = Total
      BY <1>a DEF EscrowRow, EscrowStatus
    <2>2. r.status = "created"
      BY <1>3, <1>b DEF fundEscrow, canTransitionTo, stateTransitions, Plain, Coherent
    <2>3. Goal("fund", row, Total)
      BY <1>3, <1>a, <2>1, <2>2 DEF Derived, Operations, fundEscrow
    <2> QED
      BY <2>3
  <1>4. CASE releaseEscrowFunds(p, e)
    <2>1. PICK amount \in 1..Total : /\ validateFundRelease(r, amount)
                                     /\ Begin(p, "release", e, AfterRelease(r, amount), amount)
      BY <1>4 DEF releaseEscrowFunds
    <2>2. amount \in 0..Total
      BY <1>a
    <2>3. AfterRelease(r, amount) \in EscrowRow
      BY <1>a, <2>1, <2>2, AfterReleaseType DEF validateFundRelease
    <2>4. Derived("release", r, AfterRelease(r, amount), amount)
      BY <1>a, <1>b, <2>1, ReleaseDerived
    <2>5. Goal("release", AfterRelease(r, amount), amount)
      BY <2>1, <2>2, <2>3, <2>4 DEF Operations
    <2> QED
      BY <2>5
  <1>5. CASE releaseAll(p, e)
    <2>1. Goal("releaseAll", r, r.locked)
      BY <1>5, <1>a, <1>b DEF releaseAll, Derived, Operations
    <2> QED
      BY <2>1
  <1>6. CASE cancelEscrow(p, e)
    <2> DEFINE row == [r EXCEPT !.status = "cancelled"]
    <2>1. row \in EscrowRow /\ row.status = "cancelled" /\ row.locked = r.locked
      BY <1>a DEF EscrowRow, EscrowStatus
    <2>2. r.status \in {"created", "funded"}
      BY <1>6, <1>b DEF cancelEscrow, canTransitionTo, stateTransitions, Plain, Coherent
    <2>3. Goal("cancel", row, r.locked)
      BY <1>6, <1>a, <1>b, <2>1, <2>2 DEF Derived, Operations, cancelEscrow
    <2> QED
      BY <2>3
  <1> HIDE DEF Goal
  <1> QED
    BY <1>1, <1>2, <1>3, <1>4, <1>5, <1>6
-----------------------------------------------------------------------------
(* That survives interleaving.  On its own it is not inductive: a save     *)
(* brings in a copy, so the copies have to be plain as well.               *)

CopiesPlain == \A p \in Procs : pc[p] = "save" => Plain(task[p].row)

PlainInv == TypeOK /\ PlainRows /\ CopiesPlain

LEMMA PlainInit == Init => PlainRows /\ CopiesPlain
  BY DEF Init, PlainRows, CopiesPlain, Plain, Coherent, NoRow

LEMMA PlainRequest ==
    ASSUME BulkStatuses = {}, PlainInv, NEW p \in Procs, Request(p)
    PROVE  PlainRows' /\ CopiesPlain'
  <1>1. PICK op \in Operations, e \in Escrows, row \in EscrowRow, amount \in 0..Total :
           /\ Begin(p, op, e, row, amount)
           /\ Derived(op, rows[e], row, amount)
    BY RequestDerived DEF PlainInv
  <1>2. rows[e] \in EscrowRow /\ Plain(rows[e])
    BY DEF PlainInv, TypeOK, PlainRows
  <1>3. Plain(row)
    BY <1>1, <1>2, DerivedPlain
  <1>4. rows' = rows
    BY <1>1 DEF Begin
  <1>5. PlainRows'
    BY <1>4 DEF PlainInv, PlainRows
  <1>6. task'[p].row = row /\ \A q \in Procs \ {p} : pc'[q] = pc[q] /\ task'[q] = task[q]
    BY <1>1 DEF Begin, PlainInv, TypeOK
  <1>7. CopiesPlain'
    BY <1>3, <1>6 DEF PlainInv, CopiesPlain
  <1> QED
    BY <1>5, <1>7

LEMMA PlainSave ==
    ASSUME PlainInv, NEW p \in Procs, save(p)
    PROVE  PlainRows' /\ CopiesPlain'
  <1>1. task[p].escrow \in Escrows
    BY DEF PlainInv, TypeOK, Task
  <1>2. Plain(task[p].row)
    BY DEF save, PlainInv, CopiesPlain
  <1>3. \A e \in Escrows : rows'[e] = IF e = task[p].escrow THEN task[p].row ELSE rows[e]
    BY <1>1 DEF save, PlainInv, TypeOK
  <1>4. PlainRows'
    BY <1>2, <1>3 DEF PlainInv, PlainRows
  <1>5. task' = task /\ \A q \in Procs : pc'[q] = "save" => pc[q] = "save"
    BY DEF save, PlainInv, TypeOK
  <1>6. CopiesPlain'
    BY <1>5 DEF PlainInv, CopiesPlain
  <1> QED
    BY <1>4, <1>6

(* The steps after the save: they touch no row, no copy that is still to   *)
(* be saved, and put no handler before its save.                           *)
LaterStep(p) == \/ queueTransaction(p)
                \/ queueMilestones(p)
                \/ logAction(p)
                \/ notify(p)
                \/ queueFollowUp(p)
                \/ fail(p)

LEMMA LaterStepFrame ==
    ASSUME TypeOK, NEW p \in Procs, LaterStep(p)
    PROVE  /\ rows' = rows
           /\ pc'[p] \notin {"save", "queue"}
           /\ \A q \in Procs \ {p} : pc'[q] = pc[q] /\ task'[q] = task[q]
  <1>1. CASE queueTransaction(p)
    BY <1>1 DEF queueTransaction, TypeOK
  <1>2. CASE queueMilestones(p)
    BY <1>2 DEF queueMilestones, TypeOK
  <1>3. CASE logAction(p)
    BY <1>3 DEF logAction, Done, TypeOK
  <1>4. CASE notify(p)
    BY <1>4 DEF notify, Done, TypeOK
  <1>5. CASE queueFollowUp(p)
    BY <1>5 DEF queueFollowUp, Done, TypeOK
  <1>6. CASE fail(p)
    BY <1>6 DEF fail, Done, TypeOK
  <1> QED
    BY <1>1, <1>2, <1>3, <1>4, <1>5, <1>6 DEF LaterStep

LEMMA PlainStep ==
    ASSUME BulkStatuses = {}, PlainInv, [Next]_vars
    PROVE  PlainRows' /\ CopiesPlain'
  <1>1. CASE UNCHANGED vars
    BY <1>1 DEF vars, PlainInv, PlainRows, CopiesPlain
  <1>2. ASSUME NEW p \in Procs, LaterStep(p)
        PROVE  PlainRows' /\ CopiesPlain'
    BY <1>2, LaterStepFrame DEF PlainInv, PlainRows, CopiesPlain
  <1> QED
    BY <1>1, <1>2, PlainRequest, PlainSave DEF Next, LaterStep

-----------------------------------------------------------------------------
(* Coherence alone, with bulk updates that carry statuses: it is enough    *)
(* that they carry none that says something of the money.                  *)

CopiesCoherent == \A p \in Procs : pc[p] = "save" => Coherent(task[p].row)

CoherenceInv == TypeOK /\ MoneyBehindStatus /\ CopiesCoherent

LEMMA ReleaseCoherent ==
    ASSUME NEW r \in EscrowRow, NEW amount \in 1..Total, validateFundRelease(r, amount)
    PROVE  Coherent(AfterRelease(r, amount))
  <1> DEFINE row == AfterRelease(r, amount)
  <1>1. r.locked \in Nat /\ amount \in Nat /\ amount <= r.locked
    BY ConstantsAssumption DEF EscrowRow, validateFundRelease
  <1>2. r.status \in {"funded", "in_progress", "milestone_pending"}
    BY DEF validateFundRelease, Releasable
  <1>3. row.locked = r.locked - amount
    BY DEF AfterRelease, EscrowRow
  <1>4. row.status = IF r.locked - amount <= 0 THEN "completed" ELSE r.status
    BY DEF AfterRelease, EscrowRow
  <1> HIDE DEF row
  <1> SUFFICES Coherent(row)
    BY DEF row
  <1>5. CASE r.locked = amount
    BY <1>1, <1>3, <1>4, <1>5 DEF Coherent
  <1>6. CASE r.locked # amount
    <2>1. row.locked > 0 /\ row.status = r.status
      BY <1>1, <1>3, <1>4, <1>6
    <2> QED
      BY <1>2, <2>1 DEF Coherent
  <1> QED
    BY <1>5, <1>6

(* Whatever a handler is about to save is coherent.                        *)
LEMMA RequestCoherent ==
    ASSUME BulkStatuses \cap {"created", "funded", "completed"} = {},
           TypeOK, MoneyBehindStatus, NEW p \in Procs, Request(p)
    PROVE  \E op, e, row, amount : Begin(p, op, e, row, amount) /\ Coherent(row)
  <1> PICK e \in Escrows : \/ createEscrow(p, e)
                           \/ updateEscrow(p, e)
                           \/ fundEscrow(p, e)
                           \/ releaseEscrowFunds(p, e)
                           \/ releaseAll(p, e)
                           \/ cancelEscrow(p, e)
    BY DEF Request
  <1>0. rows[e] \in EscrowRow /\ Coherent(rows[e]) /\ Total \in Nat \ {0}
    BY ConstantsAssumption DEF TypeOK, MoneyBehindStatus
  <1>1. CASE createEscrow(p, e)
    <2>1. PICK multi \in BOOLEAN :
            Begin(p, "create", e, [NoRow EXCEPT !.status = "created", !.multi = multi], 0)
      BY <1>1 DEF createEscrow
    <2>2. Coherent([NoRow EXCEPT !.status = "created", !.multi = multi])
      BY DEF NoRow, Coherent
    <2> QED
      BY <2>1, <2>2
  <1>2. CASE updateEscrow(p, e)
    <2>1. PICK s \in {rows[e].status} \cup BulkStatuses :
            Begin(p, "update", e, [rows[e] EXCEPT !.status = s], 0)
      BY <1>2 DEF updateEscrow
    <2>3. CASE s = rows[e].status
      <3>1. Coherent([rows[e] EXCEPT !.status = s])
        BY <1>0, <2>3 DEF Coherent, EscrowRow
      <3> QED
        BY <2>1, <3>1
    <2>4. CASE s \in BulkStatuses
      <3>1. s \notin {"absent", "created", "funded", "completed"}
        BY <2>4, ConstantsAssumption DEF EscrowStatus
      <3>2. Coherent([rows[e] EXCEPT !.status = s])
        BY <1>0, <3>1 DEF Coherent, EscrowRow
      <3> QED
        BY <2>1, <3>2
    <2> QED
      BY <2>1, <2>3, <2>4
  <1>3. CASE fundEscrow(p, e)
    <2>1. Coherent([rows[e] EXCEPT !.status = "funded", !.locked = Total])
      BY <1>0 DEF Coherent, EscrowRow
    <2> QED
      BY <1>3, <2>1 DEF fundEscrow
  <1>4. CASE releaseEscrowFunds(p, e)
    <2>1. PICK amount \in 1..Total : /\ validateFundRelease(rows[e], amount)
                                     /\ Begin(p, "release", e, AfterRelease(rows[e], amount),
                                              amount)
      BY <1>4 DEF releaseEscrowFunds
    <2> QED
      BY <1>0, <2>1, ReleaseCoherent
  <1>5. CASE releaseAll(p, e)
    BY <1>0, <1>5 DEF releaseAll
  <1>6. CASE cancelEscrow(p, e)
    <2>1. Coherent([rows[e] EXCEPT !.status = "cancelled"])
      BY <1>0 DEF Coherent, EscrowRow
    <2> QED
      BY <1>6, <2>1 DEF cancelEscrow
  <1> QED
    BY <1>1, <1>2, <1>3, <1>4, <1>5, <1>6

LEMMA CoherenceRequest ==
    ASSUME BulkStatuses \cap {"created", "funded", "completed"} = {},
           CoherenceInv, NEW p \in Procs, Request(p)
    PROVE  MoneyBehindStatus' /\ CopiesCoherent'
  <1>1. PICK op, e, row, amount : Begin(p, op, e, row, amount) /\ Coherent(row)
    BY RequestCoherent DEF CoherenceInv
  <1>2. rows' = rows
    BY <1>1 DEF Begin
  <1>3. task'[p].row = row /\ \A q \in Procs \ {p} : pc'[q] = pc[q] /\ task'[q] = task[q]
    BY <1>1 DEF Begin, CoherenceInv, TypeOK
  <1> QED
    BY <1>1, <1>2, <1>3 DEF CoherenceInv, MoneyBehindStatus, CopiesCoherent

LEMMA CoherenceSave ==
    ASSUME CoherenceInv, NEW p \in Procs, save(p)
    PROVE  MoneyBehindStatus' /\ CopiesCoherent'
  <1>1. task[p].escrow \in Escrows /\ Coherent(task[p].row)
    BY DEF save, CoherenceInv, CopiesCoherent, TypeOK, Task
  <1>2. \A e \in Escrows : rows'[e] = IF e = task[p].escrow THEN task[p].row ELSE rows[e]
    BY <1>1 DEF save, CoherenceInv, TypeOK
  <1>3. task' = task /\ \A q \in Procs : pc'[q] = "save" => pc[q] = "save"
    BY DEF save, CoherenceInv, TypeOK
  <1> QED
    BY <1>1, <1>2, <1>3 DEF CoherenceInv, MoneyBehindStatus, CopiesCoherent

LEMMA CoherenceStep ==
    ASSUME BulkStatuses \cap {"created", "funded", "completed"} = {},
           CoherenceInv, [Next]_vars
    PROVE  MoneyBehindStatus' /\ CopiesCoherent'
  <1>1. CASE UNCHANGED vars
    BY <1>1 DEF vars, CoherenceInv, MoneyBehindStatus, CopiesCoherent
  <1>2. ASSUME NEW p \in Procs, LaterStep(p)
        PROVE  MoneyBehindStatus' /\ CopiesCoherent'
    BY <1>2, LaterStepFrame DEF CoherenceInv, MoneyBehindStatus, CopiesCoherent
  <1> QED
    BY <1>1, <1>2, CoherenceRequest, CoherenceSave DEF Next, LaterStep

(* However many handlers overlap, and wherever they fail, an escrow that   *)
(* is stored as funded holds money, and one stored as created or completed *)
(* holds none; and that whatever the statuses bulk updates carry, as long  *)
(* as they are not these three.                                            *)
THEOREM MoneyStaysBehindStatus ==
    ASSUME BulkStatuses \cap {"created", "funded", "completed"} = {}
    PROVE  Spec => []MoneyBehindStatus
  <1>1. Init => MoneyBehindStatus /\ CopiesCoherent
    BY DEF Init, MoneyBehindStatus, CopiesCoherent, Coherent, NoRow
  <1>2. /\ TypeOK /\ MoneyBehindStatus /\ CopiesCoherent
        /\ [Next]_vars
        => MoneyBehindStatus' /\ CopiesCoherent'
    BY CoherenceStep DEF CoherenceInv
  <1> QED
    BY <1>1, <1>2, TypeCorrect, PTL DEF Spec
-----------------------------------------------------------------------------
(* The order of the awaits of fundEscrow.  Deposits are only ever added to *)
(* and the audit log is only appended to, so what a funding has done still *)
(* stands when it goes on, whatever other handlers did in between.         *)

FundingSteps == \A p \in Procs : task[p].op = "fund" =>
    LET e == task[p].escrow IN
    /\ task[p].amount > 0
    /\ pc[p] \in {"audit", "notify", "after"} => ledger[e].deposit > 0
    /\ pc[p] \in {"notify", "after"} => "fund" \in audit[e]

OrderInv == TypeOK /\ FundingOrder /\ FundingSteps

Grows == \A e \in Escrows : /\ ledger'[e].deposit >= ledger[e].deposit
                            /\ audit[e] \subseteq audit'[e]

Unmoved(p) == \A q \in Procs \ {p} : pc'[q] = pc[q] /\ task'[q] = task[q]

(* A handler that did nothing wrong leaves the others as they were.        *)
LEMMA OrderKept ==
    ASSUME OrderInv, NEW p \in Procs, Grows, Unmoved(p), TypeOK',
           task'[p].op = "fund" =>
               /\ task'[p].amount > 0
               /\ pc'[p] \in {"audit", "notify", "after"} =>
                      ledger'[task'[p].escrow].deposit > 0
               /\ pc'[p] \in {"notify", "after"} => "fund" \in audit'[task'[p].escrow],
           \A e \in Escrows :
               /\ <<e, "start-first-milestone">> \in jobs' =>
                      <<e, "start-first-milestone">> \in jobs \/ "fund" \in audit[e]
               /\ "fund" \in audit'[e] => "fund" \in audit[e] \/ ledger[e].deposit > 0
    PROVE  OrderInv'
  <1>1. \A e \in Escrows : ledger[e].deposit \in Nat /\ ledger'[e].deposit \in Nat
    BY DEF OrderInv, TypeOK
  <1>2. FundingOrder'
    <2>1. ASSUME NEW e \in Escrows, <<e, "start-first-milestone">> \in jobs'
          PROVE  "fund" \in audit'[e]
      BY <2>1 DEF OrderInv, FundingOrder, Grows
    <2>2. ASSUME NEW e \in Escrows, "fund" \in audit'[e]
          PROVE  ledger'[e].deposit > 0
      <3>1. ledger[e].deposit > 0
        BY <2>2 DEF OrderInv, FundingOrder
      <3> QED
        BY <1>1, <3>1 DEF Grows
    <2> QED
      BY <2>1, <2>2 DEF FundingOrder
  <1>3. ASSUME NEW q \in Procs \ {p}, task'[q].op = "fund"
        PROVE  /\ task'[q].amount > 0
               /\ pc'[q] \in {"audit", "notify", "after"} =>
                      ledger'[task'[q].escrow].deposit > 0
               /\ pc'[q] \in {"notify", "after"} => "fund" \in audit'[task'[q].escrow]
    <2>1. task'[q] = task[q] /\ pc'[q] = pc[q] /\ task[q].escrow \in Escrows
      BY <1>3 DEF Unmoved, OrderInv, TypeOK, Task
    <2> QED
      BY <1>1, <1>3, <2>1 DEF OrderInv, FundingSteps, Grows
  <1>4. FundingSteps'
    BY <1>3 DEF FundingSteps
  <1> QED
    BY <1>2, <1>4 DEF OrderInv

LEMMA OrderRequest ==
    ASSUME OrderInv, NEW p \in Procs, Request(p), TypeOK'
    PROVE  OrderInv'
  <1>1. \A op \in {"create", "update", "fund", "release", "releaseAll", "cancel"},
           f \in Escrows : \A row, amount :
             Begin(p, op, f, row, amount) =>
                 /\ UNCHANGED <<ledger, jobs, audit>>
                 /\ Unmoved(p)
                 /\ pc'[p] = "save"
                 /\ task'[p].op = op /\ task'[p].amount = amount
    BY DEF Begin, Unmoved, OrderInv, TypeOK
  <1>2. /\ UNCHANGED <<ledger, jobs, audit>>
        /\ Unmoved(p)
        /\ pc'[p] = "save"
        /\ task'[p].op = "fund" => task'[p].amount = Total
    BY <1>1 DEF Request, createEscrow, updateEscrow, fundEscrow, releaseEscrowFunds,
                releaseAll, cancelEscrow
  <1>3. Grows
    BY <1>2 DEF Grows, OrderInv, TypeOK
  <1> QED
    BY <1>2, <1>3, OrderKept, ConstantsAssumption

(* The handler is done with, or in the middle of, what is not a funding.   *)
LEMMA DoneUnmoved ==
    ASSUME TypeOK, NEW p \in Procs, Done(p)
    PROVE  Unmoved(p) /\ task'[p].op = "none"
  BY DEF Done, Unmoved, TypeOK, NoTask

LEMMA OrderSave ==
    ASSUME OrderInv, NEW p \in Procs, save(p), TypeOK'
    PROVE  OrderInv'
  <1>1. task' = task /\ jobs' = jobs /\ audit' = audit
    BY DEF save
  <1>2. Unmoved(p) /\ (task[p].op = "fund" => pc'[p] = "queue")
    BY <1>1 DEF save, Unmoved, OrderInv, TypeOK
  <1>3. \A e \in Escrows : ledger'[e].deposit = ledger[e].deposit
    BY DEF save, OrderInv, TypeOK
  <1>4. Grows
    BY <1>1, <1>3 DEF Grows, OrderInv, TypeOK
  <1> QED
    BY <1>1, <1>2, <1>4, OrderKept DEF OrderInv, FundingSteps

LEMMA OrderQueueTransaction ==
    ASSUME OrderInv, NEW p \in Procs, queueTransaction(p), TypeOK'
    PROVE  OrderInv'
  <1> DEFINE e == task[p].escrow
             a == task[p].amount
  <1>0. e \in Escrows /\ a \in Nat /\ ledger[e].deposit \in Nat
    BY ConstantsAssumption DEF OrderInv, TypeOK, Task
  <1>1. task' = task /\ jobs' = jobs /\ audit' = audit /\ Unmoved(p) /\ pc'[p] = "audit"
    BY DEF queueTransaction, Unmoved, OrderInv, TypeOK
  <1>2. CASE task[p].op = "fund"
    <2>1. ledger' = [ledger EXCEPT ![e].deposit = @ + a] /\ a > 0
      BY <1>2 DEF queueTransaction, OrderInv, FundingSteps
    <2>2. ledger'[e].deposit = ledger[e].deposit + a
      BY <1>0, <2>1 DEF OrderInv, TypeOK
    <2>3. \A f \in Escrows \ {e} : ledger'[f].deposit = ledger[f].deposit
      BY <1>0, <2>1 DEF OrderInv, TypeOK
    <2>4. Grows
      BY <1>0, <1>1, <2>1, <2>2, <2>3 DEF Grows, OrderInv, TypeOK
    <2>5. ledger'[e].deposit > 0
      BY <1>0, <2>1, <2>2
    <2> QED
      BY <1>1, <2>1, <2>4, <2>5, OrderKept
  <1>3. CASE task[p].op # "fund"
    <2>1. \A f \in Escrows : ledger'[f].deposit = ledger[f].deposit
      BY <1>0, <1>3 DEF queueTransaction, OrderInv, TypeOK
    <2>2. Grows
      BY <1>1, <2>1 DEF Grows, OrderInv, TypeOK
    <2> QED
      BY <1>1, <1>3, <2>2, OrderKept
  <1> QED
    BY <1>2, <1>3

LEMMA OrderLater ==
    ASSUME OrderInv, NEW p \in Procs, TypeOK',
           \/ queueMilestones(p)
           \/ logAction(p)
           \/ notify(p)
           \/ queueFollowUp(p)
           \/ fail(p)
    PROVE  OrderInv'
  <1> DEFINE e == task[p].escrow
  <1>0. e \in Escrows
    BY DEF OrderInv, TypeOK, Task
  <1>1. ledger' = ledger
    BY DEF queueMilestones, logAction, notify, queueFollowUp, fail
  <1>2. CASE queueMilestones(p)
    <2>1. task' = task /\ audit' = audit /\ Unmoved(p) /\ task[p].op = "create"
      BY <1>2 DEF queueMilestones, Unmoved, OrderInv, TypeOK
    <2>2. \A f \in Escrows : <<f, "start-first-milestone">> \in jobs' =>
                             <<f, "start-first-milestone">> \in jobs
      BY <1>2 DEF queueMilestones
    <2>3. Grows
      BY <1>1, <2>1 DEF Grows, OrderInv, TypeOK
    <2> QED
      BY <2>1, <2>2, <2>3, OrderKept
  <1>3. CASE logAction(p)
    <2>1. jobs' = jobs /\ Unmoved(p) /\ (task'[p].op = "none" \/ task'[p] = task[p])
      BY <1>3, DoneUnmoved DEF logAction, Unmoved, OrderInv, TypeOK
    <2>2. \A f \in Escrows :
             audit'[f] = IF f = e THEN audit[f] \cup {task[p].op} ELSE audit[f]
      BY <1>0, <1>3 DEF logAction, OrderInv, TypeOK
    <2>3. task[p].op = "fund" => ledger[e].deposit > 0 /\ task[p].amount > 0
      BY <1>3 DEF logAction, OrderInv, FundingSteps
    <2>4. Grows
      BY <1>1, <2>2 DEF Grows, OrderInv, TypeOK
    <2> QED
      BY <1>0, <1>1, <2>1, <2>2, <2>3, <2>4, OrderKept
  <1>4. CASE notify(p)
    <2>1. jobs' = jobs /\ audit' = audit /\ Unmoved(p)
      BY <1>4, DoneUnmoved DEF notify, Unmoved, OrderInv, TypeOK
    <2>2. task'[p].op = "none" \/ (task'[p] = task[p] /\ pc[p] = "notify")
      BY <1>4, DoneUnmoved DEF notify, OrderInv
    <2>3. Grows
      BY <1>1, <2>1 DEF Grows, OrderInv, TypeOK
    <2> QED
      BY <1>1, <2>1, <2>2, <2>3, OrderKept DEF OrderInv, FundingSteps
  <1>5. CASE queueFollowUp(p)
    <2>1. audit' = audit /\ Unmoved(p) /\ task'[p].op = "none"
      BY <1>5, DoneUnmoved DEF queueFollowUp, OrderInv
    <2>2. \A f \in Escrows : <<f, "start-first-milestone">> \in jobs' =>
              \/ <<f, "start-first-milestone">> \in jobs
              \/ f = e /\ task[p].op = "fund"
      BY <1>5 DEF queueFollowUp
    <2>3. task[p].op = "fund" => "fund" \in audit[e]
      BY <1>5 DEF queueFollowUp, OrderInv, FundingSteps
    <2>4. Grows
      BY <1>1, <2>1 DEF Grows, OrderInv, TypeOK
    <2> QED
      BY <2>1, <2>2, <2>3, <2>4, OrderKept
  <1>6. CASE fail(p)
    <2>1. jobs' = jobs /\ audit' = audit /\ Unmoved(p) /\ task'[p].op = "none"
      BY <1>6, DoneUnmoved DEF fail, OrderInv
    <2>2. Grows
      BY <1>1, <2>1 DEF Grows, OrderInv, TypeOK
    <2> QED
      BY <2>1, <2>2, OrderKept
  <1> QED
    BY <1>2, <1>3, <1>4, <1>5, <1>6

(* However handlers overlap and wherever they fail, the first milestone is *)
(* started only after the funding is in the audit log, and that is there   *)
(* only after the deposit was queued.                                      *)
THEOREM FundingIsOrdered == Spec => []FundingOrder
  <1>1. Init => FundingOrder /\ FundingSteps
    BY DEF Init, FundingOrder, FundingSteps, NoTask
  <1>2. TypeOK /\ TypeOK' /\ FundingOrder /\ FundingSteps /\ [Next]_vars
        => FundingOrder' /\ FundingSteps'
    <2> SUFFICES ASSUME OrderInv, TypeOK', [Next]_vars
                 PROVE  OrderInv'
      BY DEF OrderInv
    <2>1. CASE Next
      BY <2>1, OrderRequest, OrderSave, OrderQueueTransaction, OrderLater DEF Next
    <2>2. CASE UNCHANGED vars
      BY <2>2 DEF vars, OrderInv, TypeOK, FundingOrder, FundingSteps
    <2> QED
      BY <2>1, <2>2
  <1> QED
    BY <1>1, <1>2, TypeCorrect, PTL DEF Spec
-----------------------------------------------------------------------------
(* Money is conserved when handlers do not overlap.  A payment is computed *)
(* from the row the handler read: the invariant says that the row is still *)
(* that one when the copy is saved, and that what is due covers what the   *)
(* handler is about to queue.                                              *)

Serial == \A p, q \in Procs : p = q

InFlight(p) ==
    LET t == task[p] IN
    /\ pc[p] = "save" => Derived(t.op, rows[t.escrow], t.row, t.amount)
    /\ pc[p] = "queue" =>
          /\ t.op \in Payments => t.amount <= ledger[t.escrow].due
          /\ t.op = "cancel" => rows[t.escrow].status = "cancelled"

NothingLost == \A p \in Procs : InFlight(p)

DueIsOwed == \A e \in Escrows : ledger[e].due >= 0

SerialInv == PlainInv /\ NothingLost /\ DueIsOwed /\ Conservation

Entry == [deposit : Nat, due : Int, release : Nat, refund : Nat]

LEMMA SerialInit == Init => NothingLost /\ DueIsOwed /\ Conservation
  BY DEF Init, NothingLost, InFlight, DueIsOwed, Conservation, Balanced, Paid, NoRow

LEMMA SerialRequest ==
    ASSUME BulkStatuses = {}, Serial, SerialInv, NEW p \in Procs, Request(p)
    PROVE  NothingLost' /\ DueIsOwed' /\ Conservation'
  <1>1. PICK op \in Operations, e \in Escrows, row \in EscrowRow, amount \in 0..Total :
           /\ Begin(p, op, e, row, amount)
           /\ Derived(op, rows[e], row, amount)
    BY RequestDerived DEF SerialInv, PlainInv
  <1>2. /\ rows' = rows /\ ledger' = ledger
        /\ pc'[p] = "save"
        /\ task'[p] = [op |-> op, escrow |-> e, row |-> row, amount |-> amount]
    BY <1>1 DEF Begin, SerialInv, PlainInv, TypeOK
  <1>3. InFlight(p)'
    BY <1>1, <1>2 DEF InFlight
  <1>4. NothingLost'
    BY <1>3 DEF Serial, NothingLost
  <1> QED
    BY <1>2, <1>4 DEF SerialInv, DueIsOwed, Conservation

(* What a save does to the books of its escrow.                            *)
LEMMA SaveBalanced ==
    ASSUME NEW op, NEW r \in EscrowRow, NEW row \in EscrowRow, NEW amount \in 0..Total,
           NEW old \in Entry, NEW new \in Entry,
           Plain(r), Derived(op, r, row, amount), op # "releaseAll",
           Balanced(r, old), old.due >= 0,
           new.release = old.release, new.refund = old.refund,
           new.due = IF op \in Payments THEN old.due + amount ELSE old.due
    PROVE  Balanced(row, new) /\ new.due >= 0
  <1>1. /\ Total \in Nat /\ amount \in Nat /\ r.locked \in Nat /\ row.locked \in Nat
        /\ old.due \in Int /\ old.release \in Nat /\ old.refund \in Nat
    BY ConstantsAssumption DEF EscrowRow, Entry
  <1>2. new.due >= 0
    BY <1>1
  <1>3. CASE op = "create"
    BY <1>1, <1>3 DEF Derived, Balanced, Paid, Payments
  <1>4. CASE op = "update"
    BY <1>1, <1>4 DEF Derived, Balanced, Paid, Payments
  <1>5. CASE op = "fund"
    <2>1. Paid(old) = 0 /\ new.due = old.due
      BY <1>5 DEF Derived, Balanced, Payments
    <2>2. Paid(new) = 0 /\ new.refund = 0
      BY <1>1, <2>1 DEF Paid
    <2> QED
      BY <1>1, <1>2, <1>5, <2>2 DEF Derived, Balanced
  <1>6. CASE op = "release"
    <2>1. Paid(new) = Paid(old) + amount
      BY <1>1, <1>6 DEF Paid, Payments
    <2>2. r.locked + Paid(old) = Total /\ old.refund = 0 /\ row.locked = r.locked - amount
      BY <1>6 DEF Derived, Balanced
    <2>3. row.locked + Paid(new) = Total
      BY <1>1, <2>1, <2>2 DEF Paid
    <2> QED
      BY <1>2, <1>6, <2>2, <2>3 DEF Derived, Balanced
  <1>7. CASE op = "cancel"
    <2>1. Paid(new) = Paid(old) + r.locked
      BY <1>1, <1>7 DEF Paid, Payments, Derived
    <2>2. CASE r.status = "created"
      <3>1. Paid(old) = 0 /\ r.locked = 0
        BY <2>2 DEF Balanced, Plain, Coherent
      <3> QED
        BY <1>2, <1>7, <2>1, <3>1 DEF Derived, Balanced
    <2>3. CASE r.status = "funded"
      <3>1. r.locked + Paid(old) = Total
        BY <2>3 DEF Balanced
      <3>2. Paid(new) = Total
        BY <1>1, <2>1, <3>1 DEF Paid
      <3> QED
        BY <1>2, <1>7, <3>2 DEF Derived, Balanced
    <2> QED
      BY <1>7, <2>2, <2>3 DEF Derived
  <1> QED
    BY <1>3, <1>4, <1>5, <1>6, <1>7 DEF Derived

LEMMA SerialSave ==
    ASSUME Serial, SerialInv, NEW p \in Procs, save(p)
    PROVE  NothingLost' /\ DueIsOwed' /\ Conservation'
  <1> DEFINE t == task[p]
             e == t.escrow
  <1>1. /\ t \in Task /\ e \in Escrows /\ t.row \in EscrowRow /\ t.amount \in 0..Total
        /\ rows[e] \in EscrowRow
    BY DEF SerialInv, PlainInv, TypeOK, Task
  <1>2. /\ rows'[e] = t.row
        /\ \A f \in Escrows \ {e} : rows'[f] = rows[f]
        /\ task' = task
    BY <1>1 DEF save, SerialInv, PlainInv, TypeOK
  <1>3. ledger[e] \in Entry /\ ledger'[e] \in Entry
    BY <1>1, SaveType DEF SerialInv, PlainInv, TypeOK, Entry
  <1>4. /\ ledger'[e].release = ledger[e].release
        /\ ledger'[e].refund = ledger[e].refund
        /\ ledger'[e].due = IF t.op \in Payments THEN ledger[e].due + t.amount
                            ELSE ledger[e].due
        /\ \A f \in Escrows \ {e} : ledger'[f] = ledger[f]
    <2>1. CASE t.op \in Payments
      <3>1. ledger' = [ledger EXCEPT ![e].due = @ + t.amount]
        BY <2>1 DEF save
      <3> QED
        BY <1>1, <1>3, <2>1, <3>1 DEF SerialInv, PlainInv, TypeOK, Entry
    <2>2. CASE t.op \notin Payments
      BY <2>2 DEF save
    <2> QED
      BY <2>1, <2>2
  <1>5. /\ Derived(t.op, rows[e], t.row, t.amount) /\ t.op # "releaseAll"
        /\ Plain(rows[e]) /\ Balanced(rows[e], ledger[e]) /\ ledger[e].due >= 0
    BY <1>1 DEF save, SerialInv, PlainInv, NothingLost, InFlight, PlainRows,
                Conservation, DueIsOwed
  <1> HIDE DEF t, e
  <1>6. Balanced(rows'[e], ledger'[e]) /\ ledger'[e].due >= 0
    BY <1>1, <1>2, <1>3, <1>4, <1>5, SaveBalanced
  <1>7. DueIsOwed' /\ Conservation'
    BY <1>1, <1>2, <1>4, <1>6 DEF SerialInv, DueIsOwed, Conservation
  <1>8. pc'[p] # "save" /\ (pc'[p] = "queue" => InFlight(p)')
    <2>1. pc'[p] # "save"
      BY DEF save, SerialInv, PlainInv, TypeOK
    <2>2. t.op \in Payments => t.amount <= ledger'[e].due
      BY <1>1, <1>3, <1>4, <1>5, ConstantsAssumption DEF Entry
    <2>3. t.op = "cancel" => rows'[e].status = "cancelled"
      BY <1>2, <1>5 DEF Derived
    <2> QED
      BY <1>2, <2>1, <2>2, <2>3 DEF InFlight, t, e
  <1>9. NothingLost'
    BY <1>8 DEF Serial, NothingLost, InFlight
  <1> QED
    BY <1>7, <1>9

(* A transaction job is queued: what was due becomes a release or a refund. *)
LEMMA SerialQueue ==
    ASSUME Serial, SerialInv, NEW p \in Procs, queueTransaction(p)
    PROVE  DueIsOwed' /\ Conservation'
  <1> DEFINE t == task[p]
             e == t.escrow
             old == ledger[e]
             new == ledger'[e]
  <1>1. t \in Task /\ e \in Escrows /\ t.amount \in Nat
    BY ConstantsAssumption DEF SerialInv, PlainInv, TypeOK, Task
  <1>2. old \in Entry /\ rows' = rows
    BY <1>1 DEF SerialInv, PlainInv, TypeOK, Entry, queueTransaction
  <1>3. /\ t.op \in Payments => t.amount <= old.due
        /\ t.op = "cancel" => rows[e].status = "cancelled"
    BY DEF queueTransaction, SerialInv, NothingLost, InFlight
  <1>4. Balanced(rows[e], old) /\ old.due >= 0
    BY <1>1 DEF SerialInv, DueIsOwed, Conservation
  <1>5. \A f \in Escrows \ {e} : ledger'[f] = ledger[f]
    BY <1>1 DEF queueTransaction, SerialInv, PlainInv, TypeOK
  <1>6. Balanced(rows[e], new) /\ new.due >= 0
    <2>1. CASE t.op = "fund"
      <3>1. ledger' = [ledger EXCEPT ![e].deposit = @ + t.amount]
        BY <2>1 DEF queueTransaction
      <3>2. new.due = old.due /\ new.release = old.release /\ new.refund = old.refund
        BY <1>1, <1>2, <3>1 DEF SerialInv, PlainInv, TypeOK, Entry
      <3> QED
        BY <1>4, <3>2 DEF Balanced, Paid
    <2>2. CASE t.op = "release"
      <3>1. ledger' = [ledger EXCEPT ![e].release = @ + t.amount, ![e].due = @ - t.amount]
        BY <2>2 DEF queueTransaction
      <3>2. /\ new.due = old.due - t.amount /\ new.release = old.release + t.amount
            /\ new.refund = old.refund
        BY <1>1, <1>2, <3>1 DEF SerialInv, PlainInv, TypeOK, Entry
      <3>3. Paid(new) = Paid(old) /\ new.due >= 0
        BY <1>1, <1>2, <1>3, <2>2, <3>2 DEF Paid, Entry, Payments
      <3> QED
        BY <1>4, <3>2, <3>3 DEF Balanced
    <2>3. CASE t.op = "cancel"
      <3>1. ledger' = [ledger EXCEPT ![e].refund = @ + t.amount, ![e].due = @ - t.amount]
        BY <2>3 DEF queueTransaction
      <3>2. /\ new.due = old.due - t.amount /\ new.refund = old.refund + t.amount
            /\ new.release = old.release
        BY <1>1, <1>2, <3>1 DEF SerialInv, PlainInv, TypeOK, Entry
      <3>3. Paid(new) = Paid(old) /\ new.due >= 0
        BY <1>1, <1>2, <1>3, <2>3, <3>2 DEF Paid, Entry, Payments
      <3> QED
        BY <1>3, <1>4, <2>3, <3>3 DEF Balanced
    <2> QED
      BY <2>1, <2>2, <2>3 DEF queueTransaction
  <1> HIDE DEF t, e, old, new
  <1> QED
    BY <1>2, <1>5, <1>6 DEF SerialInv, DueIsOwed, Conservation, e, new

LEMMA SerialLaterStep ==
    ASSUME Serial, SerialInv, NEW p \in Procs, LaterStep(p)
    PROVE  NothingLost' /\ DueIsOwed' /\ Conservation'
  <1>1. rows' = rows /\ pc'[p] \notin {"save", "queue"}
    BY LaterStepFrame DEF SerialInv, PlainInv
  <1>2. NothingLost'
    BY <1>1 DEF Serial, NothingLost, InFlight
  <1>3. CASE queueTransaction(p)
    BY <1>2, <1>3, SerialQueue
  <1>4. CASE ~queueTransaction(p)
    <2>1. ledger' = ledger
      BY <1>4 DEF LaterStep, queueMilestones, logAction, notify, queueFollowUp, fail
    <2> QED
      BY <1>1, <1>2, <2>1 DEF SerialInv, DueIsOwed, Conservation
  <1> QED
    BY <1>3, <1>4

LEMMA SerialStep ==
    ASSUME BulkStatuses = {}, Serial, SerialInv, [Next]_vars
    PROVE  NothingLost' /\ DueIsOwed' /\ Conservation'
  <1>1. CASE UNCHANGED vars
    BY <1>1 DEF vars, SerialInv, NothingLost, InFlight, DueIsOwed, Conservation
  <1> QED
    BY <1>1, SerialRequest, SerialSave, SerialLaterStep DEF Next, LaterStep

LEMMA SerialInvariance ==
    ASSUME BulkStatuses = {}, Serial
    PROVE  Spec => []SerialInv
  <1>1. Init => PlainRows /\ CopiesPlain /\ NothingLost /\ DueIsOwed /\ Conservation
    BY PlainInit, SerialInit
  <1>2. SerialInv /\ [Next]_vars /\ TypeOK' => SerialInv'
    <2> SUFFICES ASSUME SerialInv, [Next]_vars, TypeOK'
                 PROVE  SerialInv'
      OBVIOUS
    <2>1. PlainRows' /\ CopiesPlain'
      BY PlainStep DEF SerialInv
    <2> QED
      BY <2>1, SerialStep DEF SerialInv, PlainInv
  <1>3. TypeOK /\ PlainRows /\ CopiesPlain /\ NothingLost /\ DueIsOwed /\ Conservation
        => SerialInv
    BY DEF SerialInv, PlainInv
  <1> QED
    BY <1>1, <1>2, <1>3, TypeCorrect, PTL DEF Spec

(* With one handler at a time no money is created or lost.                 *)
THEOREM MoneyIsConserved ==
    ASSUME BulkStatuses = {}, Serial
    PROVE  Spec => []Conservation
  <1>1. SerialInv => Conservation
    BY DEF SerialInv
  <1> QED
    BY <1>1, SerialInvariance, PTL

(* With one handler at a time an escrow never pays out more than its total: *)
(* the overpayment found with two is due to their overlap alone.           *)
THEOREM NeverOverpaid ==
    ASSUME BulkStatuses = {}, Serial
    PROVE  Spec => []NoOverpayment
  <1>1. SerialInv => NoOverpayment
    <2> SUFFICES ASSUME SerialInv, NEW e \in Escrows
                 PROVE  ledger[e].release + ledger[e].refund <= Total
      BY DEF NoOverpayment
    <2>1. /\ ledger[e].due \in Int /\ ledger[e].due >= 0
          /\ ledger[e].release \in Nat /\ ledger[e].refund \in Nat
          /\ rows[e].locked \in Nat /\ Total \in Nat
      BY ConstantsAssumption
      DEF SerialInv, PlainInv, TypeOK, EscrowRow, DueIsOwed
    <2>2. Plain(rows[e]) /\ Balanced(rows[e], ledger[e])
      BY DEF SerialInv, PlainInv, PlainRows, Conservation
    <2>3. Paid(ledger[e]) <= Total
      BY <2>1, <2>2 DEF Plain, Coherent, Balanced, Paid
    <2> QED
      BY <2>1, <2>3 DEF Paid
  <1> QED
    BY <1>1, SerialInvariance, PTL
-----------------------------------------------------------------------------
(* Refinement: with one handler at a time every save is one step of        *)
(* EscrowLifecycle, and every other step leaves the accounts alone.        *)

LEMMA SaveImplements ==
    ASSUME SerialInv, NEW p \in Procs, save(p)
    PROVE  Atomic!Next \/ UNCHANGED Account
  <1> DEFINE t == task[p]
             e == t.escrow
             r == rows[e]
             after == [status |-> t.row.status, locked |-> t.row.locked]
  <1>1. /\ e \in Escrows /\ r \in EscrowRow /\ t.row \in EscrowRow /\ Total \in Nat
        /\ Derived(t.op, r, t.row, t.amount) /\ t.op # "releaseAll" /\ Plain(r)
    BY ConstantsAssumption
    DEF SerialInv, PlainInv, TypeOK, Task, NothingLost, InFlight, save, PlainRows
  <1>2. /\ Account[e] = [status |-> r.status, locked |-> r.locked]
        /\ Account[e].status = r.status /\ Account[e].locked = r.locked
    BY <1>1 DEF Account
  <1>3. Account' = [Account EXCEPT ![e] = after]
    <2>1. rows' = [rows EXCEPT ![e] = t.row]
      BY DEF save
    <2>2. \A f \in Escrows : rows'[f] = IF f = e THEN t.row ELSE rows[f]
      BY <1>1, <2>1 DEF SerialInv, PlainInv, TypeOK
    <2> QED
      BY <2>2 DEF Account
  <1>a. after = [status |-> t.row.status, locked |-> t.row.locked]
    OBVIOUS
  <1>4. r.locked \in Nat /\ t.row.locked \in Nat
    BY <1>1 DEF EscrowRow
  <1> HIDE DEF t, e, r, after
  <1>5. CASE t.op = "create"
    <2>1. r.status = "absent" /\ after = [status |-> "created", locked |-> 0]
      BY <1>1, <1>5, <1>a DEF Derived
    <2>2. Atomic!Create(e)
      BY <1>2, <1>3, <2>1 DEF Atomic!Create
    <2> QED
      BY <1>1, <2>2 DEF Atomic!Next
  <1>6. CASE t.op = "update"
    <2>1. after = Account[e]
      BY <1>1, <1>2, <1>6, <1>a DEF Derived
    <2>2. Account' = Account
      BY <1>3, <2>1 DEF Account
    <2> QED
      BY <2>2
  <1>7. CASE t.op = "fund"
    <2>1. r.status = "created" /\ after = [status |-> "funded", locked |-> Total]
      BY <1>1, <1>7, <1>a DEF Derived
    <2>2. Atomic!canTransitionTo("created", "funded")
      BY DEF Atomic!canTransitionTo, Atomic!stateTransitions
    <2>3. Atomic!Fund(e)
      BY <1>2, <1>3, <2>1, <2>2 DEF Atomic!Fund
    <2> QED
      BY <1>1, <2>3 DEF Atomic!Next
  <1>8. CASE t.op = "release"
    <2>1. /\ r.status = "funded" /\ t.amount \in 1..Total /\ t.amount <= r.locked
          /\ after = [status |-> IF r.locked = t.amount THEN "completed" ELSE "funded",
                      locked |-> r.locked - t.amount]
      BY <1>1, <1>8, <1>a DEF Derived
    <2>2. Atomic!Pay(e, t.amount)
      BY <1>2, <1>3, <2>1 DEF Atomic!Pay, Atomic!Releasable
    <2> QED
      BY <1>1, <2>1, <2>2 DEF Atomic!Next
  <1>9. CASE t.op = "cancel"
    <2>1. /\ r.status \in {"created", "funded"}
          /\ after = [status |-> "cancelled", locked |-> r.locked]
      BY <1>1, <1>9, <1>a DEF Derived
    <2>2. Atomic!canTransitionTo(r.status, "cancelled")
      BY <2>1 DEF Atomic!canTransitionTo, Atomic!stateTransitions
    <2>3. after = [Account[e] EXCEPT !.status = "cancelled"]
      BY <1>2, <2>1
    <2>4. Account' = [Account EXCEPT ![e].status = "cancelled"]
      BY <1>3, <2>3
    <2>5. Atomic!Cancel(e)
      BY <1>2, <2>2, <2>4 DEF Atomic!Cancel
    <2> QED
      BY <1>1, <2>5 DEF Atomic!Next
  <1> QED
    BY <1>1, <1>5, <1>6, <1>7, <1>8, <1>9 DEF Derived

(* With one handler at a time the escrow service implements the atomic     *)
(* account of EscrowLifecycle: callers cannot tell the handlers' many      *)
(* awaits, failed ones included, from one indivisible operation.           *)
THEOREM ImplementsLifecycle ==
    ASSUME BulkStatuses = {}, Serial
    PROVE  Spec => AtomicSpec
  <1>1. Init => Atomic!Init
    BY DEF Init, Atomic!Init, Account, NoRow
  <1>2. SerialInv /\ [Next]_vars => [Atomic!Next]_Account
    <2> SUFFICES ASSUME SerialInv, [Next]_vars
                 PROVE  Atomic!Next \/ UNCHANGED Account
      OBVIOUS
    <2>1. CASE UNCHANGED vars
      BY <2>1 DEF vars, Account
    <2>2. ASSUME NEW p \in Procs, Request(p)
          PROVE  UNCHANGED Account
      <3>1. rows' = rows
        BY <2>2 DEF Request, createEscrow, updateEscrow, fundEscrow, releaseEscrowFunds,
                    releaseAll, cancelEscrow, Begin
      <3> QED
        BY <3>1 DEF Account
    <2>3. ASSUME NEW p \in Procs, LaterStep(p)
          PROVE  UNCHANGED Account
      BY <2>3, LaterStepFrame DEF SerialInv, PlainInv, Account
    <2> QED
      BY <2>1, <2>2, <2>3, SaveImplements DEF Next, LaterStep
  <1> QED
    BY <1>1, <1>2, SerialInvariance, PTL DEF Spec, AtomicSpec, Atomic!Spec
=============================================================================
