------------------------------ MODULE Contracts ------------------------------
(***************************************************************************)
(* The smart contract of one escrow.  createEscrow queues its deployment,  *)
(* unless the escrow is simple; the job reads the escrow, deploys for two  *)
(* seconds, and saves the escrow with the address in its metadata.         *)
(* Payments look for the address in a column of its own.                   *)
(***************************************************************************)
EXTENDS Handlers

VARIABLES escrow,      \* the row
          deployments, \* deploy-smart-contract jobs waiting
          stalled,     \* has Bull run a stalled deployment again?
          contracts,   \* contracts deployed, numbered in order
          replaced,    \* history: a user's update wrote other metadata
          payment,     \* status of the escrow's transaction
          calls        \* calls it made to a contract

vars == <<handlers, escrow, deployments, stalled, contracts, replaced, payment, calls>>

Absent == [status |-> "absent"]
Exists == escrow # Absent

(* The metadata hold a user's note and the contract, 0 where there is none.*)
Metadata(note, contract) == [note |-> note, contract |-> contract]

Rest == /\ escrow = Absent /\ deployments = 0 /\ stalled = FALSE /\ contracts = 0 /\ replaced = FALSE
        /\ payment = "pending" /\ calls = 0

Init == HandlersInit /\ Rest

rest == <<deployments, stalled, contracts, replaced, payment, calls>>
-----------------------------------------------------------------------------
(* The body is not narrowed to its DTO, which the controller imports as a  *)
(* type: it may name the address column.                                   *)
createEscrow(p, simple, named) ==
    /\ ~Exists /\ Idle
    /\ Request(p, "created", NoRun)
    /\ escrow' = [status |-> "open", simple |-> simple, named |-> named,
                  metadata |-> Metadata("first", 0)]
    /\ UNCHANGED rest

(* After the audit log and the notification.                               *)
queueDeployment(p) ==
    /\ pc[p] = "created"
    /\ deployments' = IF escrow.simple THEN 0 ELSE 1
    /\ End(p)
    /\ UNCHANGED <<escrow, stalled, contracts, replaced, payment, calls>>

handleDeploySmartContract(p) ==
    /\ deployments > 0
    /\ Request(p, "deploy", [metadata |-> escrow.metadata])
    /\ deployments' = deployments - 1
    /\ UNCHANGED <<escrow, stalled, contracts, replaced, payment, calls>>

deployEscrowContract(p) ==
    /\ pc[p] = "deploy"
    /\ contracts' = contracts + 1
    /\ GotoWith(p, "record", [run[p] EXCEPT !.metadata.contract = contracts + 1])
    /\ UNCHANGED <<escrow, deployments, stalled, replaced, payment, calls>>

validateEscrowUpdate == escrow.status # "closed"

(* updateEscrow reads the escrow again, but the metadata are those of the  *)
(* first read.                                                             *)
recordContract(p) ==
    /\ pc[p] = "record"
    /\ IF validateEscrowUpdate
       THEN GotoWith(p, "save", [copy |-> [escrow EXCEPT !.metadata = run[p].metadata]])
       ELSE End(p)
    /\ UNCHANGED <<escrow, rest>>

(* A user's update: of the metadata as a whole, or of other columns.       *)
updateEscrow(p, whole) ==
    /\ Exists /\ validateEscrowUpdate
    /\ Request(p, "save", [copy |-> IF whole THEN [escrow EXCEPT !.metadata = Metadata("second", 0)]
                                             ELSE escrow])
    /\ replaced' = (replaced \/ whole)
    /\ UNCHANGED <<escrow, deployments, stalled, contracts, payment, calls>>

(* A release of everything or a cancellation.                              *)
closeEscrow(p) ==
    /\ Exists /\ escrow.status = "open"
    /\ Request(p, "save", [copy |-> [escrow EXCEPT !.status = "closed"]])
    /\ UNCHANGED <<escrow, rest>>

saveEscrow(p) ==
    /\ pc[p] = "save"
    /\ escrow' = run[p].copy
    /\ End(p)
    /\ UNCHANGED rest

processTransaction(p) ==
    /\ Exists /\ payment = "pending"
    /\ Request(p, "mark", [named |-> escrow.named])
    /\ UNCHANGED <<escrow, rest>>

markProcessing(p) ==
    /\ pc[p] = "mark"
    /\ payment' = "processing"
    /\ Goto(p, IF run[p].named THEN "call" ELSE "complete")
    /\ UNCHANGED <<escrow, deployments, stalled, contracts, replaced, calls>>

(* deposit, release, refund or partialRelease.                             *)
callContract(p) ==
    /\ pc[p] = "call"
    /\ calls' = calls + 1
    /\ Goto(p, "complete")
    /\ UNCHANGED <<escrow, deployments, stalled, contracts, replaced, payment>>

markCompleted(p) ==
    /\ pc[p] = "complete"
    /\ payment' = "completed"
    /\ Goto(p, "audit")
    /\ UNCHANGED <<escrow, deployments, stalled, contracts, replaced, calls>>

logAction(p) ==
    /\ pc[p] = "audit"
    /\ End(p)
    /\ UNCHANGED <<escrow, rest>>

(* A call that is rejected on the way fails the payment, the audit log     *)
(* after the last included.                                                *)
paymentFails(p) ==
    /\ faulty
    /\ pc[p] \in {"mark", "call", "complete", "audit"}
    /\ payment' = "failed"
    /\ End(p)
    /\ UNCHANGED <<escrow, deployments, stalled, contracts, replaced, calls>>

(* Any other rejected call ends its handler; a job is not tried again.     *)
fail(p) ==
    /\ faulty
    /\ pc[p] \in {"created", "deploy", "record", "save"}
    /\ End(p)
    /\ UNCHANGED <<escrow, rest>>

(* A job whose worker died is run once more.                               *)
stall(p) ==
    /\ faulty /\ ~stalled
    /\ pc[p] \in {"deploy", "record"}
    /\ stalled' = TRUE
    /\ deployments' = deployments + 1
    /\ End(p)
    /\ UNCHANGED <<escrow, contracts, replaced, payment, calls>>
-----------------------------------------------------------------------------
Next == \E p \in Procs :
            \/ \E simple, named \in BOOLEAN : createEscrow(p, simple, named)
            \/ queueDeployment(p)
            \/ handleDeploySmartContract(p)
            \/ deployEscrowContract(p)
            \/ recordContract(p)
            \/ \E whole \in BOOLEAN : updateEscrow(p, whole)
            \/ closeEscrow(p)
            \/ saveEscrow(p)
            \/ processTransaction(p)
            \/ markProcessing(p)
            \/ callContract(p)
            \/ markCompleted(p)
            \/ logAction(p)
            \/ paymentFails(p)
            \/ fail(p)
            \/ stall(p)

Spec == Init /\ [][Next]_vars
-----------------------------------------------------------------------------
TypeOK ==
    /\ escrow \in {Absent} \cup
           [status : {"open", "closed"}, simple : BOOLEAN, named : BOOLEAN,
            metadata : [note : {"first", "second"}, contract : 0..2]]
    /\ deployments \in 0..1 /\ contracts \in 0..2
    /\ {stalled, replaced} \subseteq BOOLEAN
    /\ payment \in {"pending", "processing", "completed", "failed"}
    /\ calls \in 0..MaxRequests

(* The escrow's metadata name no contract but a deployed one, a second one *)
(* is deployed only by a job that was run again, and, where handlers do    *)
(* not overlap and none fails, a contract is lost only to an escrow that   *)
(* closed before its job was taken or to a user who wrote other metadata.  *)
ContractKept == Exists =>
    /\ escrow.metadata.contract <= contracts
    /\ contracts <= IF stalled THEN 2 ELSE IF escrow.simple THEN 0 ELSE 1
    /\ ~overlap /\ ~faulty /\ Idle /\ ~replaced =>
           \/ escrow.metadata.contract = contracts
           \/ escrow.status = "closed" /\ escrow.metadata.contract = 0

(* A payment is completed over the contract where the column names one,    *)
(* and never twice where handlers do not overlap; a contract deployed by   *)
(* the job is never called.                                                *)
PaidOverNamed == /\ payment = "completed" => (calls > 0) = escrow.named
                 /\ ~overlap => calls <= 1
                 /\ calls > 0 => escrow.named
=============================================================================
