--------------------------- MODULE EscrowLifecycle ---------------------------
(***************************************************************************)
(* What the escrow service promises a caller: each operation takes effect  *)
(* at once on the status and the locked amount of one escrow.  No handler, *)
(* no snapshot, no queue.  EscrowFunds implements this specification when  *)
(* its operations do not overlap.                                          *)
(***************************************************************************)
EXTENDS Naturals, EscrowStates

CONSTANTS Escrows,   \* the escrows
          Total      \* the totalAmount of every escrow

VARIABLE account     \* the status and the locked amount of every escrow

Create(e) ==
    /\ account[e].status = "absent"
    /\ account' = [account EXCEPT ![e] = [status |-> "created", locked |-> 0]]

Fund(e) ==
    /\ canTransitionTo(account[e].status, "funded")
    /\ account' = [account EXCEPT ![e] = [status |-> "funded", locked |-> Total]]

(* A payment of a takes exactly a out of the escrow, and completes it when *)
(* nothing is left.                                                        *)
Pay(e, a) ==
    /\ account[e].status \in Releasable
    /\ a <= account[e].locked
    /\ account' = [account EXCEPT ![e] =
                     [status |-> IF account[e].locked = a THEN "completed"
                                 ELSE account[e].status,
                      locked |-> account[e].locked - a]]

(* Cancelling freezes what is locked: that amount is what gets refunded.   *)
Cancel(e) ==
    /\ canTransitionTo(account[e].status, "cancelled")
    /\ account' = [account EXCEPT ![e].status = "cancelled"]

Init == account = [e \in Escrows |-> [status |-> "absent", locked |-> 0]]

Next == \E e \in Escrows : \/ Create(e)
                           \/ Fund(e)
                           \/ \E a \in 1..Total : Pay(e, a)
                           \/ Cancel(e)

Spec == Init /\ [][Next]_account
=============================================================================
