---------------------------- MODULE EscrowStates ----------------------------
(***************************************************************************)
(* The escrow state machine of EscrowStateService: the statuses of an      *)
(* escrow, the table of the transitions the service allows, and the two    *)
(* predicates the other services and the guard read from it.               *)
(***************************************************************************)

EscrowStatus ==
    {"created", "funding_pending", "funded", "in_progress", "milestone_pending",
     "completed", "cancelled", "disputed", "expired", "refunded"}

(* The table as a relation: <<s, t>> is in it when t is listed under s.    *)
stateTransitions ==
         ({"created"} \X {"funding_pending", "funded", "cancelled", "expired"})
    \cup ({"funding_pending"} \X {"funded", "cancelled", "expired"})
    \cup ({"funded"} \X
            {"in_progress", "milestone_pending", "completed", "disputed", "cancelled"})
    \cup ({"in_progress"} \X {"milestone_pending", "completed", "disputed", "cancelled"})
    \cup ({"milestone_pending"} \X {"in_progress", "completed", "disputed", "cancelled"})
    \cup ({"disputed"} \X {"in_progress", "completed", "cancelled", "refunded"})
    \cup ({"cancelled", "expired"} \X {"refunded"})

canTransitionTo(current, target) == <<current, target>> \in stateTransitions

isTerminalState(status) == status \in {"completed", "refunded"}

(* The statuses validateFundRelease accepts.                               *)
Releasable == {"funded", "in_progress", "milestone_pending"}

(* The statuses validateEscrowUpdate refuses to touch.                     *)
Frozen == {"completed", "cancelled", "refunded"}
=============================================================================
