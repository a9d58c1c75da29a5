-------------------------- MODULE MilestoneLifecycle --------------------------
(***************************************************************************)
(* What the milestone service promises: a milestone is worked on,          *)
(* submitted, approved or rejected, and an approved one is paid once and   *)
(* then completed.  Each operation takes effect at once.  Milestones       *)
(* implements this specification when its handlers do not overlap and no   *)
(* job is run a second time.                                               *)
(***************************************************************************)
EXTENDS Naturals

CONSTANTS Milestones,
          Stored       \* those that were stored with the escrow

VARIABLES stage,   \* where each milestone stands
          paid     \* how often each was paid

vars == <<stage, paid>>

Init == /\ stage = [m \in Milestones |-> IF m \in Stored THEN "pending" ELSE "absent"]
        /\ paid = [m \in Milestones |-> 0]

Move(m, from, to) == /\ stage[m] = from
                     /\ stage' = [stage EXCEPT ![m] = to]
                     /\ UNCHANGED paid

Pay(m) == /\ stage[m] = "approved"
          /\ paid[m] = 0
          /\ paid' = [paid EXCEPT ![m] = 1]
          /\ UNCHANGED stage

Complete(m) == paid[m] = 1 /\ Move(m, "approved", "completed")

Next == \E m \in Milestones : \/ Move(m, "absent", "pending")
                              \/ Move(m, "pending", "in_progress")
                              \/ Move(m, "in_progress", "submitted")
                              \/ Move(m, "submitted", "approved")
                              \/ Move(m, "submitted", "rejected")
                              \/ Pay(m)
                              \/ Complete(m)

Spec == Init /\ [][Next]_vars
=============================================================================
