------------------------------- MODULE Handlers -------------------------------
(***************************************************************************)
(* The requests, jobs and timers of one Node process that work on a        *)
(* service's rows.  A handler runs from one await to the next; between     *)
(* two awaits others may run.  The services of the smaller modules share   *)
(* this frame: each adds its rows, its requests and their steps.           *)
(***************************************************************************)
EXTENDS Naturals

CONSTANTS Procs,          \* the handlers that can be in flight at a time
          MaxRequests,    \* bound: handlers started
          MaxDisturbed    \* and those started where they may overlap or fail

VARIABLES overlap,     \* may handlers overlap?
          faulty,      \* may calls be rejected?
          pc, run,     \* each handler: where it stands and what it knows
          requests

setting == <<overlap, faulty>>
handlers == <<setting, pc, run, requests>>

NoRun == <<>>

Idle == \A p \in Procs : pc[p] = "idle"

HandlersInit ==
    /\ overlap \in BOOLEAN
    /\ faulty \in BOOLEAN
    /\ pc = [p \in Procs |-> "idle"]
    /\ run = [p \in Procs |-> NoRun]
    /\ requests = 0

MayStart(p) == /\ pc[p] = "idle"
               /\ overlap \/ Idle
               /\ requests < IF overlap \/ faulty THEN MaxDisturbed ELSE MaxRequests

(* A handler starts, with what it was given or read before its first await.*)
Request(p, label, r) ==
    /\ MayStart(p)
    /\ requests' = requests + 1
    /\ pc' = [pc EXCEPT ![p] = label]
    /\ run' = [run EXCEPT ![p] = r]
    /\ UNCHANGED setting

Goto(p, label) ==
    /\ pc' = [pc EXCEPT ![p] = label]
    /\ UNCHANGED <<setting, run, requests>>

GotoWith(p, label, r) ==
    /\ pc' = [pc EXCEPT ![p] = label]
    /\ run' = [run EXCEPT ![p] = r]
    /\ UNCHANGED <<setting, requests>>

End(p) == GotoWith(p, "idle", NoRun)
=============================================================================
