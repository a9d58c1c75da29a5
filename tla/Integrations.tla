---------------------------- MODULE Integrations ----------------------------
(***************************************************************************)
(* DevelopersService, for one integration.  Creating it inserts it, tests  *)
(* it and saves the copy inserted; the test reads its own copy.  Every     *)
(* save writes the whole of a copy, and brings a removed row back.         *)
(***************************************************************************)
EXTENDS Handlers

VARIABLES integration   \* the row

vars == <<handlers, integration>>

Absent == [status |-> "absent"]
Exists == integration # Absent
Inserted == [status |-> "pending", errorCount |-> 0, lastError |-> FALSE]

Rest == integration = Absent

Init == HandlersInit /\ Rest

(* What a handler holds: its copy, whether it creates the row, and what    *)
(* came of the test.                                                       *)
Held(copy, creating) == [copy |-> copy, creating |-> creating, ok |-> TRUE]
-----------------------------------------------------------------------------
create(p) ==
    /\ ~Exists /\ Idle
    /\ Request(p, "find", Held(Inserted, TRUE))
    /\ integration' = Inserted

(* The test that create makes finds the row first.                         *)
findOne(p) ==
    /\ pc[p] = "find"
    /\ IF Exists THEN GotoWith(p, "test", [run[p] EXCEPT !.copy = integration])
                 ELSE GotoWith(p, "finish", [run[p] EXCEPT !.ok = FALSE])
    /\ UNCHANGED integration

testIntegration(p) ==
    /\ Exists
    /\ Request(p, "test", Held(integration, FALSE))
    /\ UNCHANGED integration

WithError(copy) == [copy EXCEPT !.status = "error", !.errorCount = @ + 1, !.lastError = TRUE]

(* A successful test leaves the status as it is.                           *)
WithoutError(copy) == [copy EXCEPT !.errorCount = 0, !.lastError = FALSE]

testConnection(p, ok) ==
    /\ pc[p] = "test"
    /\ GotoWith(p, "saveTest", [run[p] EXCEPT !.ok = ok,
                    !.copy = IF ok THEN WithoutError(@) ELSE WithError(@)])
    /\ UNCHANGED integration

Ended(p) == IF run[p].creating THEN Goto(p, "finish") ELSE End(p)

saveTest(p) ==
    /\ pc[p] = "saveTest"
    /\ integration' = run[p].copy
    /\ Ended(p)

(* create saves the row as it inserted it, but for the status; lastError   *)
(* it only writes where the test threw.                                    *)
finish(p) ==
    /\ pc[p] = "finish"
    /\ integration' = [Inserted EXCEPT
           !.status = IF run[p].ok THEN "active" ELSE "error",
           !.lastError = ~run[p].ok \/ (Exists /\ integration.lastError)]
    /\ End(p)

(* Of other columns.                                                       *)
update(p) ==
    /\ Exists
    /\ Request(p, "save", Held(integration, FALSE))
    /\ UNCHANGED integration

saveUpdate(p) ==
    /\ pc[p] = "save"
    /\ integration' = run[p].copy
    /\ End(p)

remove(p) ==
    /\ Exists
    /\ Request(p, "remove", Held(integration, FALSE))
    /\ UNCHANGED integration

removeRow(p) ==
    /\ pc[p] = "remove"
    /\ integration' = Absent
    /\ End(p)

(* A rejected call: one made after a good test is taken for a bad one, the *)
(* others end what they are in.                                            *)
callFails(p) ==
    /\ faulty
    /\ \/ /\ pc[p] = "saveTest"
          /\ IF run[p].ok THEN GotoWith(p, "saveTest", [run[p] EXCEPT !.ok = FALSE,
                                                                     !.copy = WithError(@)])
                          ELSE Ended(p)
       \/ pc[p] = "find" /\ GotoWith(p, "finish", [run[p] EXCEPT !.ok = FALSE])
       \/ pc[p] \in {"finish", "save", "remove"} /\ End(p)
    /\ UNCHANGED integration
-----------------------------------------------------------------------------
Next == \E p \in Procs :
            \/ create(p)
            \/ findOne(p)
            \/ testIntegration(p)
            \/ \E ok \in BOOLEAN : testConnection(p, ok)
            \/ saveTest(p)
            \/ finish(p)
            \/ update(p)
            \/ saveUpdate(p)
            \/ remove(p)
            \/ removeRow(p)
            \/ callFails(p)

Spec == Init /\ [][Next]_vars
-----------------------------------------------------------------------------
TypeOK == integration \in {Absent} \cup
    [status : {"pending", "active", "error"}, errorCount : 0..MaxRequests + MaxDisturbed,
     lastError : BOOLEAN]

(* The counters agree whatever copies were saved: where errors are counted *)
(* the last one is kept, and a row in error has one to show or was tested  *)
(* well since; one that is active has none counted.                        *)
ErrorsAgree == Exists =>
    /\ integration.errorCount > 0 => integration.lastError /\ integration.status = "error"
    /\ integration.status = "active" => integration.errorCount = 0
=============================================================================
