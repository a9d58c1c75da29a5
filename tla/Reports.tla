------------------------------- MODULE Reports -------------------------------
(***************************************************************************)
(* ReportGenerationService and its queue, for one report: a job generates  *)
(* it, a request may generate it again at any time, and each saves the     *)
(* copy of the row it read first, which brings a deleted report back.      *)
(***************************************************************************)
EXTENDS Handlers

CONSTANTS Attempts     \* of a job

VARIABLES report,      \* the row
          job          \* in the reports queue

vars == <<handlers, report, job>>

ReportStatus == {"pending", "processing", "completed", "failed"}
ReportRow == [status : ReportStatus, data : BOOLEAN]
Absent == [status |-> "absent"]
Exists == report # Absent

Rest == /\ report = Absent
        /\ job = [state |-> "none", made |-> 0]

Init == HandlersInit /\ Rest
-----------------------------------------------------------------------------
createReport(p) ==
    /\ ~Exists /\ job.state = "none" /\ Idle
    /\ Request(p, "queue", NoRun)
    /\ report' = [status |-> "pending", data |-> FALSE]
    /\ UNCHANGED job

queueReport(p) ==
    /\ pc[p] = "queue"
    /\ job' = [job EXCEPT !.state = "waiting"]
    /\ End(p)
    /\ UNCHANGED report

Generation(queued) == [copy |-> report, queued |-> queued]

(* The job's attempt ended with an error: Bull tries it again.             *)
Rethrow == job' = [state |-> IF job.made + 1 < Attempts THEN "waiting" ELSE "failed",
                   made |-> job.made + 1]

(* The queue's worker, which finds the report or fails.                    *)
handleGenerateReport(p) ==
    /\ pc[p] = "idle"
    /\ overlap \/ Idle
    /\ job.state = "waiting"
    /\ IF Exists
       THEN job' = [job EXCEPT !.state = "active"] /\ GotoWith(p, "mark", Generation(TRUE))
       ELSE Rethrow /\ UNCHANGED handlers
    /\ UNCHANGED report

regenerateReport(p) ==
    /\ Exists
    /\ Request(p, "mark", Generation(FALSE))
    /\ UNCHANGED <<report, job>>

(* generateReport                                                          *)
markProcessing(p) ==
    /\ pc[p] = "mark"
    /\ IF Exists THEN report' = [report EXCEPT !.status = "processing"] ELSE UNCHANGED report
    /\ Goto(p, "generate")
    /\ UNCHANGED job

(* The data is gathered and exported; an unknown type or format throws.    *)
generate(p, ok) ==
    /\ pc[p] = "generate"
    /\ Goto(p, IF ok THEN "complete" ELSE "fail")
    /\ UNCHANGED <<report, job>>

complete(p) ==
    /\ pc[p] = "complete"
    /\ report' = [status |-> "completed", data |-> TRUE]
    /\ IF run[p].queued THEN job' = [job EXCEPT !.state = "completed"] ELSE UNCHANGED job
    /\ End(p)

failReport(p) ==
    /\ pc[p] = "fail"
    /\ report' = [run[p].copy EXCEPT !.status = "failed"]
    /\ IF run[p].queued THEN Rethrow ELSE UNCHANGED job
    /\ End(p)

deleteReport(p) ==
    /\ Exists
    /\ Request(p, "answer", NoRun)
    /\ report' = Absent
    /\ UNCHANGED job

answer(p) == pc[p] = "answer" /\ End(p) /\ UNCHANGED <<report, job>>

(* A rejected call: what generateReport tries is caught, the rest is not.  *)
reportFails(p) ==
    /\ faulty
    /\ \/ pc[p] \in {"mark", "complete"} /\ Goto(p, "fail") /\ UNCHANGED job
       \/ pc[p] = "queue" /\ End(p) /\ UNCHANGED job
       \/ /\ pc[p] = "fail" /\ End(p)
          /\ IF run[p].queued THEN Rethrow ELSE UNCHANGED job
    /\ UNCHANGED report
-----------------------------------------------------------------------------
Next == \E p \in Procs :
            \/ createReport(p)
            \/ queueReport(p)
            \/ handleGenerateReport(p)
            \/ regenerateReport(p)
            \/ markProcessing(p)
            \/ \E ok \in BOOLEAN : generate(p, ok)
            \/ complete(p)
            \/ failReport(p)
            \/ deleteReport(p)
            \/ answer(p)
            \/ reportFails(p)

Spec == Init /\ [][Next]_vars
-----------------------------------------------------------------------------
TypeOK ==
    /\ report \in ReportRow \cup {Absent}
    /\ job \in [state : {"none", "waiting", "active", "completed", "failed"}, made : 0..Attempts]

(* A report said to be completed has its data, whoever saved it last; and  *)
(* when nobody generates it any more, it is not left processing, unless    *)
(* the catch block's own save was rejected.                                *)
ReportSettles == Exists =>
    /\ report.status = "completed" => report.data
    /\ ~faulty /\ Idle => report.status # "processing"
=============================================================================
