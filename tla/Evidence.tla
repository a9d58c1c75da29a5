------------------------------- MODULE Evidence -------------------------------
(***************************************************************************)
(* EvidenceService, for one piece of evidence.  Its content is in IPFS and *)
(* a checksum of it in its row; a verification fetches the one, compares   *)
(* it with the other, and saves the copy of the row it read before, as a   *)
(* deletion, which only notes who deleted it, does.                        *)
(***************************************************************************)
EXTENDS Handlers

VARIABLES evidence,   \* the row
          matched     \* history: a content fetched had the row's checksum

vars == <<handlers, evidence, matched>>

EvidenceStatus == {"pending_review", "verified", "rejected"}
EvidenceRow == [status : EvidenceStatus, isVerified : BOOLEAN, deleted : BOOLEAN]
Absent == [status |-> "absent"]

Rest == evidence = Absent /\ matched = FALSE

Init == HandlersInit /\ Rest

Submitting == \E p \in Procs : pc[p] \in {"upload", "insert"}
-----------------------------------------------------------------------------
submitEvidence(p) ==
    /\ evidence = Absent /\ ~Submitting
    /\ Request(p, "upload", NoRun)
    /\ UNCHANGED <<evidence, matched>>

uploadFile(p) ==
    /\ pc[p] = "upload"
    /\ Goto(p, "insert")
    /\ UNCHANGED <<evidence, matched>>

insertEvidence(p) ==
    /\ pc[p] = "insert"
    /\ evidence' = [status |-> "pending_review", isVerified |-> FALSE, deleted |-> FALSE]
    /\ End(p)
    /\ UNCHANGED matched

verifyEvidence(p) ==
    /\ evidence # Absent
    /\ Request(p, "fetch", evidence)
    /\ UNCHANGED <<evidence, matched>>

getFile(p, match) ==
    /\ pc[p] = "fetch"
    /\ GotoWith(p, "save",
            IF match THEN [run[p] EXCEPT !.status = "verified", !.isVerified = TRUE]
                     ELSE [run[p] EXCEPT !.status = "rejected"])
    /\ matched' = (matched \/ match)
    /\ UNCHANGED evidence

deleteEvidence(p) ==
    /\ evidence # Absent
    /\ Request(p, "delete", [evidence EXCEPT !.deleted = TRUE])
    /\ UNCHANGED <<evidence, matched>>

saveEvidence(p) ==
    /\ pc[p] \in {"save", "delete"}
    /\ evidence' = run[p]
    /\ End(p)
    /\ UNCHANGED matched

(* The catch block of a verification rejects the copy as it stands, which  *)
(* may already say isVerified, and saves it again.                         *)
verificationFails(p) ==
    /\ faulty
    /\ pc[p] \in {"fetch", "save"} /\ run[p].status # "rejected"
    /\ GotoWith(p, "save", [run[p] EXCEPT !.status = "rejected"])
    /\ UNCHANGED <<evidence, matched>>

(* Any other rejected call ends its request.                               *)
fail(p) ==
    /\ faulty
    /\ pc[p] # "idle" /\ (pc[p] \in {"fetch", "save"} => run[p].status = "rejected")
    /\ End(p)
    /\ UNCHANGED <<evidence, matched>>
-----------------------------------------------------------------------------
Next == \E p \in Procs :
            \/ submitEvidence(p)
            \/ uploadFile(p)
            \/ insertEvidence(p)
            \/ verifyEvidence(p)
            \/ \E match \in BOOLEAN : getFile(p, match)
            \/ deleteEvidence(p)
            \/ saveEvidence(p)
            \/ verificationFails(p)
            \/ fail(p)

Spec == Init /\ [][Next]_vars
-----------------------------------------------------------------------------
TypeOK == evidence \in EvidenceRow \cup {Absent} /\ matched \in BOOLEAN

(* Content is handed out where the row says isVerified: it then once had   *)
(* its checksum, whatever copies were saved since and whichever calls were *)
(* rejected; and evidence whose status is verified is handed out.          *)
ServedWasVerified == evidence # Absent =>
    /\ evidence.isVerified => matched
    /\ evidence.status = "verified" => evidence.isVerified
=============================================================================
