------------------------------- MODULE Disputes -------------------------------
(***************************************************************************)
(* DisputeService, VotingService and ArbitratorSelectionService for one    *)
(* dispute.  The controllers and processors that call them are not in the  *)
(* repository: a request here is a call of a service.                      *)
(*                                                                         *)
(* A dispute is saved as it was read with its votes, evidence and          *)
(* timeline.  A child row inserted in between is no part of what is saved: *)
(* TypeORM would clear its disputeId, which is not nullable, so the save   *)
(* fails.                                                                  *)
(***************************************************************************)
EXTENDS Naturals, Sequences, FiniteSets, SequencesExt

CONSTANTS Arbitrators,
          SuccessRates, \* theirs, when they vote, in percent
          Tiers,        \* theirs, when they vote
          Decisions,    \* what they vote for
          maxCases,     \* of an arbitrator
          Procs,        \* the handlers that can be in flight at a time
          MaxRequests   \* bound: calls of the services

ASSUME ConstantsAssumption ==
    /\ IsFiniteSet(Arbitrators)
    /\ SuccessRates \subseteq Nat
    /\ maxCases \in Nat
    /\ MaxRequests \in Nat

DisputeStatus == {"pending", "under_review", "evidence_collection", "arbitration", "voting",
                  "resolved", "appealed", "closed", "expired"}

VARIABLES overlap,     \* may handlers overlap?
          faulty,      \* may calls be rejected and the process die?
          required,    \* arbitrators the dispute asks for
          status,      \* "absent": the dispute is not created yet
          votes,       \* the rows, oldest first: by whom, for what, revealed?
          children,    \* votes and timeline entries of the dispute
          activeCases, \* of each arbitrator
          pc, run,     \* each handler: where it stands and what it knows
          rated,       \* history: ratings of each arbitrator's votes
          requests

setting == <<overlap, faulty, required>>
vars == <<setting, status, votes, children, activeCases, pc, run, rated, requests>>

NoRun == [by |-> "none", choice |-> "none", row |-> 0, chosen |-> <<>>,
          next |-> "absent", children |-> 0]

Init == /\ overlap \in BOOLEAN
        /\ faulty \in BOOLEAN
        /\ required \in {1, 3}
        /\ status = "absent"
        /\ votes = <<>>
        /\ children = 0
        /\ activeCases = [a \in Arbitrators |-> 0]
        /\ pc = [p \in Procs |-> "idle"]
        /\ run = [p \in Procs |-> NoRun]
        /\ rated = [a \in Arbitrators |-> 0]
        /\ requests = 0

Goto(p, label) == pc' = [pc EXCEPT ![p] = label]
End(p) == Goto(p, "idle") /\ run' = [run EXCEPT ![p] = NoRun]
Continues(p, label, r) == Goto(p, label) /\ run' = [run EXCEPT ![p] = r]

Request(p) == /\ pc[p] = "idle"
              /\ overlap \/ \A q \in Procs : pc[q] = "idle"
              /\ requests < MaxRequests
              /\ requests' = requests + 1
-----------------------------------------------------------------------------
(* The dispute, its first timeline entry and a job that nothing handles.   *)
createDispute ==
    /\ status = "absent"
    /\ status' = "pending"
    /\ children' = children + 1
    /\ UNCHANGED <<setting, votes, activeCases, pc, run, rated, requests>>

(* updateDisputeStatus, for the voting phase called from outside.          *)
updateDisputeStatus(p, s) ==
    /\ status # "absent"
    /\ Request(p)
    /\ Continues(p, "readDispute", [NoRun EXCEPT !.next = s])
    /\ UNCHANGED <<setting, status, votes, children, activeCases, rated>>

readDispute(p) ==
    /\ pc[p] = "readDispute"
    /\ Continues(p, "saveStatus", [run[p] EXCEPT !.children = children])
    /\ UNCHANGED <<setting, status, votes, children, activeCases, rated, requests>>

saveStatus(p) ==
    /\ pc[p] = "saveStatus"
    /\ IF run[p].children = children
       THEN status' = run[p].next /\ Goto(p, "addEvent") /\ UNCHANGED run
       ELSE End(p) /\ UNCHANGED status
    /\ UNCHANGED <<setting, votes, children, activeCases, rated, requests>>

(* The timeline entry; the reputations follow if this was a result.        *)
addEvent(p) ==
    /\ pc[p] = "addEvent"
    /\ children' = children + 1
    /\ IF run[p].choice = "none" THEN End(p) ELSE Goto(p, "rate") /\ UNCHANGED run
    /\ UNCHANGED <<setting, status, votes, activeCases, rated, requests>>

Final == {"resolved", "closed", "expired"}

(* resolveDispute looks at no status.                                      *)
resolveDispute(p) ==
    /\ status # "absent"
    /\ Request(p)
    /\ Continues(p, "saveStatus", [NoRun EXCEPT !.next = "resolved", !.children = children])
    /\ UNCHANGED <<setting, status, votes, children, activeCases, rated>>

(* The dispute was listed as past its deadline.                            *)
checkExpiredDisputes(p) ==
    /\ status \notin Final \cup {"absent"}
    /\ Request(p)
    /\ Continues(p, "readDispute", [NoRun EXCEPT !.next = "expired"])
    /\ UNCHANGED <<setting, status, votes, children, activeCases, rated>>
-----------------------------------------------------------------------------
escalateDispute(p) ==
    /\ status \in {"pending", "under_review"}
    /\ Request(p)
    /\ Goto(p, "select")
    /\ UNCHANGED <<setting, status, votes, children, activeCases, run, rated>>

(* A slip in getAvailableArbitrators: one case more.                       *)
OneCaseMore == {a \in Arbitrators : activeCases[a] <= maxCases}

getAvailableArbitrators == {a \in Arbitrators : activeCases[a] < maxCases}

(* If there are too few, the fallback lists those of lower tiers as well,  *)
(* the same ones among them: they can be chosen twice.  The scores decide  *)
(* who comes first.                                                        *)
Candidates ==
    LET available == getAvailableArbitrators
        twice == Cardinality(available) < required
        n == IF twice THEN 2 * Cardinality(available) ELSE Cardinality(available)
        k == IF n < required THEN n ELSE required
    IN  {s \in [1..k -> available] :
            \A a \in available : Cardinality({i \in 1..k : s[i] = a}) <= IF twice THEN 2 ELSE 1}

selectArbitrators(p) ==
    /\ pc[p] = "select"
    /\ \E s \in Candidates :
          Continues(p, IF s = <<>> THEN "readDispute" ELSE "assign",
                    [run[p] EXCEPT !.chosen = s, !.next = "arbitration"])
    /\ UNCHANGED <<setting, status, votes, children, activeCases, rated, requests>>

(* One arbitrator after the other; nothing ever takes a case off again.    *)
assignArbitratorToDispute(p) ==
    /\ pc[p] = "assign"
    /\ activeCases' = [activeCases EXCEPT ![Head(run[p].chosen)] = @ + 1]
    /\ Continues(p, IF Len(run[p].chosen) = 1 THEN "readDispute" ELSE "assign",
                 [run[p] EXCEPT !.chosen = Tail(@)])
    /\ UNCHANGED <<setting, status, votes, children, rated, requests>>
-----------------------------------------------------------------------------
RowsOf(a) == {i \in 1..Len(votes) : votes[i].by = a}

submitVote(p, a, c) ==
    /\ status = "voting"
    /\ Request(p)
    /\ Continues(p, "findVote", [NoRun EXCEPT !.by = a, !.choice = c])
    /\ UNCHANGED <<setting, status, votes, children, activeCases, rated>>

(* A slip in submitVote: it does not look for an earlier vote.             *)
FindNoVote(p) ==
    /\ pc[p] = "findVote"
    /\ Goto(p, "insertVote")
    /\ UNCHANGED <<setting, status, votes, children, activeCases, run, rated, requests>>

findExistingVote(p) ==
    /\ pc[p] = "findVote"
    /\ IF RowsOf(run[p].by) = {} THEN Goto(p, "insertVote") /\ UNCHANGED run ELSE End(p)
    /\ UNCHANGED <<setting, status, votes, children, activeCases, rated, requests>>

(* In hundredths.                                                          *)
calculateVoteWeight(successRate, tier) ==
    LET factor == CASE tier = "master" -> 20 [] tier = "expert" -> 15
                    [] tier = "senior" -> 12 [] OTHER -> 10
    IN  Max({10, Min({200, (successRate * factor) \div 10})})

(* No index forbids a second vote.                                         *)
insertVote(p) ==
    /\ pc[p] = "insertVote"
    /\ \E rate \in SuccessRates, tier \in Tiers :
          votes' = Append(votes, [by |-> run[p].by, choice |-> run[p].choice,
                                  weight |-> calculateVoteWeight(rate, tier),
                                  isCommitted |-> FALSE])
    /\ children' = children + 1
    /\ End(p)
    /\ UNCHANGED <<setting, status, activeCases, rated, requests>>

(* commitVote looks at one of the arbitrator's votes, and not at the       *)
(* status of the dispute.                                                  *)
commitVote(p, a) ==
    /\ Request(p)
    /\ \E i \in RowsOf(a) : /\ ~votes[i].isCommitted
                            /\ Continues(p, "saveVote", [NoRun EXCEPT !.row = i])
    /\ UNCHANGED <<setting, status, votes, children, activeCases, rated>>

saveVote(p) ==
    /\ pc[p] = "saveVote"
    /\ votes' = [votes EXCEPT ![run[p].row].isCommitted = TRUE]
    /\ Goto(p, "check")
    /\ UNCHANGED <<setting, status, children, activeCases, run, rated, requests>>

AllCommitted == \A i \in 1..Len(votes) : votes[i].isCommitted

(* A slip in checkVotingCompletion: the check wants a vote of everybody.   *)
CheckEverybody(p) ==
    /\ pc[p] = "check"
    /\ IF AllCommitted /\ \A a \in Arbitrators : RowsOf(a) # {}
       THEN Goto(p, "tally") /\ UNCHANGED run ELSE End(p)
    /\ UNCHANGED <<setting, status, votes, children, activeCases, rated, requests>>

checkVotingCompletion(p) ==
    /\ pc[p] = "check"
    /\ IF AllCommitted THEN Goto(p, "tally") /\ UNCHANGED run ELSE End(p)
    /\ UNCHANGED <<setting, status, votes, children, activeCases, rated, requests>>

(* The columns weight are text, and += appends it: a decision's sum is the *)
(* number 0 (no vote), or the text of the weights of its votes.            *)
Breakdown(c) == LET for == SelectSeq(votes, LAMBDA v : v.isCommitted /\ v.choice = c)
                IN  [i \in 1..Len(for) |-> for[i].weight]

(* Texts compare like their sequences of weights.  A text of one weight is *)
(* a number when it is compared with the number 0; a text of several is    *)
(* not (NaN, and no comparison with it holds).                             *)
TextGreater(s, t) ==
    \/ Len(s) > Len(t) /\ SubSeq(s, 1, Len(t)) = t
    \/ \E i \in 1..Len(s) : /\ i <= Len(t)
                            /\ SubSeq(s, 1, i - 1) = SubSeq(t, 1, i - 1)
                            /\ s[i] > t[i]
Exceeds(s, max) == IF max = <<>> THEN Len(s) = 1 ELSE TextGreater(s, max)

Order == <<"favor_claimant", "favor_respondent", "partial_claimant", "partial_respondent",
           "abstain", "require_more_evidence">>

(* The decisions are gone through in this order; the first to exceed the   *)
(* greatest sum so far takes its place.                                    *)
calculateVoteResults ==
    FoldLeft(LAMBDA best, c : IF Exceeds(Breakdown(c), best.max)
                              THEN [winner |-> c, max |-> Breakdown(c)] ELSE best,
             [winner |-> "abstain", max |-> <<>>], Order).winner

NextStatus(c) == IF c = "require_more_evidence" THEN "evidence_collection" ELSE "resolved"

processVotingResults(p) ==
    /\ pc[p] = "tally"
    /\ Continues(p, "readDispute", [run[p] EXCEPT !.choice = calculateVoteResults,
                                                  !.next = NextStatus(calculateVoteResults)])
    /\ UNCHANGED <<setting, status, votes, children, activeCases, rated, requests>>

(* Every vote is rated, once for each row.                                 *)
updateArbitratorReputations(p) ==
    /\ pc[p] = "rate"
    /\ rated' = [a \in Arbitrators |-> rated[a] + Cardinality(RowsOf(a))]
    /\ End(p)
    /\ UNCHANGED <<setting, status, votes, children, activeCases, requests>>

fail(p) ==
    /\ faulty
    /\ pc[p] # "idle"
    /\ End(p)
    /\ UNCHANGED <<setting, status, votes, children, activeCases, rated, requests>>
-----------------------------------------------------------------------------
Continue(p) == \/ readDispute(p)
               \/ saveStatus(p)
               \/ addEvent(p)
               \/ selectArbitrators(p)
               \/ assignArbitratorToDispute(p)
               \/ findExistingVote(p)
               \/ insertVote(p)
               \/ saveVote(p)
               \/ checkVotingCompletion(p)
               \/ processVotingResults(p)
               \/ updateArbitratorReputations(p)

Next == \/ createDispute
        \/ \E p \in Procs : \/ updateDisputeStatus(p, "voting")
                            \/ resolveDispute(p)
                            \/ checkExpiredDisputes(p)
                            \/ escalateDispute(p)
                            \/ \E a \in Arbitrators, c \in Decisions : submitVote(p, a, c)
                            \/ \E a \in Arbitrators : commitVote(p, a)
                            \/ Continue(p)
                            \/ fail(p)

(* A handler whose calls return goes on.                                   *)
Fairness == \A p \in Procs : WF_vars(Continue(p))

Spec == Init /\ [][Next]_vars
FairSpec == Spec /\ Fairness
-----------------------------------------------------------------------------
(* "Arbitrator has already voted": one vote each, as long as handlers do   *)
(* not overlap; and whatever an arbitrator's tier and record, a vote that  *)
(* counts weighs between 0.1 and 2.                                        *)
OneVoteEach ==
    /\ ~overlap => \A a \in Arbitrators : Cardinality(RowsOf(a)) <= 1
    /\ \A i \in DOMAIN votes : votes[i].weight \in 10..200

(* No arbitrator is given more cases than maxCases, as long as handlers do *)
(* not overlap and one arbitrator is asked for.                            *)
WithinCapacity == ~overlap /\ required = 1 =>
    \A a \in Arbitrators : activeCases[a] <= maxCases

(* When nothing fails, the reveal of the last submitted vote ends the      *)
(* voting, however the reveals overlap, unless the timeline entry of       *)
(* another update comes between the read and the save of the result.       *)
RevealedIsDecided ==
    status = "voting" /\ AllCommitted /\ (\E p \in Procs : pc[p] = "check")
        ~> \/ status # "voting" \/ ~AllCommitted \/ faulty
           \/ \E p \in Procs : pc[p] = "addEvent" /\ run[p].choice = "none"
=============================================================================
