---------------------------- MODULE Disputes_proofs ----------------------------
(***************************************************************************)
(* Theorems about Disputes for any arbitrators, decisions, capacities and  *)
(* handlers in flight.                                                     *)
(***************************************************************************)
EXTENDS Disputes, TLAPS, FiniteSetTheorems, SequenceTheorems

-----------------------------------------------------------------------------
(* The inductive invariant, in named parts.                                *)

Labels == {"idle", "readDispute", "saveStatus", "addEvent", "rate", "select", "assign",
           "findVote", "insertVote", "saveVote", "check", "tally"}
Vote == [by : Arbitrators, choice : Decisions, weight : 10..200, isCommitted : BOOLEAN]

(* What a handler knows has these fields; its decision may be one that     *)
(* calculateVoteResults came to.                                           *)
IsRun(r) ==
    /\ r = [by |-> r.by, choice |-> r.choice, row |-> r.row, chosen |-> r.chosen,
            next |-> r.next, children |-> r.children]
    /\ r.chosen \in Seq(Arbitrators)

TypeOK == /\ overlap \in BOOLEAN
          /\ required \in {1, 3}
          /\ votes \in Seq(Vote)
          /\ activeCases \in [Arbitrators -> Nat]
          /\ pc \in [Procs -> Labels]
          /\ run = [p \in Procs |-> run[p]]
          /\ \A p \in Procs : IsRun(run[p])

(* Rows are only ever added, so the one a handler found is still there.    *)
Placed == \A p \in Procs :
    /\ pc[p] \in {"findVote", "insertVote"} =>
          run[p].by \in Arbitrators /\ run[p].choice \in Decisions
    /\ pc[p] = "saveVote" => run[p].row \in 1..Len(votes)
    /\ pc[p] = "assign" => run[p].chosen # <<>>

(* Unless handlers overlap only one is at work: what it has read still     *)
(* holds when it acts on it.                                               *)
Alone == ~overlap => \A p, q \in Procs : pc[p] # "idle" /\ pc[q] # "idle" => p = q

NotYet == ~overlap => \A p \in Procs : pc[p] = "insertVote" => RowsOf(run[p].by) = {}

Room == ~overlap /\ required = 1 => \A p \in Procs : pc[p] = "assign" =>
            /\ Len(run[p].chosen) = 1
            /\ activeCases[Head(run[p].chosen)] < maxCases

OneRowEach == ~overlap => \A i, j \in DOMAIN votes : votes[i].by = votes[j].by => i = j

IInv == TypeOK /\ Placed /\ Alone /\ NotYet /\ Room /\ OneRowEach /\ WithinCapacity
-----------------------------------------------------------------------------
(* What the parts of a step change.                                        *)

(* Handler p takes a step, to label l; the others stand.                   *)
Moves(p, l) == /\ pc' \in [Procs -> Labels]
               /\ pc'[p] = l
               /\ run' = [q \in Procs |-> run'[q]]
               /\ \A q \in Procs : IsRun(run'[q])
               /\ \A q \in Procs \ {p} : pc'[q] = pc[q] /\ run'[q] = run[q]

LEMMA ContinuesEffect ==
    ASSUME TypeOK, NEW p \in Procs, NEW l \in Labels, NEW r, IsRun(r),
           Continues(p, l, r)
    PROVE  Moves(p, l) /\ run'[p] = r
  <1>1. pc' \in [Procs -> Labels] /\ pc'[p] = l /\ \A q \in Procs \ {p} : pc'[q] = pc[q]
    BY DEF Continues, Goto, TypeOK
  <1>2. run' = [q \in Procs |-> IF q = p THEN r ELSE run[q]]
    BY DEF Continues, TypeOK
  <1>3. run'[p] = r /\ \A q \in Procs \ {p} : run'[q] = run[q]
    BY <1>2
  <1>4. run' = [q \in Procs |-> run'[q]]
    BY <1>2
  <1>5. \A q \in Procs : IsRun(run'[q])
    BY <1>3 DEF TypeOK
  <1> QED
    BY <1>1, <1>3, <1>4, <1>5 DEF Moves

LEMMA GotoEffect ==
    ASSUME TypeOK, NEW p \in Procs, NEW l \in Labels, Goto(p, l), run' = run
    PROVE  Moves(p, l) /\ run'[p] = run[p]
  BY DEF Goto, TypeOK, Moves

LEMMA NoRunIsRun == IsRun(NoRun)
  BY DEF IsRun, NoRun

LEMMA EndEffect ==
    ASSUME TypeOK, NEW p \in Procs, End(p)
    PROVE  Moves(p, "idle") /\ run'[p] = NoRun
  BY NoRunIsRun, ContinuesEffect DEF End, Continues, Labels
-----------------------------------------------------------------------------
(* What each action changes.                                               *)

Same == votes' = votes /\ activeCases' = activeCases /\ setting' = setting
Free(p) == pc[p] = "idle" /\ (overlap \/ \A q \in Procs : pc[q] = "idle")
Busy(p) == pc[p] # "idle"

(* Handlers that do not touch votes or cases, nor are about to.            *)
Aside == Labels \ {"assign", "findVote", "insertVote", "saveVote"}
Passes(p) == Same /\ (Free(p) \/ Busy(p)) /\ \E l \in Aside : Moves(p, l)

LEMMA AsideLabels ==
    /\ {"idle", "readDispute", "saveStatus", "addEvent", "rate", "select", "check", "tally"}
          \subseteq Aside
    /\ Aside \subseteq Labels
  BY DEF Aside, Labels

LEMMA RunWith ==
    ASSUME NEW r, IsRun(r), NEW x
    PROVE  /\ IsRun([r EXCEPT !.choice = x]) /\ IsRun([r EXCEPT !.next = x])
           /\ IsRun([r EXCEPT !.children = x]) /\ IsRun([r EXCEPT !.row = x])
           /\ IsRun([r EXCEPT !.by = x])
           /\ x \in Seq(Arbitrators) => IsRun([r EXCEPT !.chosen = x])
  BY DEF IsRun

LEMMA RunWithTwo ==
    ASSUME NEW r, IsRun(r), NEW x, NEW y
    PROVE  /\ IsRun([r EXCEPT !.choice = x, !.next = y])
           /\ IsRun([r EXCEPT !.next = x, !.children = y])
           /\ x \in Seq(Arbitrators) => /\ IsRun([r EXCEPT !.chosen = x, !.next = y])
                                       /\ [r EXCEPT !.chosen = x, !.next = y].chosen = x
  <1>1. IsRun([r EXCEPT !.choice = x, !.next = y])
    <2> DEFINE u == [r EXCEPT !.choice = x]
    <2>1. IsRun(u)
      BY RunWith
    <2>2. [r EXCEPT !.choice = x, !.next = y] = [u EXCEPT !.next = y]
      OBVIOUS
    <2> HIDE DEF u
    <2> QED
      BY <2>1, <2>2, RunWith
  <1>2. IsRun([r EXCEPT !.next = x, !.children = y])
    <2> DEFINE u == [r EXCEPT !.next = x]
    <2>1. IsRun(u)
      BY RunWith
    <2>2. [r EXCEPT !.next = x, !.children = y] = [u EXCEPT !.children = y]
      OBVIOUS
    <2> HIDE DEF u
    <2> QED
      BY <2>1, <2>2, RunWith
  <1>3. ASSUME x \in Seq(Arbitrators)
        PROVE  /\ IsRun([r EXCEPT !.chosen = x, !.next = y])
               /\ [r EXCEPT !.chosen = x, !.next = y].chosen = x
    <2> DEFINE u == [r EXCEPT !.chosen = x]
    <2>0. PICK a, b, c, d, e, f : r = [by |-> a, choice |-> b, row |-> c, chosen |-> d,
                                       next |-> e, children |-> f]
      BY DEF IsRun
    <2>1. IsRun(u) /\ u.chosen = x
      BY <1>3, <2>0, RunWith
    <2>2. [r EXCEPT !.chosen = x, !.next = y] = [u EXCEPT !.next = y]
      OBVIOUS
    <2> HIDE DEF u
    <2>3. [u EXCEPT !.next = y].chosen = u.chosen
      BY <2>1 DEF IsRun
    <2> QED
      BY <2>1, <2>2, <2>3, RunWith
  <1> QED
    BY <1>1, <1>2, <1>3

LEMMA Passing ==
    ASSUME TypeOK, NEW p \in Procs,
           \/ updateDisputeStatus(p, "voting") \/ resolveDispute(p)
           \/ checkExpiredDisputes(p) \/ escalateDispute(p) \/ readDispute(p)
           \/ saveStatus(p) \/ addEvent(p) \/ checkVotingCompletion(p)
           \/ processVotingResults(p) \/ updateArbitratorReputations(p) \/ fail(p)
    PROVE  Passes(p)
  <1>r. IsRun(run[p]) /\ IsRun(NoRun)
    BY NoRunIsRun DEF TypeOK
  <1>c. ASSUME NEW l \in Aside, NEW r, IsRun(r), Continues(p, l, r)
        PROVE  \E k \in Aside : Moves(p, k)
    BY <1>c, ContinuesEffect, AsideLabels
  <1>g. ASSUME NEW l \in Aside, Goto(p, l), run' = run
        PROVE  \E k \in Aside : Moves(p, k)
    BY <1>g, GotoEffect, AsideLabels
  <1>e. ASSUME End(p)
        PROVE  \E k \in Aside : Moves(p, k)
    BY <1>e, EndEffect, AsideLabels
  <1>1. CASE updateDisputeStatus(p, "voting")
    <2>1. IsRun([NoRun EXCEPT !.next = "voting"])
      BY <1>r, RunWith
    <2> QED
      BY <1>1, <1>c, <2>1, AsideLabels
      DEF updateDisputeStatus, Request, Passes, Same, Free
  <1>2. CASE resolveDispute(p)
    <2> DEFINE r == [NoRun EXCEPT !.next = "resolved", !.children = children]
    <2>1. IsRun(r)
      BY <1>r, RunWithTwo
    <2>2. Continues(p, "saveStatus", r)
      BY <1>2 DEF resolveDispute
    <2> HIDE DEF r
    <2>3. \E k \in Aside : Moves(p, k)
      BY <1>c, <2>1, <2>2, AsideLabels
    <2> QED
      BY <1>2, <2>3 DEF resolveDispute, Request, Passes, Same, Free
  <1>3. CASE checkExpiredDisputes(p)
    <2>1. IsRun([NoRun EXCEPT !.next = "expired"])
      BY <1>r, RunWith
    <2> QED
      BY <1>3, <1>c, <2>1, AsideLabels
      DEF checkExpiredDisputes, Request, Passes, Same, Free
  <1>4. CASE escalateDispute(p)
    BY <1>4, <1>g, AsideLabels DEF escalateDispute, Request, Passes, Same, Free
  <1>5. CASE readDispute(p)
    <2>1. IsRun([run[p] EXCEPT !.children = children])
      BY <1>r, RunWith
    <2> QED
      BY <1>5, <1>c, <2>1, AsideLabels DEF readDispute, Passes, Same, Busy
  <1>6. CASE saveStatus(p)
    BY <1>6, <1>g, <1>e, AsideLabels DEF saveStatus, Passes, Same, Busy
  <1>7. CASE addEvent(p)
    BY <1>7, <1>g, <1>e, AsideLabels DEF addEvent, Passes, Same, Busy
  <1>8. CASE checkVotingCompletion(p)
    BY <1>8, <1>g, <1>e, AsideLabels DEF checkVotingCompletion, Passes, Same, Busy
  <1>9. CASE processVotingResults(p)
    <2> DEFINE r == [run[p] EXCEPT !.choice = calculateVoteResults,
                                   !.next = NextStatus(calculateVoteResults)]
    <2>1. IsRun(r)
      BY <1>r, RunWithTwo
    <2>2. Continues(p, "readDispute", r)
      BY <1>9 DEF processVotingResults
    <2> HIDE DEF r
    <2>3. \E k \in Aside : Moves(p, k)
      BY <1>c, <2>1, <2>2, AsideLabels
    <2> QED
      BY <1>9, <2>3 DEF processVotingResults, Passes, Same, Busy
  <1>10. CASE updateArbitratorReputations(p)
    BY <1>10, <1>e DEF updateArbitratorReputations, Passes, Same, Busy
  <1>11. CASE fail(p)
    BY <1>11, <1>e DEF fail, Passes, Same, Busy
  <1> QED
    BY <1>1, <1>2, <1>3, <1>4, <1>5, <1>6, <1>7, <1>8, <1>9, <1>10, <1>11

(* Choosing the arbitrators: when one is asked for, one with room.         *)
LEMMA CandidatesType ==
    ASSUME TypeOK, NEW s \in Candidates
    PROVE  /\ s \in Seq(Arbitrators)
           /\ required = 1 /\ s # <<>> => Len(s) = 1 /\ activeCases[Head(s)] < maxCases
  <1> DEFINE A == getAvailableArbitrators
             n == IF Cardinality(A) < required THEN 2 * Cardinality(A) ELSE Cardinality(A)
             k == IF n < required THEN n ELSE required
  <1>1. A \subseteq Arbitrators /\ Cardinality(A) \in Nat
    <2>1. A \subseteq Arbitrators
      BY DEF getAvailableArbitrators
    <2> QED
      BY <2>1, ConstantsAssumption, FS_Subset, FS_CardinalityType
  <1>2. s \in [1..k -> A]
    BY DEF Candidates
  <1>3. k \in Nat
    <2> HIDE DEF A
    <2> QED
      BY <1>1 DEF TypeOK
  <1>4. required = 1 => k = 0 \/ k = 1
    <2> HIDE DEF A
    <2> QED
      BY <1>1
  <1> HIDE DEF k, n
  <1>5. s \in Seq(A) /\ Len(s) = k
    BY <1>2, <1>3
  <1>6. s \in Seq(Arbitrators)
    BY <1>1, <1>5
  <1>7. ASSUME required = 1, s # <<>>
        PROVE  Len(s) = 1 /\ activeCases[Head(s)] < maxCases
    <2>1. k = 1
      BY <1>4, <1>5, <1>7
    <2>2. Head(s) \in A
      BY <1>5, <2>1
    <2> QED
      BY <1>5, <2>1, <2>2 DEF getAvailableArbitrators
  <1> QED
    BY <1>6, <1>7

LEMMA selectArbitratorsEffect ==
    ASSUME TypeOK, NEW p \in Procs, selectArbitrators(p)
    PROVE  /\ Same /\ Busy(p)
           /\ \E s \in Candidates :
                 /\ Moves(p, IF s = <<>> THEN "readDispute" ELSE "assign")
                 /\ run'[p].chosen = s
  <1>1. PICK s \in Candidates :
            Continues(p, IF s = <<>> THEN "readDispute" ELSE "assign",
                      [run[p] EXCEPT !.chosen = s, !.next = "arbitration"])
    BY DEF selectArbitrators
  <1> DEFINE r == [run[p] EXCEPT !.chosen = s, !.next = "arbitration"]
             l == IF s = <<>> THEN "readDispute" ELSE "assign"
  <1>2. IsRun(r) /\ r.chosen = s
    <2>1. IsRun(run[p]) /\ s \in Seq(Arbitrators)
      BY CandidatesType DEF TypeOK
    <2> QED
      BY <2>1, RunWithTwo
  <1>3. l \in Labels
    BY DEF Labels
  <1> HIDE DEF r
  <1>4. Moves(p, l) /\ run'[p] = r
    BY <1>1, <1>2, <1>3, ContinuesEffect DEF r
  <1> QED
    BY <1>2, <1>4 DEF selectArbitrators, Same, Busy

LEMMA assignEffect ==
    ASSUME TypeOK, Placed, NEW p \in Procs, assignArbitratorToDispute(p)
    PROVE  /\ pc[p] = "assign" /\ votes' = votes /\ setting' = setting
           /\ Moves(p, IF Len(run[p].chosen) = 1 THEN "readDispute" ELSE "assign")
           /\ run'[p].chosen = Tail(run[p].chosen)
           /\ run[p].chosen \in Seq(Arbitrators) /\ run[p].chosen # <<>>
           /\ activeCases' \in [Arbitrators -> Nat]
           /\ \A a \in Arbitrators : activeCases'[a] =
                 IF a = Head(run[p].chosen) THEN activeCases[a] + 1 ELSE activeCases[a]
  <1> DEFINE r == [run[p] EXCEPT !.chosen = Tail(@)]
             l == IF Len(run[p].chosen) = 1 THEN "readDispute" ELSE "assign"
  <1>1. IsRun(run[p]) /\ run[p].chosen \in Seq(Arbitrators) /\ run[p].chosen # <<>>
    BY DEF assignArbitratorToDispute, Placed, TypeOK, IsRun
  <1>2. Tail(run[p].chosen) \in Seq(Arbitrators)
    BY <1>1
  <1>3. IsRun(r) /\ r.chosen = Tail(run[p].chosen)
    BY <1>1, <1>2 DEF IsRun
  <1>4. l \in Labels
    BY DEF Labels
  <1> HIDE DEF r
  <1>5. Moves(p, l) /\ run'[p] = r
    BY <1>3, <1>4, ContinuesEffect DEF assignArbitratorToDispute, r
  <1>6. PICK h \in Arbitrators : h = Head(run[p].chosen)
    BY <1>1
  <1>7. activeCases' = [activeCases EXCEPT ![h] = @ + 1]
    BY <1>6 DEF assignArbitratorToDispute
  <1>8. /\ activeCases' \in [Arbitrators -> Nat]
        /\ \A a \in Arbitrators : activeCases'[a] =
              IF a = h THEN activeCases[a] + 1 ELSE activeCases[a]
    BY <1>7 DEF TypeOK
  <1> QED
    BY <1>1, <1>3, <1>5, <1>6, <1>8 DEF assignArbitratorToDispute

LEMMA submitVoteEffect ==
    ASSUME TypeOK, NEW p \in Procs, NEW a \in Arbitrators, NEW c \in Decisions,
           submitVote(p, a, c)
    PROVE  /\ Same /\ Free(p)
           /\ Moves(p, "findVote") /\ run'[p].by = a /\ run'[p].choice = c
  <1> DEFINE r == [NoRun EXCEPT !.by = a, !.choice = c]
  <1>1. r.by = a /\ r.choice = c
    BY DEF NoRun
  <1>2. IsRun(r)
    <2> DEFINE u == [NoRun EXCEPT !.by = a]
    <2>1. IsRun(u)
      BY NoRunIsRun, RunWith
    <2>2. r = [u EXCEPT !.choice = c]
      OBVIOUS
    <2> HIDE DEF u
    <2> QED
      BY <2>1, <2>2, RunWith
  <1>3. Continues(p, "findVote", r)
    BY DEF submitVote
  <1> HIDE DEF r
  <1>4. Moves(p, "findVote") /\ run'[p] = r
    BY <1>2, <1>3, ContinuesEffect DEF Labels
  <1> QED
    BY <1>1, <1>4 DEF submitVote, Request, Same, Free

LEMMA findExistingVoteEffect ==
    ASSUME TypeOK, NEW p \in Procs, findExistingVote(p)
    PROVE  /\ Same /\ pc[p] = "findVote"
           /\ \/ RowsOf(run[p].by) = {} /\ Moves(p, "insertVote") /\ run'[p] = run[p]
              \/ Moves(p, "idle")
  BY GotoEffect, EndEffect DEF findExistingVote, Same, Labels

(* The bounds of a weight hold whatever Math.min and Math.max are given.   *)
LEMMA ClampType ==
    ASSUME NEW x \in Int
    PROVE  Max({10, Min({200, x})}) \in 10..200
  <1>1. \E m \in {200, x} : \A y \in {200, x} : m <= y
    BY x <= 200 \/ x > 200
  <1>2. Min({200, x}) \in {200, x} /\ \A y \in {200, x} : Min({200, x}) <= y
    BY <1>1 DEF Min
  <1>3. PICK m \in Int : m = Min({200, x}) /\ m <= 200
    BY <1>2
  <1>4. \E n \in {10, m} : \A y \in {10, m} : n >= y
    BY m <= 10 \/ m > 10
  <1>5. Max({10, m}) \in {10, m} /\ \A y \in {10, m} : Max({10, m}) >= y
    BY <1>4 DEF Max
  <1> QED
    BY <1>3, <1>5

LEMMA WeightType ==
    ASSUME NEW rate \in SuccessRates, NEW tier \in Tiers
    PROVE  calculateVoteWeight(rate, tier) \in 10..200
  <1> DEFINE factor == CASE tier = "master" -> 20 [] tier = "expert" -> 15
                         [] tier = "senior" -> 12 [] OTHER -> 10
             x == (rate * factor) \div 10
  <1>1. factor \in {10, 12, 15, 20}
    OBVIOUS
  <1> HIDE DEF factor
  <1>2. x \in Int
    <2>1. rate \in Nat
      BY ConstantsAssumption
    <2> QED
      BY <1>1, <2>1
  <1> HIDE DEF x
  <1>3. Max({10, Min({200, x})}) \in 10..200
    BY <1>2, ClampType
  <1> QED
    BY <1>3 DEF calculateVoteWeight, x, factor

LEMMA insertVoteEffect ==
    ASSUME TypeOK, Placed, NEW p \in Procs, insertVote(p)
    PROVE  /\ pc[p] = "insertVote" /\ Moves(p, "idle")
           /\ activeCases' = activeCases /\ setting' = setting
           /\ \E v \in Vote : v.by = run[p].by /\ votes' = Append(votes, v)
  <1>1. PICK rate \in SuccessRates, tier \in Tiers :
            votes' = Append(votes, [by |-> run[p].by, choice |-> run[p].choice,
                                    weight |-> calculateVoteWeight(rate, tier),
                                    isCommitted |-> FALSE])
    BY DEF insertVote
  <1>2. run[p].by \in Arbitrators /\ run[p].choice \in Decisions
    BY DEF insertVote, Placed
  <1>3. PICK w \in 10..200 : w = calculateVoteWeight(rate, tier)
    BY WeightType
  <1> DEFINE v == [by |-> run[p].by, choice |-> run[p].choice, weight |-> w,
                   isCommitted |-> FALSE]
  <1>4. v \in Vote /\ v.by = run[p].by
    BY <1>2 DEF Vote
  <1>5. votes' = Append(votes, v)
    BY <1>1, <1>3
  <1> HIDE DEF v
  <1> QED
    BY <1>4, <1>5, EndEffect DEF insertVote

LEMMA commitVoteEffect ==
    ASSUME TypeOK, NEW p \in Procs, NEW a \in Arbitrators, commitVote(p, a)
    PROVE  /\ Same /\ Free(p)
           /\ Moves(p, "saveVote") /\ run'[p].row \in 1..Len(votes)
  <1>1. PICK i \in RowsOf(a) : Continues(p, "saveVote", [NoRun EXCEPT !.row = i])
    BY DEF commitVote
  <1> DEFINE r == [NoRun EXCEPT !.row = i]
  <1>2. IsRun(r) /\ r.row = i
    BY DEF NoRun, IsRun
  <1> HIDE DEF r
  <1>3. Moves(p, "saveVote") /\ run'[p] = r
    BY <1>1, <1>2, ContinuesEffect DEF Labels, r
  <1> QED
    BY <1>2, <1>3 DEF commitVote, Request, Same, Free, RowsOf

LEMMA saveVoteEffect ==
    ASSUME TypeOK, Placed, NEW p \in Procs, saveVote(p)
    PROVE  /\ pc[p] = "saveVote" /\ Moves(p, "check")
           /\ activeCases' = activeCases /\ setting' = setting
           /\ votes' \in Seq(Vote) /\ Len(votes') = Len(votes)
           /\ \A i \in 1..Len(votes) : votes'[i].by = votes[i].by
  <1>1. PICK k \in 1..Len(votes) : k = run[p].row
    BY DEF saveVote, Placed
  <1> DEFINE v == [votes[k] EXCEPT !.isCommitted = TRUE]
  <1>2. votes[k] \in Vote
    BY DEF TypeOK
  <1>3. v \in Vote /\ v.by = votes[k].by
    BY <1>2 DEF Vote
  <1>4. votes' = [votes EXCEPT ![k] = v]
    BY <1>1 DEF saveVote, TypeOK
  <1> HIDE DEF v
  <1>5. votes' \in Seq(Vote) /\ Len(votes') = Len(votes)
    BY <1>3, <1>4 DEF TypeOK
  <1>6. \A i \in 1..Len(votes) : votes'[i] = IF i = k THEN v ELSE votes[i]
    BY <1>4 DEF TypeOK
  <1>7. Moves(p, "check")
    BY GotoEffect DEF saveVote, Labels
  <1> QED
    BY <1>3, <1>5, <1>6, <1>7 DEF saveVote

LEMMA createDisputeEffect ==
    ASSUME createDispute
    PROVE  Same /\ pc' = pc /\ run' = run
  BY DEF createDispute, Same
-----------------------------------------------------------------------------
(* The parts of the invariant, one after the other.                        *)

(* Unless handlers overlap nobody else is at work after a step.            *)
LEMMA OthersIdle ==
    ASSUME Alone, ~overlap, NEW p \in Procs, NEW l, Moves(p, l), Free(p) \/ Busy(p)
    PROVE  \A q \in Procs \ {p} : pc'[q] = "idle"
  BY DEF Alone, Moves, Free, Busy

LEMMA StepKinds ==
    ASSUME TypeOK, Placed, Next
    PROVE  /\ setting' = setting
           /\ \/ Same /\ pc' = pc /\ run' = run
              \/ \E p \in Procs : Passes(p)
              \/ \E p \in Procs : selectArbitrators(p)
              \/ \E p \in Procs : assignArbitratorToDispute(p)
              \/ \E p \in Procs, a \in Arbitrators, c \in Decisions : submitVote(p, a, c)
              \/ \E p \in Procs : findExistingVote(p)
              \/ \E p \in Procs : insertVote(p)
              \/ \E p \in Procs, a \in Arbitrators : commitVote(p, a)
              \/ \E p \in Procs : saveVote(p)
  <1>1. setting' = setting
    BY DEF Next, Continue, createDispute, updateDisputeStatus, resolveDispute,
           checkExpiredDisputes, escalateDispute, submitVote, commitVote, readDispute,
           saveStatus, addEvent, selectArbitrators, assignArbitratorToDispute,
           findExistingVote, insertVote, saveVote, checkVotingCompletion,
           processVotingResults, updateArbitratorReputations, fail
  <1> QED
    BY <1>1, Passing, createDisputeEffect DEF Next, Continue

LEMMA TypeStep ==
    ASSUME TypeOK, Placed, Next
    PROVE  TypeOK'
  <1>s. overlap' = overlap /\ required' = required
    BY StepKinds DEF setting
  <1>1. ASSUME NEW p \in Procs, NEW l, Moves(p, l), votes' \in Seq(Vote),
               activeCases' \in [Arbitrators -> Nat]
        PROVE  TypeOK'
    BY <1>s, <1>1 DEF TypeOK, Moves
  <1>2. CASE Same /\ pc' = pc /\ run' = run
    BY <1>2, <1>s DEF TypeOK, Same
  <1>3. ASSUME NEW p \in Procs, Passes(p)
        PROVE  TypeOK'
    BY <1>1, <1>3 DEF Passes, Same, TypeOK
  <1>4. ASSUME NEW p \in Procs, selectArbitrators(p)
        PROVE  TypeOK'
    BY <1>1, <1>4, selectArbitratorsEffect DEF Same, TypeOK
  <1>5. ASSUME NEW p \in Procs, assignArbitratorToDispute(p)
        PROVE  TypeOK'
    BY <1>1, <1>5, assignEffect DEF TypeOK
  <1>6. ASSUME NEW p \in Procs, NEW a \in Arbitrators, NEW c \in Decisions,
               submitVote(p, a, c)
        PROVE  TypeOK'
    BY <1>1, <1>6, submitVoteEffect DEF Same, TypeOK
  <1>7. ASSUME NEW p \in Procs, findExistingVote(p)
        PROVE  TypeOK'
    BY <1>1, <1>7, findExistingVoteEffect DEF Same, TypeOK
  <1>8. ASSUME NEW p \in Procs, insertVote(p)
        PROVE  TypeOK'
    <2>1. PICK v \in Vote : votes' = Append(votes, v)
      BY <1>8, insertVoteEffect
    <2>2. votes' \in Seq(Vote)
      BY <2>1 DEF TypeOK
    <2> QED
      BY <1>1, <1>8, <2>2, insertVoteEffect DEF TypeOK
  <1>9. ASSUME NEW p \in Procs, NEW a \in Arbitrators, commitVote(p, a)
        PROVE  TypeOK'
    BY <1>1, <1>9, commitVoteEffect DEF Same, TypeOK
  <1>10. ASSUME NEW p \in Procs, saveVote(p)
         PROVE  TypeOK'
    BY <1>1, <1>10, saveVoteEffect DEF TypeOK
  <1> QED
    BY <1>2, <1>3, <1>4, <1>5, <1>6, <1>7, <1>8, <1>9, <1>10, StepKinds

LEMMA PlacedStep ==
    ASSUME TypeOK, Placed, Next
    PROVE  Placed'
  <1>1. ASSUME NEW p \in Procs, NEW l, Moves(p, l), Len(votes') >= Len(votes),
               Len(votes') \in Nat,
               l \in {"findVote", "insertVote"} =>
                  run'[p].by \in Arbitrators /\ run'[p].choice \in Decisions,
               l = "saveVote" => run'[p].row \in 1..Len(votes'),
               l = "assign" => run'[p].chosen # <<>>
        PROVE  Placed'
    <2>1. Len(votes) \in Nat
      BY DEF TypeOK
    <2> QED
      BY <1>1, <2>1 DEF Placed, Moves
  <1>v. Len(votes) \in Nat
    BY DEF TypeOK
  <1>2. CASE Same /\ pc' = pc /\ run' = run
    BY <1>2 DEF Placed, Same
  <1>3. ASSUME NEW p \in Procs, Passes(p)
        PROVE  Placed'
    BY <1>1, <1>3, <1>v DEF Passes, Same, Aside
  <1>4. ASSUME NEW p \in Procs, selectArbitrators(p)
        PROVE  Placed'
    BY <1>1, <1>4, <1>v, selectArbitratorsEffect DEF Same
  <1>5. ASSUME NEW p \in Procs, assignArbitratorToDispute(p)
        PROVE  Placed'
    <2>1. PICK c \in Seq(Arbitrators) : c = run[p].chosen /\ c # <<>>
      BY <1>5, assignEffect
    <2>a. Len(c) \in Nat \ {0}
      BY <2>1, EmptySeq
    <2>b. Len(Tail(c)) = Len(c) - 1
      BY <2>1, HeadTailProperties
    <2>c. Len(<<>>) = 0
      OBVIOUS
    <2>2. Len(c) # 1 => Tail(c) # <<>>
      <3> SUFFICES ASSUME Len(c) # 1
                   PROVE  Tail(c) # <<>>
        OBVIOUS
      <3>1. Len(Tail(c)) # 0
        BY <2>a, <2>b
      <3> QED
        BY <3>1, <2>c
    <2>3. Len(c) # 1 => run'[p].chosen # <<>>
      BY <1>5, <2>1, <2>2, assignEffect
    <2>4. Len(votes') >= Len(votes) /\ Len(votes') \in Nat
      BY <1>5, <1>v, assignEffect
    <2>5. Moves(p, IF Len(c) = 1 THEN "readDispute" ELSE "assign")
      BY <1>5, <2>1, assignEffect
    <2> QED
      BY <1>1, <2>3, <2>4, <2>5
  <1>6. ASSUME NEW p \in Procs, NEW a \in Arbitrators, NEW c \in Decisions,
               submitVote(p, a, c)
        PROVE  Placed'
    BY <1>1, <1>6, <1>v, submitVoteEffect DEF Same
  <1>7. ASSUME NEW p \in Procs, findExistingVote(p)
        PROVE  Placed'
    BY <1>1, <1>7, <1>v, findExistingVoteEffect DEF Same, Placed
  <1>8. ASSUME NEW p \in Procs, insertVote(p)
        PROVE  Placed'
    <2>1. PICK v \in Vote : votes' = Append(votes, v)
      BY <1>8, insertVoteEffect
    <2>2. Len(votes') = Len(votes) + 1
      BY <2>1 DEF TypeOK
    <2> QED
      BY <1>1, <1>8, <1>v, <2>2, insertVoteEffect
  <1>9. ASSUME NEW p \in Procs, NEW a \in Arbitrators, commitVote(p, a)
        PROVE  Placed'
    BY <1>1, <1>9, <1>v, commitVoteEffect DEF Same
  <1>10. ASSUME NEW p \in Procs, saveVote(p)
         PROVE  Placed'
    BY <1>1, <1>10, <1>v, saveVoteEffect
  <1> QED
    BY <1>2, <1>3, <1>4, <1>5, <1>6, <1>7, <1>8, <1>9, <1>10, StepKinds

LEMMA AloneStep ==
    ASSUME TypeOK, Placed, Alone, Next
    PROVE  Alone'
  <1>s. overlap' = overlap
    BY StepKinds DEF setting
  <1>1. ASSUME NEW p \in Procs, NEW l, Moves(p, l), Free(p) \/ Busy(p)
        PROVE  Alone'
    BY <1>s, <1>1, OthersIdle DEF Alone
  <1>2. CASE Same /\ pc' = pc /\ run' = run
    BY <1>2, <1>s DEF Alone
  <1>3. ASSUME NEW p \in Procs, Passes(p)
        PROVE  Alone'
    BY <1>1, <1>3 DEF Passes
  <1>4. ASSUME NEW p \in Procs, selectArbitrators(p)
        PROVE  Alone'
    BY <1>1, <1>4, selectArbitratorsEffect
  <1>5. ASSUME NEW p \in Procs, assignArbitratorToDispute(p)
        PROVE  Alone'
    BY <1>1, <1>5, assignEffect DEF Busy
  <1>6. ASSUME NEW p \in Procs, NEW a \in Arbitrators, NEW c \in Decisions,
               submitVote(p, a, c)
        PROVE  Alone'
    BY <1>1, <1>6, submitVoteEffect
  <1>7. ASSUME NEW p \in Procs, findExistingVote(p)
        PROVE  Alone'
    BY <1>1, <1>7, findExistingVoteEffect DEF Busy
  <1>8. ASSUME NEW p \in Procs, insertVote(p)
        PROVE  Alone'
    BY <1>1, <1>8, insertVoteEffect DEF Busy
  <1>9. ASSUME NEW p \in Procs, NEW a \in Arbitrators, commitVote(p, a)
        PROVE  Alone'
    BY <1>1, <1>9, commitVoteEffect
  <1>10. ASSUME NEW p \in Procs, saveVote(p)
         PROVE  Alone'
    BY <1>1, <1>10, saveVoteEffect DEF Busy
  <1> QED
    BY <1>2, <1>3, <1>4, <1>5, <1>6, <1>7, <1>8, <1>9, <1>10, StepKinds

LEMMA VotesStep ==
    ASSUME TypeOK, Placed, Alone, NotYet, OneRowEach, Next
    PROVE  NotYet' /\ OneRowEach'
  <1> SUFFICES ASSUME ~ overlap
               PROVE  /\ \A q \in Procs : pc'[q] = "insertVote" => RowsOf(run[q].by)' = {}
                      /\ \A i, j \in DOMAIN votes' : votes'[i].by = votes'[j].by => i = j
    BY StepKinds DEF setting, NotYet, OneRowEach
  <1>n. /\ \A q \in Procs : pc[q] = "insertVote" => RowsOf(run[q].by) = {}
        /\ \A i, j \in DOMAIN votes : votes[i].by = votes[j].by => i = j
    BY DEF NotYet, OneRowEach
  <1>1. ASSUME NEW p \in Procs, NEW l, Moves(p, l), Free(p) \/ Busy(p), votes' = votes,
               l = "insertVote" => RowsOf(run[p].by)' = {}
        PROVE  /\ \A q \in Procs : pc'[q] = "insertVote" => RowsOf(run[q].by)' = {}
               /\ \A i, j \in DOMAIN votes' : votes'[i].by = votes'[j].by => i = j
    BY <1>1, <1>n, OthersIdle DEF Moves
  <1>2. CASE Same /\ pc' = pc /\ run' = run
    BY <1>2, <1>n DEF Same, RowsOf
  <1>3. ASSUME NEW p \in Procs, Passes(p)
        PROVE  /\ \A q \in Procs : pc'[q] = "insertVote" => RowsOf(run[q].by)' = {}
               /\ \A i, j \in DOMAIN votes' : votes'[i].by = votes'[j].by => i = j
    BY <1>1, <1>3 DEF Passes, Same, Aside
  <1>4. ASSUME NEW p \in Procs, selectArbitrators(p)
        PROVE  /\ \A q \in Procs : pc'[q] = "insertVote" => RowsOf(run[q].by)' = {}
               /\ \A i, j \in DOMAIN votes' : votes'[i].by = votes'[j].by => i = j
    BY <1>1, <1>4, selectArbitratorsEffect DEF Same
  <1>5. ASSUME NEW p \in Procs, assignArbitratorToDispute(p)
        PROVE  /\ \A q \in Procs : pc'[q] = "insertVote" => RowsOf(run[q].by)' = {}
               /\ \A i, j \in DOMAIN votes' : votes'[i].by = votes'[j].by => i = j
    BY <1>1, <1>5, assignEffect DEF Busy
  <1>6. ASSUME NEW p \in Procs, NEW a \in Arbitrators, NEW c \in Decisions,
               submitVote(p, a, c)
        PROVE  /\ \A q \in Procs : pc'[q] = "insertVote" => RowsOf(run[q].by)' = {}
               /\ \A i, j \in DOMAIN votes' : votes'[i].by = votes'[j].by => i = j
    BY <1>1, <1>6, submitVoteEffect DEF Same
  <1>7. ASSUME NEW p \in Procs, findExistingVote(p)
        PROVE  /\ \A q \in Procs : pc'[q] = "insertVote" => RowsOf(run[q].by)' = {}
               /\ \A i, j \in DOMAIN votes' : votes'[i].by = votes'[j].by => i = j
    <2>1. CASE RowsOf(run[p].by) = {} /\ Moves(p, "insertVote") /\ run'[p] = run[p]
      <3>1. RowsOf(run[p].by)' = {}
        BY <1>7, <2>1, findExistingVoteEffect DEF Same, RowsOf
      <3> QED
        BY <1>1, <1>7, <2>1, <3>1, findExistingVoteEffect DEF Same, Busy
    <2>2. CASE Moves(p, "idle")
      BY <1>1, <1>7, <2>2, findExistingVoteEffect DEF Same, Busy
    <2> QED
      BY <1>7, <2>1, <2>2, findExistingVoteEffect
  <1>8. ASSUME NEW p \in Procs, insertVote(p)
        PROVE  /\ \A q \in Procs : pc'[q] = "insertVote" => RowsOf(run[q].by)' = {}
               /\ \A i, j \in DOMAIN votes' : votes'[i].by = votes'[j].by => i = j
    <2>1. PICK v \in Vote : v.by = run[p].by /\ votes' = Append(votes, v)
      BY <1>8, insertVoteEffect
    <2>2. \A i \in 1..Len(votes) : votes[i].by # v.by
      BY <1>8, <1>n, <2>1, insertVoteEffect DEF RowsOf
    <2>3. /\ DOMAIN votes' = 1..(Len(votes) + 1) /\ DOMAIN votes = 1..Len(votes)
          /\ Len(votes) \in Nat
          /\ \A i \in 1..Len(votes) : votes'[i] = votes[i]
          /\ votes'[Len(votes) + 1] = v
      BY <2>1 DEF TypeOK
    <2>4. \A i, j \in DOMAIN votes' : votes'[i].by = votes'[j].by => i = j
      BY <1>n, <2>2, <2>3
    <2>5. \A q \in Procs : pc'[q] = "idle"
      BY <1>8, insertVoteEffect, OthersIdle DEF Moves, Busy
    <2> QED
      BY <2>4, <2>5
  <1>9. ASSUME NEW p \in Procs, NEW a \in Arbitrators, commitVote(p, a)
        PROVE  /\ \A q \in Procs : pc'[q] = "insertVote" => RowsOf(run[q].by)' = {}
               /\ \A i, j \in DOMAIN votes' : votes'[i].by = votes'[j].by => i = j
    BY <1>1, <1>9, commitVoteEffect DEF Same
  <1>10. ASSUME NEW p \in Procs, saveVote(p)
         PROVE  /\ \A q \in Procs : pc'[q] = "insertVote" => RowsOf(run[q].by)' = {}
                /\ \A i, j \in DOMAIN votes' : votes'[i].by = votes'[j].by => i = j
    <2>1. DOMAIN votes' = DOMAIN votes /\ DOMAIN votes = 1..Len(votes)
      BY <1>10, saveVoteEffect DEF TypeOK
    <2>2. \A i, j \in DOMAIN votes' : votes'[i].by = votes'[j].by => i = j
      BY <1>10, <1>n, <2>1, saveVoteEffect
    <2>3. \A q \in Procs : pc'[q] # "insertVote"
      BY <1>10, saveVoteEffect, OthersIdle DEF Moves, Busy
    <2> QED
      BY <2>2, <2>3
  <1> QED
    BY <1>2, <1>3, <1>4, <1>5, <1>6, <1>7, <1>8, <1>9, <1>10, StepKinds

LEMMA RoomStep ==
    ASSUME TypeOK, Placed, Alone, Room, WithinCapacity, Next
    PROVE  Room' /\ WithinCapacity'
  <1> SUFFICES ASSUME ~ overlap, required = 1
               PROVE  /\ \A q \in Procs : pc'[q] = "assign" =>
                            /\ Len(run'[q].chosen) = 1
                            /\ activeCases'[Head(run'[q].chosen)] < maxCases
                      /\ \A a \in Arbitrators : activeCases'[a] <= maxCases
    BY StepKinds DEF setting, Room, WithinCapacity
  <1>n. /\ \A q \in Procs : pc[q] = "assign" => /\ Len(run[q].chosen) = 1
                                                /\ activeCases[Head(run[q].chosen)] < maxCases
        /\ \A a \in Arbitrators : activeCases[a] <= maxCases
    BY DEF Room, WithinCapacity
  <1> DEFINE Goal == /\ \A q \in Procs : pc'[q] = "assign" =>
                           /\ Len(run'[q].chosen) = 1
                           /\ activeCases'[Head(run'[q].chosen)] < maxCases
                     /\ \A a \in Arbitrators : activeCases'[a] <= maxCases
  <1>1. ASSUME NEW p \in Procs, NEW l, Moves(p, l), Free(p) \/ Busy(p), l # "assign",
               activeCases' = activeCases
        PROVE  Goal
    BY <1>1, <1>n, OthersIdle DEF Moves
  <1>2. CASE Same /\ pc' = pc /\ run' = run
    BY <1>2, <1>n DEF Same
  <1>3. ASSUME NEW p \in Procs, Passes(p)
        PROVE  Goal
    BY <1>1, <1>3 DEF Passes, Same, Aside
  <1>4. ASSUME NEW p \in Procs, selectArbitrators(p)
        PROVE  Goal
    <2>1. PICK s \in Candidates : /\ Moves(p, IF s = <<>> THEN "readDispute" ELSE "assign")
                                  /\ run'[p].chosen = s
      BY <1>4, selectArbitratorsEffect
    <2>2. activeCases' = activeCases /\ Busy(p)
      BY <1>4, selectArbitratorsEffect DEF Same
    <2>3. CASE s = <<>>
      BY <1>1, <2>1, <2>2, <2>3
    <2>4. CASE s # <<>>
      <3>1. Len(s) = 1 /\ activeCases[Head(s)] < maxCases
        BY <2>4, CandidatesType
      <3> QED
        BY <1>n, <2>1, <2>2, <2>4, <3>1, OthersIdle
    <2> QED
      BY <2>3, <2>4
  <1>5. ASSUME NEW p \in Procs, assignArbitratorToDispute(p)
        PROVE  Goal
    <2>1. PICK h \in Arbitrators : h = Head(run[p].chosen)
      BY <1>5, assignEffect
    <2>2. Len(run[p].chosen) = 1 /\ activeCases[h] < maxCases
      BY <1>5, <1>n, <2>1, assignEffect
    <2>3. Moves(p, "readDispute") /\ Busy(p)
      BY <1>5, <2>2, assignEffect DEF Busy
    <2>4. \A q \in Procs : pc'[q] # "assign"
      BY <2>3, OthersIdle DEF Moves
    <2>5. \A a \in Arbitrators :
              /\ activeCases'[a] = IF a = h THEN activeCases[a] + 1 ELSE activeCases[a]
              /\ activeCases[a] \in Nat
      BY <1>5, <2>1, assignEffect DEF TypeOK
    <2>6. \A a \in Arbitrators : activeCases'[a] <= maxCases
      BY <1>n, <2>2, <2>5, ConstantsAssumption
    <2> QED
      BY <2>4, <2>6
  <1>6. ASSUME NEW p \in Procs, NEW a \in Arbitrators, NEW c \in Decisions,
               submitVote(p, a, c)
        PROVE  Goal
    BY <1>1, <1>6, submitVoteEffect DEF Same
  <1>7. ASSUME NEW p \in Procs, findExistingVote(p)
        PROVE  Goal
    BY <1>1, <1>7, findExistingVoteEffect DEF Same, Busy
  <1>8. ASSUME NEW p \in Procs, insertVote(p)
        PROVE  Goal
    BY <1>1, <1>8, insertVoteEffect DEF Busy
  <1>9. ASSUME NEW p \in Procs, NEW a \in Arbitrators, commitVote(p, a)
        PROVE  Goal
    BY <1>1, <1>9, commitVoteEffect DEF Same
  <1>10. ASSUME NEW p \in Procs, saveVote(p)
         PROVE  Goal
    BY <1>1, <1>10, saveVoteEffect DEF Busy
  <1> QED
    BY <1>2, <1>3, <1>4, <1>5, <1>6, <1>7, <1>8, <1>9, <1>10, StepKinds
-----------------------------------------------------------------------------
(* The invariant holds initially and at every step.                        *)

LEMMA InitInv ==
    ASSUME Init
    PROVE  IInv
  <1>1. TypeOK
    BY NoRunIsRun DEF Init, TypeOK, Labels
  <1>2. Placed /\ Alone /\ NotYet /\ Room
    BY DEF Init, Placed, Alone, NotYet, Room
  <1>3. OneRowEach /\ WithinCapacity
    BY ConstantsAssumption DEF Init, OneRowEach, WithinCapacity
  <1> QED
    BY <1>1, <1>2, <1>3 DEF IInv

LEMMA NextInv ==
    ASSUME IInv, [Next]_vars
    PROVE  IInv'
  <1>1. CASE Next
    BY <1>1, TypeStep, PlacedStep, AloneStep, VotesStep, RoomStep DEF IInv
  <1>2. CASE UNCHANGED vars
    BY <1>2
    DEF IInv, vars, setting, TypeOK, Placed, Alone, NotYet, RowsOf, Room,
        OneRowEach,
                WithinCapacity
  <1> QED
    BY <1>1, <1>2

(* The invariant, whether handlers overlap or not.                         *)
THEOREM Invariance == Spec => []IInv
  <1>1. Init => IInv
    BY InitInv
  <1>2. IInv /\ [Next]_vars => IInv'
    BY NextInv
  <1> QED
    BY <1>1, <1>2, PTL DEF Spec

(* submitVote refuses the second vote of an arbitrator, of any number of   *)
(* arbitrators, when handlers do not overlap; and calculateVoteWeight      *)
(* stays between 0.1 and 2 whatever the success rates and tiers.           *)
THEOREM VotesAreSingle == Spec => []OneVoteEach
  <1>1. IInv => OneVoteEach
    <2> SUFFICES ASSUME IInv
                 PROVE  /\ ~overlap => \A a \in Arbitrators : Cardinality(RowsOf(a)) <= 1
                        /\ \A i \in DOMAIN votes : votes[i].weight \in 10..200
      BY DEF OneVoteEach
    <2>1. ASSUME ~ overlap, NEW a \in Arbitrators
          PROVE  Cardinality(RowsOf(a)) <= 1
      <3>1. \A i, j \in RowsOf(a) : i = j
        BY <2>1 DEF IInv, TypeOK, OneRowEach, RowsOf
      <3>2. CASE RowsOf(a) = {}
        <4>1. Cardinality(RowsOf(a)) = 0
          BY <3>2, FS_EmptySet
        <4> QED
          BY <4>1
      <3>3. CASE RowsOf(a) # {}
        <4>1. PICK i : i \in RowsOf(a)
          BY <3>3
        <4>2. RowsOf(a) = {i}
          BY <3>1, <4>1
        <4>3. Cardinality(RowsOf(a)) = 1
          BY <4>2, FS_Singleton
        <4> QED
          BY <4>3
      <3> QED
        BY <3>2, <3>3
    <2>2. ASSUME NEW i \in DOMAIN votes
          PROVE  votes[i].weight \in 10..200
      <3>1. votes \in Seq(Vote)
        BY DEF IInv, TypeOK
      <3>2. votes[i] \in Vote
        BY <3>1
      <3> QED
        BY <3>2 DEF Vote
    <2> QED
      BY <2>1, <2>2
  <1> QED
    BY <1>1, Invariance, PTL

(* getAvailableArbitrators leaves out who has maxCases already, and what   *)
(* it found still holds when assignArbitratorToDispute adds the case: when *)
(* one arbitrator is asked for and handlers do not overlap.                *)
THEOREM CasesAreWithinCapacity == Spec => []WithinCapacity
  <1>1. IInv => WithinCapacity
    BY DEF IInv
  <1> QED
    BY <1>1, Invariance, PTL
=============================================================================
