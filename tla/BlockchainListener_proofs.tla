----------------------- MODULE BlockchainListener_proofs -----------------------
(***************************************************************************)
(* Theorems about BlockchainListener for any events, size of a batch and   *)
(* number of syncs in flight, with and without failing calls and crashes.  *)
(***************************************************************************)
EXTENDS BlockchainListener, TLAPS, FiniteSetTheorems, WellFoundedInduction

-----------------------------------------------------------------------------
(* The inductive invariant, in named parts.                                *)

Labels == {"idle", "starting", "head", "plan", "fetch", "events", "insert"}
Sync == [latest : Nat, from : Nat, to : Nat, todo : SUBSET Events]

TypeOK == /\ overlap \in BOOLEAN
          /\ reliable \in BOOLEAN
          /\ head \in Nat
          /\ isListening \in BOOLEAN
          /\ last \in Nat
          /\ isText \in BOOLEAN
          /\ pc \in [Syncs -> Labels]
          /\ sync \in [Syncs -> Sync]
          /\ rows \in [Events -> Nat]
          /\ processed \subseteq Events
          /\ resumed \in BOOLEAN

(* A sync at an insert has an event to insert.                             *)
HasEvent == \A s \in Syncs : pc[s] = "insert" => sync[s].todo # {}

(* Nothing is fetched, stored or processed before it is on the chain.      *)
OnChain == /\ \A s \in Syncs : /\ sync[s].latest <= head
                               /\ sync[s].to <= head
                               /\ \A e \in sync[s].todo : e <= head
           /\ \A e \in Events : rows[e] > 0 => e <= head
           /\ \A e \in processed : e <= head

(* What is not passed over.                                                *)
Kept(e) == rows[e] > 0 \/ e \in dropped
Covered(b) == \A e \in Events : e <= b => Kept(e)

(* A sync starts where everything before is kept, and keeps what it has    *)
(* fetched or has it still to store.                                       *)
Planned(s) == pc[s] \in {"fetch", "events", "insert"} => Covered(sync[s].from - 1)
Stored(s) == pc[s] \in {"events", "insert"} =>
                 \A e \in InRange(s) : e \in sync[s].todo \/ Kept(e)
Behind == ~resumed => /\ ~isText
                      /\ Covered(last)
                      /\ \A s \in Syncs : Planned(s) /\ Stored(s)

(* Without overlap one sync is in flight.                                  *)
Alone == ~overlap => \A s, t \in Syncs : pc[s] # "idle" /\ pc[t] # "idle" => s = t

(* The syncs that have found no row of an event and are about to insert    *)
(* one count as if they had.                                               *)
Inserts(s, e) == pc[s] = "insert" /\ NextEvent(s) = e
Inserting(e) == {s \in Syncs : Inserts(s, e)}
Limit == IF overlap THEN Cardinality(Syncs) ELSE 1
Counted == \A e \in Events : rows[e] + Cardinality(Inserting(e)) <= Limit

IInv == TypeOK /\ HasEvent /\ OnChain /\ Behind /\ Alone /\ Counted
-----------------------------------------------------------------------------
(* Least and greatest elements.                                            *)

(* A set of numbers that is not empty has a least element.                 *)
LEMMA LeastExists ==
    ASSUME NEW S \in SUBSET Nat, S # {}
    PROVE  \E i \in S : \A j \in S : i <= j
  <1>1. PICK i \in S : \A j \in S : ~ (<<j, i>> \in OpToRel(<, Nat))
    BY WFMin, NatLessThanWellFounded
  <1>2. ASSUME NEW j \in S
        PROVE  i <= j
    <2>1. <<j, i>> \in Nat \X Nat
      OBVIOUS
    <2>2. j < i => <<j, i>> \in OpToRel(<, Nat)
      BY <2>1, Zenon DEF OpToRel
    <2>3. ~ (j < i)
      BY <1>1, <2>2, Zenon
    <2> QED
      BY <2>3
  <1> QED
    BY <1>2

(* What Min chooses.                                                       *)
LEMMA MinIsLeast ==
    ASSUME NEW S \in SUBSET Nat, S # {}
    PROVE  Min(S) \in S /\ \A j \in S : Min(S) <= j
  <1> DEFINE least(i) == \A j \in S : i <= j
  <1>1. \E i \in S : least(i)
    BY LeastExists
  <1>2. Min(S) = CHOOSE i \in S : least(i)
    BY DEF Min
  <1> HIDE DEF least
  <1>3. Min(S) \in S /\ least(Min(S))
    BY <1>1, <1>2, Zenon
  <1> QED
    BY <1>3 DEF least

(* What Max chooses of numbers up to n.                                    *)
LEMMA MaxIsGreatest ==
    ASSUME NEW n \in Nat, NEW S \in SUBSET (0..n), S # {}
    PROVE  Max(S) \in S
  <1> DEFINE T == {n - i : i \in S}
             greatest(i) == \A j \in S : i >= j
  <1>1. T # {} /\ T \in SUBSET Nat
    <2>1. \A i \in S : n - i \in Nat
      OBVIOUS
    <2> QED
      BY <2>1, Zenon
  <1>2. PICK t \in T : \A u \in T : t <= u
    BY <1>1, LeastExists
  <1>3. PICK i \in S : t = n - i
    BY <1>2
  <1>4. ASSUME NEW j \in S
        PROVE  i >= j
    <2>1. n - j \in T
      OBVIOUS
    <2> QED
      BY <1>2, <1>3, <2>1
  <1>5. \E k \in S : greatest(k)
    BY <1>4
  <1>6. Max(S) = CHOOSE k \in S : greatest(k)
    BY DEF Max
  <1> HIDE DEF greatest
  <1> QED
    BY <1>5, <1>6, Zenon

(* Events are in blocks with a positive number.                            *)
LEMMA EventNumbers ==
    /\ \A e \in Events : e \in Nat /\ e > 0
    /\ \A S \in SUBSET Events : S \in SUBSET Nat
  BY ConstantsAssumption

(* The next event of a sync is one of those it has still to store.         *)
LEMMA NextEventInTodo ==
    ASSUME TypeOK, NEW s \in Syncs, sync[s].todo # {}
    PROVE  /\ NextEvent(s) \in sync[s].todo
           /\ NextEvent(s) \in Events
  <1>1. sync[s].todo \subseteq Events
    BY DEF TypeOK, Sync
  <1>2. sync[s].todo \in SUBSET Nat
    BY <1>1, EventNumbers
  <1> QED
    BY <1>1, <1>2, MinIsLeast DEF NextEvent

(* The range a sync plans.                                                 *)
LEMMA RangeType ==
    ASSUME TypeOK
    PROVE  /\ fromBlock \in Nat
           /\ rangeEnd \in Nat
           /\ ~isText => fromBlock = last + 1
  <1> DEFINE S == {d \in {10, 100, 1000, 10000} : d > batchSize}
  <1>1. S \in SUBSET Nat /\ S # {}
    <2>1. 10000 > batchSize
      BY ConstantsAssumption
    <2>2. 10000 \in S
      BY <2>1
    <2> QED
      BY <2>2
  <1>2. shift \in S
    BY <1>1, MinIsLeast DEF shift
  <1>3. shift \in {10, 100, 1000, 10000}
    BY <1>2
  <1>4. fromBlock \in Nat /\ (~isText => fromBlock = last + 1)
    BY DEF TypeOK, fromBlock
  <1>5. fromBlock * shift \in Nat
    BY <1>3, <1>4
  <1>6. rangeEnd \in Nat
    BY <1>4, <1>5, ConstantsAssumption DEF TypeOK, rangeEnd
  <1> QED
    BY <1>4, <1>6
-----------------------------------------------------------------------------
(* What the parts of a step change.                                        *)

Same(t) == pc'[t] = pc[t] /\ sync'[t] = sync[t]

LEMMA GotoEffect ==
    ASSUME TypeOK, NEW s \in Syncs, NEW l \in Labels, Goto(s, l)
    PROVE  /\ pc' \in [Syncs -> Labels]
           /\ pc'[s] = l
           /\ \A t \in Syncs \ {s} : pc'[t] = pc[t]
  BY DEF TypeOK, Goto

LEMMA SyncType ==
    ASSUME TypeOK, NEW s \in Syncs
    PROVE  /\ sync[s] \in Sync
           /\ sync[s].latest \in Nat
           /\ sync[s].from \in Nat
           /\ sync[s].to \in Nat
           /\ sync[s].todo \subseteq Events
           /\ InRange(s) \subseteq Events
  BY DEF TypeOK, Sync, InRange

LEMMA EndEffect ==
    ASSUME TypeOK, NEW s \in Syncs, End(s)
    PROVE  /\ pc' \in [Syncs -> Labels]
           /\ sync' \in [Syncs -> Sync]
           /\ pc'[s] = "idle"
           /\ sync'[s] = NoSync
           /\ \A t \in Syncs \ {s} : Same(t)
  <1>1. NoSync \in Sync
    BY DEF NoSync, Sync
  <1>2. sync' \in [Syncs -> Sync] /\ sync'[s] = NoSync
    BY <1>1 DEF End, TypeOK
  <1>3. "idle" \in Labels /\ Goto(s, "idle")
    BY DEF End, Labels
  <1> QED
    BY <1>2, <1>3, GotoEffect DEF End, TypeOK, Same

LEMMA LatestEffect ==
    ASSUME TypeOK, NEW s \in Syncs, sync' = [sync EXCEPT ![s].latest = head]
    PROVE  /\ sync' \in [Syncs -> Sync]
           /\ sync'[s].latest = head
           /\ sync'[s].to = sync[s].to
           /\ sync'[s].todo = sync[s].todo
           /\ \A t \in Syncs \ {s} : sync'[t] = sync[t]
  BY DEF TypeOK, Sync

LEMMA TodoEffect ==
    ASSUME TypeOK, NEW s \in Syncs, NEW T \in SUBSET Events,
           sync' = [sync EXCEPT ![s].todo = T]
    PROVE  /\ sync' \in [Syncs -> Sync]
           /\ sync'[s].latest = sync[s].latest
           /\ sync'[s].from = sync[s].from
           /\ sync'[s].to = sync[s].to
           /\ sync'[s].todo = T
           /\ \A t \in Syncs \ {s} : sync'[t] = sync[t]
  BY DEF TypeOK, Sync

LEMMA HandledEffect ==
    ASSUME TypeOK, NEW s \in Syncs, Handled(s)
    PROVE  /\ sync' \in [Syncs -> Sync]
           /\ sync'[s].latest = sync[s].latest
           /\ sync'[s].from = sync[s].from
           /\ sync'[s].to = sync[s].to
           /\ sync'[s].todo = sync[s].todo \ {NextEvent(s)}
           /\ \A t \in Syncs \ {s} : sync'[t] = sync[t]
  <1> DEFINE T == sync[s].todo \ {NextEvent(s)}
  <1>1. T \in SUBSET Events
    BY SyncType
  <1>2. sync' = [sync EXCEPT ![s].todo = T]
    BY DEF Handled
  <1> HIDE DEF T
  <1>3. /\ sync' \in [Syncs -> Sync]
        /\ sync'[s].latest = sync[s].latest
        /\ sync'[s].from = sync[s].from
        /\ sync'[s].to = sync[s].to
        /\ sync'[s].todo = T
        /\ \A t \in Syncs \ {s} : sync'[t] = sync[t]
    BY <1>1, <1>2, TodoEffect
  <1> QED
    BY <1>3 DEF T

(* The end of the range that planRange sets.                               *)
LEMMA PlannedEnd ==
    ASSUME TypeOK, NEW s \in Syncs
    PROVE  /\ Min({rangeEnd, sync[s].latest}) \in Nat
           /\ Min({rangeEnd, sync[s].latest}) <= sync[s].latest
  <1>1. {rangeEnd, sync[s].latest} \in SUBSET Nat
    BY RangeType, SyncType
  <1> HIDE DEF rangeEnd
  <1> QED
    BY <1>1, MinIsLeast

LEMMA PlanEffect ==
    ASSUME TypeOK, NEW s \in Syncs, planRange(s), ~ (last >= sync[s].latest)
    PROVE  /\ sync' \in [Syncs -> Sync]
           /\ sync'[s].latest = sync[s].latest
           /\ sync'[s].from = fromBlock
           /\ sync'[s].to = Min({rangeEnd, sync[s].latest})
           /\ sync'[s].todo = sync[s].todo
           /\ \A t \in Syncs \ {s} : sync'[t] = sync[t]
           /\ Goto(s, "fetch")
  <1> DEFINE a == fromBlock
             b == Min({rangeEnd, sync[s].latest})
  <1>1. a \in Nat /\ b \in Nat
    BY RangeType, PlannedEnd
  <1>2. sync' = [sync EXCEPT ![s].from = a, ![s].to = b]
    BY DEF planRange
  <1>3. Goto(s, "fetch")
    BY DEF planRange
  <1> HIDE DEF a, b
  <1>4. /\ sync' \in [Syncs -> Sync]
        /\ sync'[s].latest = sync[s].latest
        /\ sync'[s].from = a
        /\ sync'[s].to = b
        /\ sync'[s].todo = sync[s].todo
        /\ \A t \in Syncs \ {s} : sync'[t] = sync[t]
    BY <1>1, <1>2 DEF TypeOK, Sync
  <1> QED
    BY <1>3, <1>4 DEF a, b

(* The block of the highest processed row.                                 *)
LEMMA ProcessedType ==
    ASSUME TypeOK, OnChain
    PROVE  Max({0} \cup processed) \in Nat
  <1> DEFINE S == {0} \cup processed
  <1>1. S # {} /\ head \in Nat
    BY DEF TypeOK
  <1>3. \A e \in S : e \in 0..head
    BY EventNumbers, <1>1 DEF TypeOK, OnChain
  <1> HIDE DEF S
  <1>4. S \in SUBSET (0..head)
    BY <1>3
  <1>2. Max(S) \in S
    BY <1>1, <1>4, MaxIsGreatest
  <1>5. Max(S) \in Nat
    BY <1>1, <1>2, <1>3
  <1> QED
    BY <1>5 DEF S
-----------------------------------------------------------------------------
(* Types, and what a step leaves alone.                                    *)

SyncStep(s) == startListening(s) \/ syncEvents(s) \/ Continue(s)

LEMMA OthersStand ==
    ASSUME TypeOK, NEW s \in Syncs, SyncStep(s), NEW t \in Syncs \ {s}
    PROVE  Same(t)
  <1>1. ASSUME NEW l \in Labels, Goto(s, l)
        PROVE  pc'[t] = pc[t]
    BY <1>1, GotoEffect
  <1>2. CASE startListening(s)
    BY <1>2, <1>1 DEF startListening, Labels, Same
  <1>3. CASE syncEvents(s)
    BY <1>3, <1>1 DEF syncEvents, Labels, Same
  <1>4. CASE getLastProcessedBlock(s)
    BY <1>4, <1>1 DEF getLastProcessedBlock, Labels, Same
  <1>5. CASE getBlockNumber(s)
    BY <1>5, <1>1, LatestEffect DEF getBlockNumber, Labels, Same
  <1>6. CASE planRange(s)
    <2>1. CASE last >= sync[s].latest
      BY <1>6, <2>1, EndEffect DEF planRange
    <2>2. CASE ~ (last >= sync[s].latest)
      BY <1>6, <2>2, <1>1, PlanEffect DEF Labels, Same
    <2> QED
      BY <2>1, <2>2
  <1>7. CASE getContractEvents(s)
    <2>1. InRange(s) \in SUBSET Events
      BY SyncType
    <2> QED
      BY <1>7, <1>1, <2>1, TodoEffect DEF getContractEvents, Labels, Same
  <1>8. CASE findDuplicate(s)
    BY <1>8, <1>1, HandledEffect DEF findDuplicate, Labels, Same
  <1>9. CASE insertEvent(s)
    BY <1>9, <1>1, HandledEffect DEF insertEvent, Labels, Same
  <1>10. CASE storeFails(s)
    BY <1>10, <1>1, HandledEffect DEF storeFails, Labels, Same
  <1>11. CASE finishSync(s)
    BY <1>11, EndEffect DEF finishSync
  <1> QED
    BY <1>2, <1>3, <1>4, <1>5, <1>6, <1>7, <1>8, <1>9, <1>10, <1>11
    DEF SyncStep, Continue

LEMMA CrashEffect ==
    ASSUME crash
    PROVE  /\ pc' \in [Syncs -> Labels]
           /\ sync' \in [Syncs -> Sync]
           /\ \A t \in Syncs : pc'[t] = "idle" /\ sync'[t] = NoSync
  BY DEF crash, Labels, Sync, NoSync

(* The types of what a sync works with are kept.                           *)
LEMMA SyncTypeStep ==
    ASSUME TypeOK, NEW s \in Syncs, SyncStep(s)
    PROVE  pc' \in [Syncs -> Labels] /\ sync' \in [Syncs -> Sync]
  <1>1. ASSUME NEW l \in Labels, Goto(s, l)
        PROVE  pc' \in [Syncs -> Labels]
    BY <1>1, GotoEffect
  <1>t. pc \in [Syncs -> Labels] /\ sync \in [Syncs -> Sync]
    BY DEF TypeOK
  <1>2. CASE startListening(s)
    BY <1>2, <1>1, <1>t DEF startListening, Labels
  <1>3. CASE syncEvents(s)
    BY <1>3, <1>1, <1>t DEF syncEvents, Labels
  <1>4. CASE getLastProcessedBlock(s)
    BY <1>4, <1>1, <1>t DEF getLastProcessedBlock, Labels
  <1>5. CASE getBlockNumber(s)
    BY <1>5, <1>1, LatestEffect DEF getBlockNumber, Labels
  <1>6. CASE planRange(s)
    <2>1. CASE last >= sync[s].latest
      BY <1>6, <2>1, EndEffect DEF planRange
    <2>2. CASE ~ (last >= sync[s].latest)
      BY <1>6, <2>2, <1>1, PlanEffect DEF Labels
    <2> QED
      BY <2>1, <2>2
  <1>7. CASE getContractEvents(s)
    <2>1. InRange(s) \in SUBSET Events
      BY SyncType
    <2> QED
      BY <1>7, <1>1, <1>t, <2>1, TodoEffect DEF getContractEvents, Labels
  <1>8. CASE findDuplicate(s)
    BY <1>8, <1>1, <1>t, HandledEffect DEF findDuplicate, Labels
  <1>9. CASE insertEvent(s)
    BY <1>9, <1>1, HandledEffect DEF insertEvent, Labels
  <1>10. CASE storeFails(s)
    BY <1>10, <1>1, HandledEffect DEF storeFails, Labels
  <1>11. CASE finishSync(s)
    BY <1>11, EndEffect DEF finishSync
  <1> QED
    BY <1>2, <1>3, <1>4, <1>5, <1>6, <1>7, <1>8, <1>9, <1>10, <1>11
    DEF SyncStep, Continue

(* Rows change by an insert of an event that the sync has still to store.  *)
LEMMA RowsChange ==
    ASSUME TypeOK, HasEvent, Next
    PROVE  \/ rows' = rows /\ (\A s \in Syncs : ~ insertEvent(s))
           \/ \E s \in Syncs : /\ insertEvent(s)
                             /\ NextEvent(s) \in sync[s].todo
                             /\ NextEvent(s) \in Events
                             /\ rows' = [rows EXCEPT ![NextEvent(s)] = @ + 1]
  <1>1. CASE \E s \in Syncs : insertEvent(s)
    <2>1. PICK s \in Syncs : insertEvent(s)
      BY <1>1
    <2>2. sync[s].todo # {}
      BY <2>1 DEF insertEvent, HasEvent
    <2>3. NextEvent(s) \in sync[s].todo /\ NextEvent(s) \in Events
      BY <2>2, NextEventInTodo
    <2> QED
      BY <2>1, <2>3 DEF insertEvent
  <1>2. CASE \A s \in Syncs : ~ insertEvent(s)
    BY <1>2
    DEF Next, NewBlock, stopListening, crash, startListening, syncEvents, Continue,
        getLastProcessedBlock, getBlockNumber, planRange, getContractEvents,
        findDuplicate, storeFails, finishSync, markAsProcessed, store
  <1> QED
    BY <1>1, <1>2

(* What is kept stays.                                                     *)
LEMMA KeptStays ==
    ASSUME TypeOK, HasEvent, Next
    PROVE  \A e \in Events : Kept(e) => Kept(e)'
  <1>1. \A e \in Events : rows[e] > 0 => rows'[e] > 0
    <2>1. CASE rows' = rows
      BY <2>1
    <2>2. ASSUME NEW f \in Events, rows' = [rows EXCEPT ![f] = @ + 1]
          PROVE  \A e \in Events : rows[e] > 0 => rows'[e] > 0
      BY <2>2 DEF TypeOK
    <2> QED
      BY <2>1, <2>2, RowsChange
  <1>2. dropped \subseteq dropped'
    BY DEF Next, NewBlock, stopListening, crash, startListening, syncEvents, Continue,
        getLastProcessedBlock, getBlockNumber, planRange, getContractEvents,
        findDuplicate, insertEvent, storeFails, finishSync, markAsProcessed, history
  <1> QED
    BY <1>1, <1>2 DEF Kept

LEMMA SettingStands ==
    ASSUME Next
    PROVE  setting' = setting
  BY DEF Next, NewBlock, stopListening, crash, startListening, syncEvents, Continue,
      getLastProcessedBlock, getBlockNumber, planRange, getContractEvents,
      findDuplicate, insertEvent, storeFails, finishSync, markAsProcessed

LEMMA TypeStep ==
    ASSUME TypeOK, HasEvent, OnChain, Next
    PROVE  TypeOK'
  <1>1. pc' \in [Syncs -> Labels] /\ sync' \in [Syncs -> Sync]
    <2>1. CASE crash
      BY <2>1, CrashEffect
    <2>2. ASSUME NEW s \in Syncs, SyncStep(s)
          PROVE  pc' \in [Syncs -> Labels] /\ sync' \in [Syncs -> Sync]
      BY <2>2, SyncTypeStep
    <2>3. CASE \/ NewBlock \/ stopListening
              \/ \E e \in Events : markAsProcessed(e)
      BY <2>3 DEF NewBlock, stopListening, markAsProcessed, memory, TypeOK
    <2> QED
      BY <2>1, <2>2, <2>3 DEF Next, SyncStep
  <1>2. rows' \in [Events -> Nat]
    <2>1. CASE rows' = rows
      BY <2>1 DEF TypeOK
    <2>2. ASSUME NEW f \in Events, rows' = [rows EXCEPT ![f] = @ + 1]
          PROVE  rows' \in [Events -> Nat]
      BY <2>2 DEF TypeOK
    <2> QED
      BY <2>1, <2>2, RowsChange
  <1>3. last' \in Nat
    <2> DEFINE m == Max({0} \cup processed)
    <2>1. m \in Nat /\ last \in Nat
      BY ProcessedType DEF TypeOK
    <2> HIDE DEF m
    <2>2. CASE NewBlock \/ stopListening \/ crash \/ \E e \in Events : markAsProcessed(e)
      BY <2>1, <2>2 DEF NewBlock, stopListening, crash, markAsProcessed, memory
    <2>3. ASSUME NEW s \in Syncs, SyncStep(s)
          PROVE  last' \in Nat
      <3>1. CASE startListening(s) \/ syncEvents(s) \/ getBlockNumber(s) \/ planRange(s)
        BY <2>1, <3>1 DEF startListening, syncEvents, getBlockNumber, planRange
      <3>2. CASE getContractEvents(s) \/ findDuplicate(s) \/ insertEvent(s) \/ storeFails(s)
        BY <2>1, <3>2 DEF getContractEvents, findDuplicate, insertEvent, storeFails
      <3>3. CASE getLastProcessedBlock(s)
        BY <2>1, <3>3 DEF getLastProcessedBlock, m
      <3>4. CASE finishSync(s)
        BY <3>4, SyncType DEF finishSync
      <3> QED
        BY <2>3, <3>1, <3>2, <3>3, <3>4 DEF SyncStep, Continue
    <2> QED
      BY <2>2, <2>3 DEF Next, SyncStep
  <1>4. isText' \in BOOLEAN /\ resumed' \in BOOLEAN /\ isListening' \in BOOLEAN
    <2>1. isText' \in BOOLEAN
      BY DEF Next, NewBlock, stopListening, crash, startListening, syncEvents, Continue,
          getLastProcessedBlock, getBlockNumber, planRange, getContractEvents, history,
          findDuplicate, insertEvent, storeFails, finishSync, markAsProcessed, memory, TypeOK
    <2>2. resumed' \in BOOLEAN
      BY DEF Next, NewBlock, stopListening, crash, startListening, syncEvents, Continue,
          getLastProcessedBlock, getBlockNumber, planRange, getContractEvents, history,
          findDuplicate, insertEvent, storeFails, finishSync, markAsProcessed, memory, TypeOK
    <2>3. isListening' \in BOOLEAN
      BY DEF Next, NewBlock, stopListening, crash, startListening, syncEvents, Continue,
          getLastProcessedBlock, getBlockNumber, planRange, getContractEvents, history,
          findDuplicate, insertEvent, storeFails, finishSync, markAsProcessed, memory, TypeOK
    <2> QED
      BY <2>1, <2>2, <2>3
  <1>5. setting' = setting
    BY SettingStands
  <1>h. head' \in Nat
    <2>1. head' = head \/ head' = head + 1
      BY DEF Next, NewBlock, stopListening, crash, startListening, syncEvents, Continue,
          getLastProcessedBlock, getBlockNumber, planRange, getContractEvents,
          findDuplicate, insertEvent, storeFails, finishSync, markAsProcessed
    <2> QED
      BY <2>1 DEF TypeOK
  <1>6. processed' \subseteq Events
    BY DEF Next, NewBlock, stopListening, crash, startListening, syncEvents, Continue,
        getLastProcessedBlock, getBlockNumber, planRange, getContractEvents, store,
        findDuplicate, insertEvent, storeFails, finishSync, markAsProcessed, TypeOK
  <1>7. overlap' \in BOOLEAN /\ reliable' \in BOOLEAN
    BY <1>5 DEF TypeOK, setting
  <1> QED
    BY <1>1, <1>2, <1>3, <1>4, <1>6, <1>7, <1>h DEF TypeOK
-----------------------------------------------------------------------------
(* The parts of the invariant, one after the other.                        *)

LEMMA HasEventStep ==
    ASSUME TypeOK, HasEvent, Next
    PROVE  HasEvent'
  <1> SUFFICES ASSUME NEW t \in Syncs, pc'[t] = "insert"
               PROVE  sync'[t].todo # {}
    BY DEF HasEvent
  <1>1. CASE Same(t)
    BY <1>1 DEF Same, HasEvent
  <1>2. CASE crash
    BY <1>2, CrashEffect
  <1>3. CASE SyncStep(t)
    <2>1. ASSUME NEW l \in Labels, Goto(t, l)
          PROVE  pc'[t] = l
      BY <2>1, GotoEffect
    <2>2. CASE findDuplicate(t)
      <3>1. CASE rows[NextEvent(t)] > 0
        BY <2>2, <3>1 DEF findDuplicate
      <3>2. CASE ~ (rows[NextEvent(t)] > 0)
        BY <2>2, <3>2 DEF findDuplicate
      <3> QED
        BY <3>1, <3>2
    <2>3. CASE planRange(t)
      BY <2>1, <2>3, EndEffect DEF planRange, Labels
    <2>4. CASE startListening(t) \/ syncEvents(t) \/ getLastProcessedBlock(t) \/ getBlockNumber(t)
      BY <2>1, <2>4
      DEF startListening, syncEvents, getLastProcessedBlock, getBlockNumber, Labels
    <2>5. CASE getContractEvents(t) \/ insertEvent(t) \/ storeFails(t)
      BY <2>1, <2>5 DEF getContractEvents, insertEvent, storeFails, Labels
    <2>6. CASE finishSync(t)
      BY <2>6, EndEffect DEF finishSync
    <2> QED
      BY <1>3, <2>2, <2>3, <2>4, <2>5, <2>6 DEF SyncStep, Continue
  <1> QED
    BY <1>1, <1>2, <1>3, OthersStand
    DEF Next, SyncStep, NewBlock, stopListening, markAsProcessed, memory, Same

LEMMA OnChainStep ==
    ASSUME TypeOK, HasEvent, OnChain, Next
    PROVE  OnChain'
  <1>1. head \in Nat /\ head' \in Nat /\ head <= head'
    <2>1. head' = head \/ head' = head + 1
      BY DEF Next, NewBlock, stopListening, crash, startListening, syncEvents, Continue,
          getLastProcessedBlock, getBlockNumber, planRange, getContractEvents,
          findDuplicate, insertEvent, storeFails, finishSync, markAsProcessed
    <2> QED
      BY <2>1 DEF TypeOK
  <1>2. ASSUME NEW t \in Syncs
        PROVE  /\ sync'[t].latest <= head'
               /\ sync'[t].to <= head'
               /\ \A e \in sync'[t].todo : e <= head'
    <2> DEFINE Within == /\ sync'[t].latest <= head
                         /\ sync'[t].to <= head
                         /\ \A e \in sync'[t].todo : e <= head
    <2>2. CASE crash
      BY <2>2, <1>1, CrashEffect DEF NoSync
    <2>3. ASSUME SyncStep(t)
          PROVE  Within
      <3>1. CASE startListening(t) \/ syncEvents(t) \/ getLastProcessedBlock(t)
        BY <3>1 DEF startListening, syncEvents, getLastProcessedBlock, OnChain
      <3>2. CASE getBlockNumber(t)
        BY <3>2, <1>1, LatestEffect DEF getBlockNumber, OnChain
      <3>3. CASE planRange(t)
        <4>1. CASE last >= sync[t].latest
          BY <3>3, <4>1, <1>1, EndEffect DEF planRange, NoSync
        <4>2. CASE ~ (last >= sync[t].latest)
          <5> DEFINE b == Min({rangeEnd, sync[t].latest})
          <5>1. b \in Nat /\ b <= sync[t].latest
            BY PlannedEnd
          <5>3. /\ sync'[t].latest = sync[t].latest
                /\ sync'[t].to = b
                /\ sync'[t].todo = sync[t].todo
            BY <3>3, <4>2, PlanEffect
          <5> HIDE DEF b
          <5>4. b <= head
            BY <5>1, <1>1, SyncType DEF OnChain
          <5> QED
            BY <5>3, <5>4 DEF OnChain
        <4> QED
          BY <4>1, <4>2
      <3>4. CASE getContractEvents(t)
        <4>1. CASE sync' = sync
          BY <4>1 DEF OnChain
        <4>2. CASE sync' = [sync EXCEPT ![t].todo = InRange(t)]
          <5>1. /\ sync'[t].latest = sync[t].latest
                /\ sync'[t].to = sync[t].to
                /\ sync'[t].todo = InRange(t)
            BY <4>2, SyncType, TodoEffect
          <5>2. \A e \in InRange(t) : e <= sync[t].to /\ e \in Nat
            BY EventNumbers, SyncType DEF InRange
          <5>3. sync[t].to \in Nat /\ sync[t].to <= head
            BY SyncType DEF OnChain
          <5>4. \A e \in InRange(t) : e <= head
            BY <5>2, <5>3, <1>1
          <5> QED
            BY <5>1, <5>4 DEF OnChain
        <4> QED
          BY <3>4, <4>1, <4>2 DEF getContractEvents
      <3>5. CASE Handled(t)
        BY <3>5, HandledEffect DEF OnChain
      <3>6. CASE findDuplicate(t) /\ ~ Handled(t)
        BY <3>6 DEF findDuplicate, OnChain
      <3>7. CASE finishSync(t)
        BY <3>7, <1>1, EndEffect DEF finishSync, NoSync
      <3> QED
        BY <2>3, <3>1, <3>2, <3>3, <3>4, <3>5, <3>6, <3>7
        DEF SyncStep, Continue, insertEvent, storeFails
    <2>4. ASSUME Same(t)
          PROVE  Within
      BY <2>4 DEF Same, OnChain
    <2>5. CASE Within
      <3>1. /\ sync'[t].latest \in Nat /\ sync'[t].to \in Nat
            /\ \A e \in sync'[t].todo : e \in Nat
        <4>1. sync'[t] \in Sync
          BY TypeStep DEF TypeOK
        <4> QED
          BY <4>1, EventNumbers DEF Sync
      <3> QED
        BY <2>5, <3>1, <1>1
    <2> QED
      BY <2>2, <2>3, <2>4, <2>5, OthersStand
      DEF Next, SyncStep, NewBlock, stopListening, markAsProcessed, memory, Same
  <1>3. ASSUME NEW e \in Events, rows'[e] > 0
        PROVE  e <= head'
    <2>1. e <= head
      <3>1. CASE rows' = rows
        BY <1>3, <3>1 DEF OnChain
      <3>2. ASSUME NEW s \in Syncs, NextEvent(s) \in sync[s].todo, NextEvent(s) \in Events,
                   rows' = [rows EXCEPT ![NextEvent(s)] = @ + 1]
            PROVE  e <= head
        <4>1. CASE e = NextEvent(s)
          BY <3>2, <4>1 DEF OnChain
        <4>2. CASE e # NextEvent(s)
          BY <1>3, <3>2, <4>2 DEF OnChain, TypeOK
        <4> QED
          BY <4>1, <4>2
      <3> QED
        BY <3>1, <3>2, RowsChange
    <2> QED
      BY <2>1, <1>1, EventNumbers
  <1>4. ASSUME NEW e \in processed'
        PROVE  e <= head'
    <2>1. e \in processed \/ (e \in Events /\ rows[e] > 0)
      BY <1>4
      DEF Next, NewBlock, stopListening, crash, startListening, syncEvents, Continue, store,
          getLastProcessedBlock, getBlockNumber, planRange, getContractEvents,
          findDuplicate, insertEvent, storeFails, finishSync, markAsProcessed
    <2>2. e <= head /\ e \in Nat
      BY <2>1, EventNumbers DEF OnChain, TypeOK
    <2> QED
      BY <2>2, <1>1
  <1> QED
    BY <1>2, <1>3, <1>4 DEF OnChain

LEMMA AloneStep ==
    ASSUME TypeOK, Alone, Next
    PROVE  Alone'
  <1> SUFFICES ASSUME ~ overlap, NEW u \in Syncs, NEW v \in Syncs,
                      pc'[u] # "idle", pc'[v] # "idle"
               PROVE  u = v
    BY SettingStands DEF Alone, setting
  <1>1. CASE crash
    BY <1>1, CrashEffect
  <1>2. CASE pc' = pc
    BY <1>2 DEF Alone
  <1>3. ASSUME NEW s \in Syncs, SyncStep(s)
        PROVE  u = v
    <2>1. \A t \in Syncs \ {s} : pc[t] = "idle"
      <3>1. CASE startListening(s) \/ syncEvents(s)
        BY <3>1 DEF startListening, syncEvents, MayStart
      <3>2. CASE Continue(s)
        <4>1. pc[s] # "idle"
          BY <3>2 DEF Continue, getLastProcessedBlock, getBlockNumber, planRange,
             getContractEvents, findDuplicate, insertEvent, storeFails, finishSync
        <4> QED
          BY <4>1 DEF Alone
      <3> QED
        BY <1>3, <3>1, <3>2 DEF SyncStep
    <2>2. \A t \in Syncs \ {s} : pc'[t] = "idle"
      BY <1>3, <2>1, OthersStand DEF Same
    <2> QED
      BY <2>2
  <1> QED
    BY <1>1, <1>2, <1>3
    DEF Next, SyncStep, NewBlock, stopListening, markAsProcessed, memory

(* What was covered stays covered, and so does what a sync has stored.     *)
LEMMA CoveredStays ==
    ASSUME TypeOK, HasEvent, Next, NEW b, Covered(b)
    PROVE  \A e \in Events : e <= b => Kept(e)'
  BY KeptStays DEF Covered

(* A sync that has stored its range covers everything up to its end.       *)
LEMMA FinishedCovers ==
    ASSUME TypeOK, NEW s \in Syncs, pc[s] = "events", sync[s].todo = {},
           Planned(s), Stored(s)
    PROVE  Covered(sync[s].to)
  <1> SUFFICES ASSUME NEW e \in Events, e <= sync[s].to
               PROVE  Kept(e)
    BY DEF Covered
  <1>1. e \in Nat /\ sync[s].from \in Nat /\ sync[s].to \in Nat
    BY EventNumbers, SyncType
  <1>2. CASE e <= sync[s].from - 1
    BY <1>2 DEF Planned, Covered
  <1>3. CASE ~ (e <= sync[s].from - 1)
    <2>1. e \in InRange(s)
      BY <1>1, <1>3 DEF InRange
    <2> QED
      BY <2>1 DEF Stored
  <1> QED
    BY <1>2, <1>3

LEMMA BehindStep ==
    ASSUME TypeOK, HasEvent, OnChain, Behind, Next
    PROVE  Behind'
  <1> SUFFICES ASSUME ~ resumed'
               PROVE  /\ ~ isText'
                      /\ Covered(last)'
                      /\ \A s \in Syncs : Planned(s)' /\ Stored(s)'
    BY DEF Behind
  <1>1. ~ resumed
    BY DEF Next, NewBlock, stopListening, crash, startListening, syncEvents, Continue, history,
        getLastProcessedBlock, getBlockNumber, planRange, getContractEvents,
        findDuplicate, insertEvent, storeFails, finishSync, markAsProcessed
  <1>2. ~ isText /\ Covered(last) /\ \A s \in Syncs : Planned(s) /\ Stored(s)
    BY <1>1 DEF Behind
  <1>3. ~ isText' /\ Covered(last)'
    <2>1. CASE last' = last /\ isText' = isText
      BY <1>2, <2>1, CoveredStays DEF Covered
    <2>2. CASE last' = 0 /\ isText' = FALSE
      BY <2>2, EventNumbers DEF Covered
    <2>3. ASSUME NEW s \in Syncs, getLastProcessedBlock(s)
          PROVE  last' = 0 /\ isText' = FALSE
      <3>1. processed = {}
        BY <2>3 DEF getLastProcessedBlock
      <3>2. {0} \in SUBSET Nat /\ {0} # {} /\ {0} \cup processed = {0}
        BY <3>1
      <3>3. Max({0}) \in {0}
        BY MaxIsGreatest
      <3> QED
        BY <2>3, <3>1, <3>2, <3>3 DEF getLastProcessedBlock
    <2>4. ASSUME NEW s \in Syncs, finishSync(s)
          PROVE  ~ isText' /\ Covered(last)'
      <3>1. Covered(sync[s].to)
        BY <2>4, <1>2, FinishedCovers DEF finishSync
      <3>2. last' = sync[s].to /\ ~ isText'
        BY <2>4 DEF finishSync
      <3> QED
        BY <3>1, <3>2, CoveredStays DEF Covered
    <2>5. \/ last' = last /\ isText' = isText
          \/ last' = 0 /\ isText' = FALSE
          \/ \E s \in Syncs : getLastProcessedBlock(s) \/ finishSync(s)
      BY DEF Next, NewBlock, stopListening, crash, startListening, syncEvents, Continue,
          getBlockNumber, planRange, getContractEvents, memory,
          findDuplicate, insertEvent, storeFails, markAsProcessed
    <2> QED
      BY <2>1, <2>2, <2>3, <2>4, <2>5
  <1>4. ASSUME NEW t \in Syncs
        PROVE  Planned(t)' /\ Stored(t)'
    <2> USE <1>2
    <2>1. ASSUME pc[t] \in {"fetch", "events", "insert"}, sync'[t].from = sync[t].from
          PROVE  Planned(t)'
      BY <2>1, CoveredStays DEF Planned, Covered
    <2>2. ASSUME pc[t] \in {"events", "insert"}, sync'[t].from = sync[t].from,
                 sync'[t].to = sync[t].to,
                 \A e \in sync[t].todo : e \in sync'[t].todo \/ Kept(e)'
          PROVE  Stored(t)'
      <3>1. InRange(t)' = InRange(t)
        BY <2>2 DEF InRange
      <3>2. \A e \in InRange(t) : e \in sync[t].todo \/ Kept(e)
        BY <2>2 DEF Stored
      <3>3. \A e \in InRange(t) : e \in sync[t].todo \/ Kept(e)'
        BY <3>2, KeptStays, SyncType
      <3>4. \A e \in InRange(t) : e \in sync'[t].todo \/ Kept(e)'
        BY <2>2, <3>3
      <3> QED
        BY <3>1, <3>4 DEF Stored
    <2>3. CASE pc'[t] \notin {"fetch", "events", "insert"}
      BY <2>3 DEF Planned, Stored
    <2>4. CASE Same(t) /\ pc'[t] \in {"fetch", "events", "insert"}
      <3>1. pc[t] = pc'[t] /\ sync'[t] = sync[t]
        BY <2>4 DEF Same
      <3>2. Planned(t)'
        BY <2>1, <2>4, <3>1
      <3>3. CASE pc'[t] \in {"events", "insert"}
        BY <2>2, <3>1, <3>2, <3>3
      <3>4. CASE pc'[t] = "fetch"
        BY <3>2, <3>4 DEF Stored
      <3> QED
        BY <2>4, <3>3, <3>4
    <2>5. CASE planRange(t) /\ pc'[t] \in {"fetch", "events", "insert"}
      <3>1. ~ (last >= sync[t].latest)
        BY <2>5, EndEffect DEF planRange
      <3>2. pc'[t] = "fetch" /\ sync'[t].from = last + 1
        BY <2>5, <3>1, PlanEffect, RangeType, GotoEffect DEF Labels
      <3>3. sync'[t].from - 1 = last
        BY <3>2 DEF TypeOK
      <3>4. Planned(t)'
        BY <3>3, CoveredStays DEF Planned, Covered
      <3> QED
        BY <3>2, <3>4 DEF Stored
    <2>6. CASE getContractEvents(t)
      <3>1. pc[t] = "fetch" /\ pc'[t] = "events"
        BY <2>6, GotoEffect DEF getContractEvents, Labels
      <3>2. CASE sync' = [sync EXCEPT ![t].todo = InRange(t)]
        <4>1. InRange(t) \in SUBSET Events
          BY SyncType
        <4>2. /\ sync'[t].from = sync[t].from
              /\ sync'[t].to = sync[t].to
              /\ sync'[t].todo = InRange(t)
          BY <3>2, <4>1, TodoEffect
        <4>3. InRange(t)' = InRange(t)
          BY <4>2 DEF InRange
        <4>4. Planned(t)'
          BY <2>1, <3>1, <4>2
        <4> QED
          BY <4>2, <4>3, <4>4 DEF Stored
      <3>3. CASE sync' = sync /\ dropped' = dropped \cup InRange(t)
        <4>1. Planned(t)'
          BY <2>1, <3>1, <3>3
        <4>2. InRange(t)' = InRange(t)
          BY <3>3 DEF InRange
        <4> QED
          BY <3>3, <4>1, <4>2 DEF Stored, Kept
      <3> QED
        BY <2>6, <3>2, <3>3 DEF getContractEvents
    <2>7. CASE findDuplicate(t) \/ insertEvent(t) \/ storeFails(t)
      <3>1. pc[t] \in {"events", "insert"} /\ sync[t].todo # {}
        BY <2>7 DEF findDuplicate, insertEvent, storeFails, HasEvent
      <3>2. PICK n \in Events : n = NextEvent(t)
        BY <3>1, NextEventInTodo
      <3>3. CASE sync' = sync
        BY <2>1, <2>2, <3>1, <3>3
      <3>4. CASE Handled(t) /\ Kept(n)'
        <4>1. /\ sync'[t].from = sync[t].from
              /\ sync'[t].to = sync[t].to
              /\ sync'[t].todo = sync[t].todo \ {n}
          BY <3>2, <3>4, HandledEffect
        <4>2. \A e \in sync[t].todo : e \in sync'[t].todo \/ Kept(e)'
          BY <3>4, <4>1
        <4> QED
          BY <2>1, <2>2, <3>1, <4>1, <4>2
      <3>5. CASE findDuplicate(t)
        <4>1. CASE rows[NextEvent(t)] > 0
          <5>1. rows' = rows /\ Handled(t)
            BY <3>5, <4>1 DEF findDuplicate, store
          <5> QED
            BY <3>2, <3>4, <4>1, <5>1 DEF Kept
        <4>2. CASE ~ (rows[NextEvent(t)] > 0)
          BY <3>3, <3>5, <4>2 DEF findDuplicate
        <4> QED
          BY <4>1, <4>2
      <3>6. CASE insertEvent(t)
        <4>1. rows' = [rows EXCEPT ![n] = @ + 1] /\ Handled(t)
          BY <3>2, <3>6 DEF insertEvent
        <4>3. rows'[n] > 0
          BY <4>1 DEF TypeOK
        <4> QED
          BY <3>4, <4>1, <4>3 DEF Kept
      <3>7. CASE storeFails(t)
        BY <3>2, <3>4, <3>7 DEF storeFails, Kept
      <3> QED
        BY <2>7, <3>5, <3>6, <3>7
    <2>8. CASE startListening(t) \/ syncEvents(t) \/ getLastProcessedBlock(t) \/ getBlockNumber(t)
      BY <2>3, <2>8, GotoEffect
      DEF startListening, syncEvents, getLastProcessedBlock, getBlockNumber, Labels
    <2>9. CASE crash
      BY <2>3, <2>9, CrashEffect
    <2>10. CASE finishSync(t)
      BY <2>3, <2>10, EndEffect DEF finishSync
    <2>11. CASE SyncStep(t)
      BY <2>3, <2>5, <2>6, <2>7, <2>8, <2>10, <2>11 DEF SyncStep, Continue
    <2>12. CASE Same(t)
      BY <2>3, <2>4, <2>12
    <2> QED
      BY <2>9, <2>11, <2>12, OthersStand
      DEF Next, SyncStep, NewBlock, stopListening, markAsProcessed, memory, Same
  <1> QED
    BY <1>3, <1>4
-----------------------------------------------------------------------------
(* Counting the inserts to come.                                           *)

(* The count of a set of syncs is bounded by those of the sets around it.  *)
LEMMA CountSubset ==
    ASSUME NEW S \in SUBSET Syncs, NEW T \in SUBSET S
    PROVE  /\ Cardinality(S) \in Nat
           /\ Cardinality(T) \in Nat
           /\ Cardinality(T) <= Cardinality(S)
           /\ \A s \in S \ T : Cardinality(T) <= Cardinality(S) - 1
  <1>1. IsFiniteSet(S) /\ IsFiniteSet(T)
    BY ConstantsAssumption, FS_Subset
  <1>2. Cardinality(S) \in Nat /\ Cardinality(T) \in Nat
    BY <1>1, FS_CardinalityType
  <1>3. Cardinality(T) <= Cardinality(S)
    BY <1>1, FS_Subset
  <1>4. ASSUME NEW s \in S \ T
        PROVE  Cardinality(T) <= Cardinality(S) - 1
    <2>1. T \in SUBSET (S \ {s})
      OBVIOUS
    <2>2. IsFiniteSet(S \ {s}) /\ Cardinality(S \ {s}) = Cardinality(S) - 1
      BY <1>1, FS_RemoveElement
    <2>3. Cardinality(T) <= Cardinality(S \ {s})
      BY <2>1, <2>2, FS_Subset
    <2> QED
      BY <2>2, <2>3
  <1> QED
    BY <1>2, <1>3, <1>4

LEMMA LimitType ==
    /\ Limit \in Nat
    /\ Next => Limit' = Limit
  <1>1. Cardinality(Syncs) \in Nat
    BY ConstantsAssumption, FS_CardinalityType
  <1> QED
    BY <1>1, SettingStands DEF Limit, setting

(* A sync comes to an insert when it has found no row of the event.        *)
LEMMA InsertersStand ==
    ASSUME TypeOK, Next, NEW t \in Syncs, pc'[t] = "insert"
    PROVE  \/ Same(t)
           \/ /\ findDuplicate(t)
              /\ sync[t].todo # {}
              /\ rows[NextEvent(t)] = 0
              /\ rows' = rows
              /\ sync' = sync
  <1>1. CASE findDuplicate(t)
    <2>1. sync[t].todo # {} /\ rows' = rows
      BY <1>1 DEF findDuplicate, store
    <2>2. NextEvent(t) \in Events
      BY <2>1, NextEventInTodo
    <2>3. CASE rows[NextEvent(t)] > 0
      BY <1>1, <2>1, <2>3 DEF findDuplicate
    <2>4. CASE ~ (rows[NextEvent(t)] > 0)
      <3>1. rows[NextEvent(t)] \in Nat
        BY <2>2 DEF TypeOK
      <3> QED
        BY <1>1, <2>1, <2>4, <3>1 DEF findDuplicate
    <2>5. pc[t] = "events"
      BY <1>1 DEF findDuplicate
    <2> QED
      BY <2>3, <2>4, <2>5
  <1>2. CASE planRange(t)
    BY <1>2, EndEffect, PlanEffect, GotoEffect DEF planRange, Labels
  <1>3. CASE startListening(t) \/ syncEvents(t) \/ getLastProcessedBlock(t) \/ getBlockNumber(t)
    BY <1>3, GotoEffect
    DEF startListening, syncEvents, getLastProcessedBlock, getBlockNumber, Labels
  <1>4. CASE getContractEvents(t) \/ insertEvent(t) \/ storeFails(t)
    BY <1>4, GotoEffect DEF getContractEvents, insertEvent, storeFails, Labels
  <1>5. CASE finishSync(t)
    BY <1>5, EndEffect DEF finishSync
  <1>6. CASE crash
    BY <1>6, CrashEffect
  <1>7. CASE SyncStep(t)
    BY <1>1, <1>2, <1>3, <1>4, <1>5, <1>7 DEF SyncStep, Continue
  <1> QED
    BY <1>6, <1>7, OthersStand
    DEF Next, SyncStep, NewBlock, stopListening, markAsProcessed, memory, Same

LEMMA CountedStep ==
    ASSUME TypeOK, HasEvent, Alone, Counted, Next
    PROVE  Counted'
  <1> SUFFICES ASSUME NEW e \in Events
               PROVE  rows'[e] + Cardinality(Inserting(e)') <= Limit
    BY LimitType DEF Counted
  <1> DEFINE S == Inserting(e)
             T == Inserting(e)'
  <1>1. S \in SUBSET Syncs /\ T \in SUBSET Syncs
    BY DEF Inserting
  <1>2. rows[e] \in Nat /\ rows[e] + Cardinality(S) <= Limit
    BY DEF TypeOK, Counted
  <1>3. \A t \in Syncs : (t \in S <=> Inserts(t, e)) /\ (t \in T <=> Inserts(t, e)')
    BY DEF Inserting
  <1> HIDE DEF S, T
  <1>4. CASE T \subseteq S
    <2>1. CASE rows'[e] = rows[e]
      BY <1>1, <1>2, <1>4, <2>1, CountSubset, LimitType DEF T
    <2>2. CASE rows'[e] # rows[e]
      <3>1. PICK s \in Syncs : /\ insertEvent(s)
                               /\ NextEvent(s) \in Events
                               /\ rows' = [rows EXCEPT ![NextEvent(s)] = @ + 1]
        BY <2>2, RowsChange
      <3>2. e = NextEvent(s) /\ rows'[e] = rows[e] + 1
        BY <2>2, <3>1 DEF TypeOK
      <3>3. s \in S
        BY <1>3, <3>1, <3>2 DEF Inserts, insertEvent
      <3>4. pc'[s] = "events"
        BY <3>1, GotoEffect DEF insertEvent, Labels
      <3>5. s \notin T
        BY <1>3, <3>4 DEF Inserts
      <3>6. Cardinality(T) <= Cardinality(S) - 1 /\ Cardinality(S) \in Nat /\ Cardinality(T) \in Nat
        BY <1>1, <1>4, <3>3, <3>5, CountSubset
      <3> QED
        BY <1>2, <3>2, <3>6, LimitType DEF T
    <2> QED
      BY <2>1, <2>2
  <1>5. CASE ~ (T \subseteq S)
    <2>1. PICK t \in Syncs : t \in T /\ t \notin S
      BY <1>1, <1>5
    <2>2. pc'[t] = "insert" /\ NextEvent(t)' = e
      BY <1>3, <2>1 DEF Inserts
    <2>3. ~ Same(t)
      BY <1>3, <2>1, <2>2 DEF Same, Inserts, NextEvent
    <2>4. findDuplicate(t) /\ rows[NextEvent(t)] = 0 /\ rows' = rows /\ sync' = sync
      BY <2>2, <2>3, InsertersStand
    <2>5. rows'[e] = 0
      <3>1. NextEvent(t)' = NextEvent(t)
        BY <2>4 DEF NextEvent
      <3> QED
        BY <2>2, <2>4, <3>1
    <2>6. Cardinality(T) \in Nat /\ Cardinality(T) <= Limit
      <3>1. CASE overlap
        <4>1. Syncs \in SUBSET Syncs
          OBVIOUS
        <4> QED
          BY <1>1, <3>1, <4>1, CountSubset DEF Limit
      <3>2. CASE ~ overlap
        <4>1. \A s \in Syncs : pc'[s] # "idle" => s = t
          BY <2>2, <3>2, AloneStep, SettingStands DEF Alone, setting
        <4>2. T \in SUBSET {t}
          BY <1>1, <1>3, <4>1 DEF Inserts
        <4>3. Cardinality({t}) = 1
          BY FS_Singleton
        <4>4. Cardinality(T) \in Nat /\ Cardinality(T) <= Cardinality({t})
          <5>1. {t} \in SUBSET Syncs
            OBVIOUS
          <5> QED
            BY <4>2, <5>1, CountSubset
        <4> QED
          BY <3>2, <4>3, <4>4 DEF Limit
      <3> QED
        BY <3>1, <3>2
    <2> QED
      BY <2>5, <2>6, LimitType DEF T
  <1> QED
    BY <1>4, <1>5
-----------------------------------------------------------------------------
LEMMA InitInv == Init => IInv
  <1> SUFFICES ASSUME Init
               PROVE  IInv
    OBVIOUS
  <1>1. TypeOK
    BY DEF Init, TypeOK, Labels, Sync, NoSync
  <1>2. \A t \in Syncs : pc[t] = "idle" /\ sync[t] = NoSync
    BY DEF Init
  <1>3. HasEvent /\ Alone
    BY <1>2 DEF HasEvent, Alone
  <1>4. OnChain
    BY <1>2 DEF OnChain, NoSync, Init
  <1>5. Behind
    BY <1>2, EventNumbers DEF Behind, Covered, Planned, Stored, Init
  <1>6. Counted
    <2> SUFFICES ASSUME NEW e \in Events
                 PROVE  rows[e] + Cardinality(Inserting(e)) <= Limit
      BY DEF Counted
    <2>1. Inserting(e) = {}
      BY <1>2 DEF Inserting, Inserts
    <2>2. rows[e] = 0
      BY DEF Init
    <2> QED
      BY <2>1, <2>2, FS_EmptySet, LimitType
  <1> QED
    BY <1>1, <1>3, <1>4, <1>5, <1>6 DEF IInv

LEMMA NextInv == IInv /\ [Next]_vars => IInv'
  <1> SUFFICES ASSUME IInv, [Next]_vars
               PROVE  IInv'
    OBVIOUS
  <1>1. CASE Next
    BY <1>1, TypeStep, HasEventStep, OnChainStep, BehindStep, AloneStep, CountedStep DEF IInv
  <1>2. CASE UNCHANGED vars
    <2>1. /\ overlap' = overlap /\ reliable' = reliable /\ head' = head
          /\ isListening' = isListening /\ last' = last /\ isText' = isText
          /\ pc' = pc /\ sync' = sync /\ rows' = rows /\ processed' = processed
          /\ dropped' = dropped /\ resumed' = resumed
      BY <1>2 DEF vars, setting, memory, store, history
    <2>2. TypeOK' /\ HasEvent' /\ OnChain' /\ Alone'
      BY <2>1 DEF IInv, TypeOK, HasEvent, OnChain, Alone
    <2>3. Behind'
      BY <2>1 DEF IInv, Behind, Covered, Kept, Planned, Stored, InRange
    <2>4. Counted'
      BY <2>1 DEF IInv, Counted, Inserting, Inserts, NextEvent, Limit
    <2> QED
      BY <2>2, <2>3, <2>4 DEF IInv
  <1> QED
    BY <1>1, <1>2

(* Every reachable state satisfies the inductive invariant.                *)
THEOREM Invariance == Spec => []IInv
  BY InitInv, NextInv, PTL DEF Spec

(* However syncs overlap, calls fail and the listener stops, dies and      *)
(* starts anew, every event up to lastProcessedBlock is stored or a failed *)
(* call has passed over it, until the listener resumes from the text of a  *)
(* processed row: for any events, size of a batch and number of syncs.     *)
THEOREM NothingPassedOver == Spec => []StoredBehindLast
  <1>1. IInv => StoredBehindLast
    BY DEF IInv, Behind, Covered, Kept, StoredBehindLast
  <1> QED
    BY <1>1, Invariance, PTL

(* findDuplicate keeps an event to one row, fetched again or not, when a   *)
(* sync waits for the one before; when it does not, an event has at most   *)
(* as many rows as there can be syncs between the look and the insert.     *)
THEOREM RowsAreBounded == Spec => []NoDuplicateRows
  <1>1. IInv => NoDuplicateRows
    <2> SUFFICES ASSUME IInv, NEW e \in Events
                 PROVE  rows[e] <= Limit
      BY DEF NoDuplicateRows, Limit
    <2>1. rows[e] \in Nat /\ rows[e] + Cardinality(Inserting(e)) <= Limit
      BY DEF IInv, TypeOK, Counted
    <2>2. Inserting(e) \in SUBSET Syncs
      BY DEF Inserting
    <2>3. Cardinality(Inserting(e)) \in Nat
      BY <2>2, CountSubset
    <2> QED
      BY <2>1, <2>3, LimitType
  <1> QED
    BY <1>1, Invariance, PTL
=============================================================================
