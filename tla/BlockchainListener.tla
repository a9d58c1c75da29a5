-------------------------- MODULE BlockchainListener --------------------------
(***************************************************************************)
(* BlockchainListenerService and the store of BlockchainEventService: a    *)
(* timer starts a sync every ten seconds, whether or not the one before it *)
(* has ended; a sync fetches the next blocks of the chain and stores their *)
(* events.                                                                 *)
(*                                                                         *)
(* Events are the blocks with an event that getEventName knows.  (The stub *)
(* in the source knows none: Events = {} is the program as it stands.)     *)
(***************************************************************************)
EXTENDS Integers, FiniteSets, FiniteSetsExt

CONSTANTS Events,       \* the blocks with an event that the listener knows
          batchSize,    \* blocks fetched by a sync
          Syncs,        \* the syncs that can be in flight at a time
          MaxHead,      \* bound: blocks of the chain
          MaxRestarts   \* bound: stops and crashes

(* The genesis block runs no contract.                                     *)
ASSUME ConstantsAssumption ==
    /\ Events \subseteq Nat \ {0}
    /\ batchSize \in 1..9999
    /\ IsFiniteSet(Syncs)
    /\ MaxHead \in Nat
    /\ MaxRestarts \in Nat

VARIABLES overlap,      \* may a sync start before the last one has ended?
          reliable,     \* do all calls of the node and the database succeed?
          head,         \* the latest block of the chain
          isListening,
          last,         \* lastProcessedBlock
          isText,       \* is it the text of a bigint column?
          pc,           \* where each sync stands
          sync,         \* its latest block, range and the events still to store
          rows,         \* rows stored of each event
          processed,    \* the events a row of which has been processed
          dropped,      \* history: events a failed call passed over
          resumed,      \* history: has startListening found a processed row?
          restarts      \* stops and crashes so far

setting == <<overlap, reliable>>
memory == <<isListening, last, isText, pc, sync>>
store == <<rows, processed>>
history == <<dropped, resumed, restarts>>
vars == <<setting, head, memory, store, history>>

NoSync == [latest |-> 0, from |-> 0, to |-> 0, todo |-> {}]

Init == /\ overlap \in BOOLEAN
        /\ reliable \in BOOLEAN
        /\ head = 0
        /\ isListening = FALSE
        /\ last = 0
        /\ isText = FALSE
        /\ pc = [s \in Syncs |-> "idle"]
        /\ sync = [s \in Syncs |-> NoSync]
        /\ rows = [e \in Events |-> 0]
        /\ processed = {}
        /\ dropped = {}
        /\ resumed = FALSE
        /\ restarts = 0

Goto(s, label) == pc' = [pc EXCEPT ![s] = label]
End(s) == Goto(s, "idle") /\ sync' = [sync EXCEPT ![s] = NoSync]
MayStart(s) == pc[s] = "idle" /\ (overlap \/ \A t \in Syncs : pc[t] = "idle")
-----------------------------------------------------------------------------
(* The chain grows.                                                        *)
NewBlock == /\ head < MaxHead
            /\ head' = head + 1
            /\ UNCHANGED <<setting, memory, store, history>>

(* onModuleInit or the controller.  isListening is set before the await.   *)
startListening(s) ==
    /\ ~isListening
    /\ MayStart(s)
    /\ isListening' = TRUE
    /\ Goto(s, "starting")
    /\ UNCHANGED <<setting, head, last, isText, sync, store, history>>

(* getLastProcessedBlock: the highest block of a processed row, as text,   *)
(* or the number 0.  A sync follows.                                       *)
getLastProcessedBlock(s) ==
    /\ pc[s] = "starting"
    /\ last' = Max({0} \cup processed)
    /\ isText' = (processed # {})
    /\ resumed' = (resumed \/ processed # {})
    /\ Goto(s, "head")
    /\ UNCHANGED <<setting, head, isListening, sync, store, dropped, restarts>>

(* Syncs in flight go on.                                                  *)
stopListening ==
    /\ isListening
    /\ restarts < MaxRestarts
    /\ restarts' = restarts + 1
    /\ isListening' = FALSE
    /\ UNCHANGED <<setting, head, last, isText, pc, sync, store, dropped, resumed>>

(* The process dies and starts anew: onModuleInit starts the listener.     *)
crash ==
    /\ restarts < MaxRestarts
    /\ restarts' = restarts + 1
    /\ isListening' = FALSE
    /\ last' = 0
    /\ isText' = FALSE
    /\ pc' = [s \in Syncs |-> "idle"]
    /\ sync' = [s \in Syncs |-> NoSync]
    /\ UNCHANGED <<setting, head, store, dropped, resumed>>
-----------------------------------------------------------------------------
(* The timer.                                                              *)
syncEvents(s) ==
    /\ isListening
    /\ MayStart(s)
    /\ Goto(s, "head")
    /\ UNCHANGED <<setting, head, isListening, last, isText, sync, store, history>>

getBlockNumber(s) ==
    /\ pc[s] = "head"
    /\ sync' = [sync EXCEPT ![s].latest = head]
    /\ Goto(s, "plan")
    /\ UNCHANGED <<setting, head, isListening, last, isText, store, history>>

(* fromBlock = last + 1, and fromBlock + batchSize - 1, where + appends to *)
(* a text: to append batchSize shifts the number by as many digits.        *)
shift == Min({d \in {10, 100, 1000, 10000} : d > batchSize})
fromBlock == IF isText THEN last * 10 + 1 ELSE last + 1
rangeEnd == IF isText THEN fromBlock * shift + batchSize - 1 ELSE fromBlock + batchSize - 1

(* A slip in syncEvents: the range is claimed before it is worked on.      *)
ClaimRange(s) ==
    /\ pc[s] = "plan"
    /\ IF last >= sync[s].latest
       THEN End(s) /\ UNCHANGED <<last, isText>>
       ELSE /\ sync' = [sync EXCEPT ![s].from = fromBlock,
                                    ![s].to = Min({rangeEnd, sync[s].latest})]
            /\ last' = Min({rangeEnd, sync[s].latest})
            /\ isText' = FALSE
            /\ Goto(s, "fetch")
    /\ UNCHANGED <<setting, head, isListening, store, history>>

planRange(s) ==
    /\ pc[s] = "plan"
    /\ IF last >= sync[s].latest
       THEN End(s)
       ELSE /\ sync' = [sync EXCEPT ![s].from = fromBlock,
                                    ![s].to = Min({rangeEnd, sync[s].latest})]
            /\ Goto(s, "fetch")
    /\ UNCHANGED <<setting, head, isListening, last, isText, store, history>>

InRange(s) == Events \cap (sync[s].from .. sync[s].to)

(* A failed fetch counts as a range without events.                        *)
getContractEvents(s) ==
    /\ pc[s] = "fetch"
    /\ \/ /\ sync' = [sync EXCEPT ![s].todo = InRange(s)]
          /\ UNCHANGED dropped
       \/ /\ ~reliable
          /\ dropped' = dropped \cup InRange(s)
          /\ UNCHANGED sync
    /\ Goto(s, "events")
    /\ UNCHANGED <<setting, head, isListening, last, isText, store, resumed, restarts>>

(* The events of a range are stored one after the other, in their order.   *)
NextEvent(s) == Min(sync[s].todo)
Handled(s) == sync' = [sync EXCEPT ![s].todo = @ \ {NextEvent(s)}]

(* A slip in createEvent: it does not look for a duplicate.                *)
InsertAnyway(s) ==
    /\ pc[s] = "events"
    /\ sync[s].todo # {}
    /\ Goto(s, "insert")
    /\ UNCHANGED <<setting, head, isListening, last, isText, sync, store, history>>

(* createEvent: a stored event is left alone.                              *)
findDuplicate(s) ==
    /\ pc[s] = "events"
    /\ sync[s].todo # {}
    /\ IF rows[NextEvent(s)] > 0 THEN Handled(s) /\ UNCHANGED pc
                                 ELSE Goto(s, "insert") /\ UNCHANGED sync
    /\ UNCHANGED <<setting, head, isListening, last, isText, store, history>>

insertEvent(s) ==
    /\ pc[s] = "insert"
    /\ rows' = [rows EXCEPT ![NextEvent(s)] = @ + 1]
    /\ Handled(s)
    /\ Goto(s, "events")
    /\ UNCHANGED <<setting, head, isListening, last, isText, processed, history>>

(* processEvent catches what createEvent throws, and goes on.              *)
storeFails(s) ==
    /\ ~reliable
    /\ pc[s] \in {"events", "insert"}
    /\ sync[s].todo # {}
    /\ dropped' = dropped \cup {NextEvent(s)}
    /\ Handled(s)
    /\ Goto(s, "events")
    /\ UNCHANGED <<setting, head, isListening, last, isText, store, resumed, restarts>>

(* A slip in syncEvents: the range is passed over one block too far.       *)
FinishOneMore(s) ==
    /\ pc[s] = "events"
    /\ sync[s].todo = {}
    /\ last' = Min({sync[s].to + 1, sync[s].latest})
    /\ isText' = FALSE
    /\ End(s)
    /\ UNCHANGED <<setting, head, isListening, store, history>>

finishSync(s) ==
    /\ pc[s] = "events"
    /\ sync[s].todo = {}
    /\ last' = sync[s].to
    /\ isText' = FALSE
    /\ End(s)
    /\ UNCHANGED <<setting, head, isListening, store, history>>

(* What BlockchainEvents is about.                                         *)
markAsProcessed(e) ==
    /\ rows[e] > 0
    /\ processed' = processed \cup {e}
    /\ UNCHANGED <<setting, head, memory, rows, history>>
-----------------------------------------------------------------------------
Continue(s) == \/ getLastProcessedBlock(s)
               \/ getBlockNumber(s)
               \/ planRange(s)
               \/ getContractEvents(s)
               \/ findDuplicate(s)
               \/ insertEvent(s)
               \/ storeFails(s)
               \/ finishSync(s)

Next == \/ NewBlock
        \/ stopListening
        \/ crash
        \/ \E s \in Syncs : startListening(s) \/ syncEvents(s) \/ Continue(s)
        \/ \E e \in Events : markAsProcessed(e)

(* The timer fires again and again, and a sync whose calls return goes on. *)
Fairness == \A s \in Syncs : WF_vars(Continue(s)) /\ SF_vars(syncEvents(s))

Spec == Init /\ [][Next]_vars
FairSpec == Spec /\ Fairness
-----------------------------------------------------------------------------
(* No event is passed over: one in a block up to lastProcessedBlock is     *)
(* stored or a call for it failed, however syncs overlap and whenever the  *)
(* listener is stopped or dies, until it resumes from the text of a        *)
(* processed row.                                                          *)
StoredBehindLast == ~resumed => \A e \in Events :
    e <= last => rows[e] > 0 \/ e \in dropped

(* "Check for duplicate events": blocks fetched a second time, after a     *)
(* restart, store no event twice, as long as syncs do not overlap; where   *)
(* they do, it is stored at most once by each of those in flight.          *)
NoDuplicateRows == \A e \in Events : rows[e] <= IF overlap THEN Cardinality(Syncs) ELSE 1

(* What is on the chain is stored in the end, when no call fails and the   *)
(* listener is not left stopped, nor resumed from the text of a row.       *)
EventuallyStored == \A e \in Events :
    e <= head ~> rows[e] > 0 \/ ~reliable \/ ~isListening \/ resumed
=============================================================================
