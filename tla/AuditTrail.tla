------------------------------ MODULE AuditTrail ------------------------------
(***************************************************************************)
(* AuditService, DataRetentionService and the interceptor that logs every  *)
(* request: a trail in which each entry holds the hash of the one before.  *)
(* A log reads the latest entry in one await and is inserted in another;   *)
(* the answer to a request that succeeded does not wait for it.            *)
(*                                                                         *)
(* sha256 is taken to be injective: a hash is what was hashed.  An entry   *)
(* stands for its action, resource, values and metadata, which may be the  *)
(* same of two requests; the database stamps it when it is inserted, and   *)
(* no two are stamped alike.                                               *)
(***************************************************************************)
EXTENDS Handlers, Deletion, FiniteSets

CONSTANTS Users, Entries

VARIABLES trail,      \* the rows, in the order of their timestamps
          stamp,      \* the last timestamp given
          untouched   \* history: nothing was erased, minimized or purged

vars == <<handlers, trail, stamp, untouched>>

Unstamped == 0  \* the timestamp of a log that is not saved yet
NoHash == <<>>

Rest == /\ trail = <<>>
        /\ stamp = Unstamped
        /\ untouched = TRUE

Init == HandlersInit /\ Rest
-----------------------------------------------------------------------------
computeHash(log) == <<log.user, log.entry, log.timestamp, log.previousHash>>

(* A response, or an error, passes the interceptor.                        *)
intercept(p, u, entry) ==
    /\ Request(p, "latest", [user |-> u, entry |-> entry])
    /\ UNCHANGED <<trail, stamp, untouched>>

previousHash == IF trail = <<>> THEN NoHash ELSE trail[Len(trail)].hash

(* A slip in createLog: the oldest entry is taken for the latest.          *)
FindOldest(p) ==
    /\ pc[p] = "latest"
    /\ GotoWith(p, "save", [user |-> run[p].user, entry |-> run[p].entry, timestamp |-> Unstamped,
                            previousHash |-> IF trail = <<>> THEN NoHash ELSE trail[1].hash])
    /\ UNCHANGED <<trail, stamp, untouched>>

(* createLog up to its save.                                               *)
findLatest(p) ==
    /\ pc[p] = "latest"
    /\ GotoWith(p, "save", [user |-> run[p].user, entry |-> run[p].entry, timestamp |-> Unstamped,
                            previousHash |-> previousHash])
    /\ UNCHANGED <<trail, stamp, untouched>>

(* The hash was computed before the database stamped the row.              *)
saveLog(p) ==
    /\ pc[p] = "save"
    /\ stamp' = stamp + 1
    /\ trail' = Append(trail, [user |-> run[p].user, entry |-> run[p].entry, timestamp |-> stamp',
                               previousHash |-> run[p].previousHash,
                               hash |-> computeHash(run[p])])
    /\ End(p)
    /\ UNCHANGED untouched

(* A rejected call.                                                        *)
fail(p) ==
    /\ faulty
    /\ pc[p] # "idle"
    /\ End(p)
    /\ UNCHANGED <<trail, stamp, untouched>>
-----------------------------------------------------------------------------
Touch(rows) == trail' = rows /\ untouched' = FALSE /\ UNCHANGED <<handlers, stamp>>

eraseUserData(u) ==
    /\ \E i \in DOMAIN trail : trail[i].user = u
    /\ Touch(Remaining(trail, {i \in DOMAIN trail : trail[i].user # u}))

minimizeUserData(u) ==
    /\ \E i \in DOMAIN trail : trail[i].user = u
    /\ Touch([i \in DOMAIN trail |->
                IF trail[i].user = u THEN [trail[i] EXCEPT !.user = "anonymized"] ELSE trail[i]])

purgeOldRecords(cutoff) ==
    /\ trail # <<>> /\ trail[1].timestamp < cutoff
    /\ Touch(Remaining(trail, {i \in DOMAIN trail : trail[i].timestamp >= cutoff}))
-----------------------------------------------------------------------------
Next == \/ \E p \in Procs :
              \/ \E u \in Users, entry \in Entries : intercept(p, u, entry)
              \/ findLatest(p)
              \/ saveLog(p)
              \/ fail(p)
        \/ \E u \in Users : eraseUserData(u) \/ minimizeUserData(u)
        \/ \E cutoff \in 1..stamp : purgeOldRecords(cutoff)

Spec == Init /\ [][Next]_vars
-----------------------------------------------------------------------------
verifyAuditTrail ==
    \A i \in DOMAIN trail :
        /\ trail[i].hash = computeHash(trail[i])
        /\ trail[i].previousHash = IF i = 1 THEN NoHash ELSE trail[i - 1].hash

TypeOK ==
    /\ untouched \in BOOLEAN
    /\ \A i \in DOMAIN trail : /\ trail[i].user \in Users \cup {"anonymized"}
                               /\ trail[i].timestamp \in 1..stamp
                               /\ i > 1 => trail[i - 1].timestamp < trail[i].timestamp

(* The entries of a hash, more than one where equal requests were chained  *)
(* to the same entry; and those that say it was the latest hash.           *)
Bearers(h) == {i \in DOMAIN trail : trail[i].hash = h}
Followers(h) == {i \in DOMAIN trail : trail[i].previousHash = h}

(* As long as nothing was taken from it the trail forks no wider than      *)
(* there are logs in flight at a time: where none overlap it is one chain, *)
(* and where they do an entry is followed by as many as were in flight, or *)
(* entries that cannot be told apart by as many as were in flight for each.*)
TrailIsChain == untouched =>
    /\ ~overlap => \A i \in 2..Len(trail) : trail[i].previousHash = trail[i - 1].hash
    /\ \A h \in {trail[i].hash : i \in DOMAIN trail} :
          Cardinality(Followers(h)) <= Cardinality(Procs) * Cardinality(Bearers(h))

(* What the module's own test asks of a trail nobody touched.              *)
UntouchedVerifies == untouched /\ ~overlap => verifyAuditTrail
=============================================================================
