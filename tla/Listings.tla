------------------------------ MODULE Listings ------------------------------
(***************************************************************************)
(* Listings and statistics.  A client turns the pages of a listing, newest *)
(* first, until it has come as far as the total says; a page and its total *)
(* are two queries, the parts of a statistic as many, and rows come, go    *)
(* and change between any two of them.  What the services list differs in  *)
(* the rows it takes, in what it counts first and in what it can lose.     *)
(***************************************************************************)
EXTENDS Naturals, Sequences, FiniteSets, SequencesExt

CONSTANTS pageLimit,        \* rows on a page
          MaxRows,          \* bound: rows a table starts with
          MaxWrites,        \* bound: rows that come, go or change
          MaxEscrowWrites   \* and that of escrows

VARIABLES kind,     \* the table read
          table,    \* its rows, oldest first
          writes,   \* rows written so far
          view      \* the client's walk or statistic

vars == <<kind, table, writes, view>>

Tables == {"transactions", "events", "escrows", "disputes", "reports", "metrics",
           "notifications", "audit"}

(* What the user who asks is to a row: it has an owner, or two parties.    *)
Roles(k) == CASE k = "escrows" -> {"buyer", "seller", "other"}
              [] k \in {"transactions", "disputes", "reports"} -> {"owner", "other"}
              [] OTHER -> {"owner"}

(* Rows are inserted pending and can end; an audit row's action and a      *)
(* metric's type, which never change, stand here for their status.         *)
Statuses == {"pending", "completed"}

Tell(k) == k \notin {"reports", "notifications"}
Ends(k) == k \in {"transactions", "events", "escrows", "disputes"}

(* A listing of escrows joins each with its milestones, which come later.  *)
Joins(k) == IF k = "escrows" THEN {1, 2} ELSE {1}

Rows(k, ids) == [id : ids, role : Roles(k), joined : Joins(k),
                 status : IF Tell(k) THEN Statuses ELSE {"pending"}]

Idle == [at |-> "idle"]
Rest == kind = "none" /\ table = <<>> /\ writes = 0 /\ view = Idle

Init == /\ kind \in Tables
        /\ \E n \in 1..MaxRows :
               table \in {t \in [1..n -> Rows(kind, 1..n)] : \A i \in 1..n : t[i].id = i}
        /\ writes = 0 /\ view = Idle

Ids(rows) == {rows[i].id : i \in DOMAIN rows}
-----------------------------------------------------------------------------
(* What each service lists, for a filter of the user's rows and a status.  *)
Newest(rows, Test(_)) == SelectSeq(Reverse(rows), Test)

HasStatus(r, f) == f.status \in {"any", r.status}

findTransactions(t, f) == Newest(t, LAMBDA r : (f.own => r.role = "owner") /\ HasStatus(r, f))

findEvents(t, f) == Newest(t, LAMBDA r : HasStatus(r, f))

(* limit and offset count the joined rows.                                 *)
getEscrows(t, f) ==
    LET rows == Newest(t, LAMBDA r : (f.own => r.role = "buyer") /\ HasStatus(r, f))
    IN  FlattenSeq([i \in DOMAIN rows |-> [j \in 1..rows[i].joined |-> rows[i]]])

getDisputes(t, f) == Newest(t, LAMBDA r : (f.own => r.role = "owner") /\ HasStatus(r, f))

getReports(t, f) == Newest(t, LAMBDA r : f.own => r.role = "owner")

getMetrics(t, f) == Newest(t, LAMBDA r : TRUE)

getNotifications(t, f) == Newest(t, LAMBDA r : TRUE)

getUserAuditHistory(t, f) == Newest(t, LAMBDA r : TRUE)

Listing(t, f) == CASE kind = "transactions"  -> findTransactions(t, f)
                [] kind = "events"        -> findEvents(t, f)
                [] kind = "escrows"       -> getEscrows(t, f)
                [] kind = "disputes"      -> getDisputes(t, f)
                [] kind = "reports"       -> getReports(t, f)
                [] kind = "metrics"       -> getMetrics(t, f)
                [] kind = "notifications" -> getNotifications(t, f)
                [] kind = "audit"         -> getUserAuditHistory(t, f)

Matching(t, f) == Ids(Listing(t, f))

Filters == [own : IF kind \in {"transactions", "escrows", "disputes", "reports"} THEN BOOLEAN
                  ELSE {FALSE},
            status : {"any"} \cup (IF Ends(kind) THEN Statuses ELSE {})]
-----------------------------------------------------------------------------
(* A slip: every listing counts first.                                     *)
CountFirst(k) == IF k \in {"notifications", "audit"} THEN <<"rows">> ELSE <<"count", "rows">>

(* findAndCount reads the rows, then their number; getDisputes counts      *)
(* first; notifications and the user's audit history come without a total. *)
Reads(k) == CASE k = "disputes" -> <<"count", "rows">>
              [] k \in {"notifications", "audit"} -> <<"rows">>
              [] OTHER -> <<"rows", "count">>

openListing(f) ==
    /\ view = Idle
    /\ view' = [at |-> "read", next |-> 1, filter |-> f, page |-> 1, shown |-> <<>>, total |-> 0,
                stood |-> Matching(table, f), entered |-> 0, left |-> 0]
    /\ UNCHANGED <<kind, table, writes>>

Page(rows, n) == SubSeq(rows, (n - 1) * pageLimit + 1,
                        IF n * pageLimit < Len(rows) THEN n * pageLimit ELSE Len(rows))

(* One of a page's queries.                                                *)
Read(query) ==
    CASE query = "rows"  -> [view EXCEPT !.shown = @ \o Page(Listing(table, view.filter), view.page)]
      [] query = "count" -> [view EXCEPT !.total = Cardinality(Matching(table, view.filter))]

(* The client goes on while the total promises more or, where there is     *)
(* none, while pages are full; the audit history has only its first page.  *)
Further(v) == CASE kind = "notifications" -> Len(v.shown) = v.page * pageLimit
                [] kind = "audit"         -> FALSE
                [] OTHER                  -> v.page * pageLimit < v.total

readPage ==
    /\ view.at = "read"
    /\ LET v == Read(Reads(kind)[view.next])
       IN  view' = CASE view.next < Len(Reads(kind)) -> [v EXCEPT !.next = @ + 1]
                     [] view.next = Len(Reads(kind)) /\ Further(v) ->
                            [v EXCEPT !.next = 1, !.page = @ + 1]
                     [] OTHER -> [v EXCEPT !.at = "seen"]
    /\ UNCHANGED <<kind, table, writes>>
-----------------------------------------------------------------------------
(* What the queries of a statistic count.  An escrow's are conditions one  *)
(* after the other, buyer OR seller AND status.                            *)
HowMany(Test(_)) == Cardinality({i \in DOMAIN table : Test(table[i])})

getTransactionStats(own, part) ==
    HowMany(LAMBDA r : (own => r.role = "owner") /\ part \in {"total", r.status})

getEscrowStatistics(own, part) ==
    HowMany(LAMBDA r : \/ own /\ r.role = "buyer"
                       \/ (own => r.role = "seller") /\ part \in {"total", r.status})

getAuditStatistics(own, part) == HowMany(LAMBDA r : part \in {"total", r.status})

getMetricSummary(own, part) == HowMany(LAMBDA r : part \in {"total", r.status})

Part(own, part) == CASE kind = "transactions" -> getTransactionStats(own, part)
                     [] kind = "escrows"      -> getEscrowStatistics(own, part)
                     [] kind = "audit"        -> getAuditStatistics(own, part)
                     [] kind = "metrics"      -> getMetricSummary(own, part)

Parts == {"total"} \cup Statuses

openStatistics(own) ==
    /\ view = Idle
    /\ kind \in {"transactions", "escrows", "audit", "metrics"}
    /\ own => kind \in {"transactions", "escrows"}
    /\ view' = [at |-> "count", own |-> own, unread |-> Parts, parts |-> [part \in Parts |-> 0],
                written |-> writes]
    /\ UNCHANGED <<kind, table, writes>>

(* Transactions and escrows have a query for each part, sent together; the *)
(* others group by status in one, which the summary sends after the total. *)
Together(part) == IF kind \in {"transactions", "escrows"} \/ part = "total" THEN {part} ELSE Statuses

countPart(part) ==
    /\ view.at = "count" /\ part \in view.unread
    /\ kind = "metrics" /\ part # "total" => "total" \notin view.unread
    /\ LET read == Together(part)
       IN  view' = [view EXCEPT
               !.parts = [k \in Parts |-> IF k \in read THEN Part(view.own, k) ELSE @[k]],
               !.unread = @ \ read,
               !.at = IF view.unread = read THEN "counted" ELSE "count"]
    /\ UNCHANGED <<kind, table, writes>>
-----------------------------------------------------------------------------
(* A write, and what a client in the middle of a listing has to bear.      *)
Write(rows) ==
    /\ writes < IF kind = "escrows" THEN MaxEscrowWrites ELSE MaxWrites
    /\ view.at \in {"read", "count"}
    /\ table' = rows
    /\ IF view.at = "read"
       THEN LET before == Matching(table, view.filter)
                after == Matching(rows, view.filter)
            IN  view' = [view EXCEPT !.stood = @ \cap after,
                                     !.entered = @ + Cardinality(after \ before),
                                     !.left = @ + Cardinality(before \ after)]
       ELSE UNCHANGED view
    /\ UNCHANGED kind

insert(r) ==
    /\ Ends(kind) => r.status = "pending" /\ r.joined = 1
    /\ Write(Append(table, r))
    /\ writes' = writes + 1

complete(i) ==
    /\ Ends(kind) /\ table[i].status = "pending"
    /\ Write([table EXCEPT ![i].status = "completed"])
    /\ writes' = writes + 1

(* Up to a cutoff, every metric and each processed event.                  *)
Remaining(cutoff) == SelectSeq(table, LAMBDA r : r.id > cutoff \/ (kind = "events" /\ r.status = "pending"))

deleteOldEvents(cutoff) ==
    /\ kind = "events" /\ Remaining(cutoff) # table
    /\ Write(Remaining(cutoff))
    /\ writes' = writes + Len(table) - Len(Remaining(cutoff))

deleteOldMetrics(cutoff) ==
    /\ kind = "metrics" /\ Remaining(cutoff) # table
    /\ Write(Remaining(cutoff))
    /\ writes' = writes + Len(table) - Len(Remaining(cutoff))

deleteReport(i) ==
    /\ kind = "reports"
    /\ Write(RemoveAt(table, i))
    /\ writes' = writes + 1

Next == \/ \E f \in Filters : openListing(f)
        \/ readPage
        \/ \E own \in BOOLEAN : openStatistics(own)
        \/ \E part \in Parts : countPart(part)
        \/ \E r \in Rows(kind, {MaxRows + writes + 1}) : insert(r)
        \/ \E i \in DOMAIN table : complete(i) \/ deleteReport(i)
        \/ \E cutoff \in 1..MaxRows : deleteOldEvents(cutoff) \/ deleteOldMetrics(cutoff)

Spec == Init /\ [][Next]_vars
-----------------------------------------------------------------------------
Shown == ToSet([i \in DOMAIN view.shown |-> view.shown[i].id])

(* Of the rows that matched all along, a client that turned every page     *)
(* missed no more than there are rows that left the listing meanwhile; of  *)
(* disputes, counted before they are read, also none but for each that     *)
(* came.  No row is shown twice but for one that came.  Where escrows are  *)
(* joined with several rows the newest are shown, and older ones missed.   *)
PagesCover == view.at = "seen" /\ kind # "audit" =>
    LET missed == view.stood \ Shown
        may == view.left + (IF kind = "disputes" THEN view.entered ELSE 0)
        once == \A i \in DOMAIN table : table[i].joined = 1
    IN  /\ once => /\ Cardinality(missed) <= may
                   /\ Len(view.shown) - Cardinality(Shown) <= view.entered
        /\ may = 0 => \A old \in missed, new \in view.stood \cap Shown : old < new

(* The parts of a statistic exceed or fall short of its total by no more   *)
(* than rows were written while they were counted, but for the escrows a   *)
(* user bought: each of their statuses counts them all.                    *)
PartsAddUp == view.at = "counted" =>
    LET parts == view.parts["pending"] + view.parts["completed"]
        total == view.parts["total"]
        written == writes - view.written
        bought == HowMany(LAMBDA r : r.role = "buyer")
    IN  IF view.own /\ kind = "escrows"
        THEN written = 0 => parts = total + bought
        ELSE parts <= total + written /\ total <= parts + written

ListingsAgree == PagesCover /\ PartsAddUp
=============================================================================
