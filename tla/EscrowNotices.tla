------------------------------ MODULE EscrowNotices ------------------------------
(***************************************************************************)
(* EscrowNotificationService: what happens to an escrow is told to its     *)
(* buyer, its seller or both, a row for one after a row for the other, and *)
(* each then sent to the user's sockets.  Nobody ever joins a user's room  *)
(* (the gateway's handlers are not subscribed to any message), so the row  *)
(* is all a user can find.                                                 *)
(***************************************************************************)
EXTENDS Handlers, Sequences

CONSTANTS Kinds   \* the kinds of notices of a run

VARIABLES notices \* the rows, without the text

vars == <<handlers, notices>>

Parties == {"buyer", "seller"}

AboutMilestones == [milestone_created    |-> {<<"seller">>},
                    milestone_started    |-> {<<"buyer">>},
                    milestone_submitted  |-> {<<"buyer">>},
                    milestone_approved   |-> {<<"seller">>},
                    milestone_rejected   |-> {<<"seller">>},
                    milestone_completed  |-> {<<"buyer", "seller">>}]

(* About a deadline the one who has to meet it is told, about a dispute    *)
(* the one who did not raise it.                                           *)
AboutEnds == [funds_released        |-> {<<"seller", "buyer">>},
              escrow_completed      |-> {<<"buyer", "seller">>},
              escrow_cancelled      |-> {<<"buyer", "seller">>},
              deadline_approaching  |-> {<<"buyer">>, <<"seller">>},
              dispute_raised        |-> {<<"buyer">>, <<"seller">>}]

(* Who is told of each kind of event, and who first.                       *)
Addressees ==
    [kind \in {"escrow_created", "escrow_funded"} \cup DOMAIN AboutMilestones \cup DOMAIN AboutEnds |->
        CASE kind = "escrow_created"          -> {<<"buyer", "seller">>}
          [] kind = "escrow_funded"           -> {<<"seller">>}
          [] kind \in DOMAIN AboutMilestones -> AboutMilestones[kind]
          [] kind \in DOMAIN AboutEnds       -> AboutEnds[kind]]

Rest == notices = {}

Init == HandlersInit /\ Rest
-----------------------------------------------------------------------------
(* Events are numbered by the request that tells them.                     *)
send(p, kind, users) ==
    /\ users \in Addressees[kind]
    /\ Request(p, "tell", [event |-> requests + 1, kind |-> kind, users |-> users])
    /\ UNCHANGED notices

createAndSendNotifications(p) ==
    /\ pc[p] = "tell"
    /\ LET user == Head(run[p].users)
           left == Tail(run[p].users)
       IN /\ notices' = notices \cup {[event |-> run[p].event, kind |-> run[p].kind,
                                       user |-> user, isRead |-> FALSE]}
          /\ IF left = <<>> THEN End(p) ELSE GotoWith(p, "tell", [run[p] EXCEPT !.users = left])

(* A rejected save ends the telling where it is.                           *)
tellingFails(p) ==
    /\ faulty
    /\ pc[p] = "tell"
    /\ End(p)
    /\ UNCHANGED notices

Read(which) == {[n EXCEPT !.isRead = n.isRead \/ n \in which] : n \in notices}

markNotificationAsRead(p, notice) ==
    /\ notice \in notices
    /\ Request(p, "read", [which |-> {notice}])
    /\ UNCHANGED notices

markAllNotificationsAsRead(p, user) ==
    /\ Request(p, "readAll", [user |-> user])
    /\ UNCHANGED notices

(* The update finds the rows itself, when it runs.                         *)
update(p) ==
    /\ \/ pc[p] = "read" /\ notices' = Read({n \in notices : \E m \in run[p].which :
                                                 m.event = n.event /\ m.user = n.user})
       \/ pc[p] = "readAll" /\ notices' = Read({n \in notices : n.user = run[p].user})
    /\ End(p)

Next == \E p \in Procs :
            \/ \E kind \in Kinds : \E users \in Addressees[kind] : send(p, kind, users)
            \/ createAndSendNotifications(p)
            \/ tellingFails(p)
            \/ \E notice \in notices : markNotificationAsRead(p, notice)
            \/ \E user \in Parties : markAllNotificationsAsRead(p, user)
            \/ update(p)

Spec == Init /\ [][Next]_vars
-----------------------------------------------------------------------------
Told(event) == {n.user : n \in {m \in notices : m.event = event}}

TypeOK == notices \subseteq [event : 1..MaxRequests, kind : Kinds, user : Parties, isRead : BOOLEAN]

(* However notices and reads of them interleave, the users told of an      *)
(* event are the first of its addressees: all of them once the telling is  *)
(* over and no call failed, and each with one row, read or unread.         *)
ToldInOrder ==
    \A n \in notices :
        /\ \E users \in Addressees[n.kind] :
               /\ n.user \in {users[i] : i \in DOMAIN users}
               /\ \E k \in DOMAIN users : Told(n.event) = {users[i] : i \in 1..k}
               /\ ~faulty /\ Idle => Told(n.event) = {users[i] : i \in DOMAIN users}
        /\ \A m \in notices : m.event = n.event /\ m.user = n.user => m = n
=============================================================================
