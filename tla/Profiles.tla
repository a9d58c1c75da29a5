------------------------------- MODULE Profiles -------------------------------
(***************************************************************************)
(* What UserService keeps beside a user's account: the profile that the    *)
(* registration adds, the KYC record and the preferences that come with    *)
(* the first request for them.  Each request reads a record, changes a     *)
(* column, and saves the whole.  One user.                                 *)
(***************************************************************************)
EXTENDS Handlers

VARIABLES account,   \* was the user stored?
          records,   \* the user's row of each table
          told       \* history: the rows, had every change reported been made to them alone

vars == <<handlers, account, records, told>>

ProfileColumns == {"name", "picture"}
KycColumns == {"status", "documents"}
PreferenceColumns == {"preferences", "privacy"}
Columns == [profile |-> ProfileColumns, kyc |-> KycColumns, preference |-> PreferenceColumns]
Tables == DOMAIN Columns

Absent == <<>>

(* A column holds the requests that its content comes from.                *)
Changed(row, t, columns, content) ==
    [c \in Columns[t] |-> IF c \in columns THEN content
                          ELSE IF row = Absent THEN {} ELSE row[c]]

Rest == account = FALSE /\ records = [t \in Tables |-> Absent] /\ told = records

Init == HandlersInit /\ Rest
-----------------------------------------------------------------------------
(* The user's name is unique: the second to register it is refused.        *)
register(p) ==
    /\ IF account THEN Request(p, "idle", NoRun) ELSE Request(p, "register", requests + 1)
    /\ account' = TRUE
    /\ UNCHANGED <<records, told>>

createProfile(p) ==
    /\ pc[p] = "register"
    /\ records' = [records EXCEPT !.profile = Changed(Absent, "profile", {"name"}, {run[p]})]
    /\ told' = [told EXCEPT !.profile = records'.profile]
    /\ End(p)
    /\ UNCHANGED account

(* A record is read, and what is to be saved of it made.                   *)
Change(p, t, columns, adds) ==
    LET old == IF adds /\ records[t] # Absent THEN UNION {records[t][c] : c \in columns} ELSE {}
    IN  /\ account
        /\ Request(p, "save", [table |-> t, columns |-> columns, adds |-> adds, by |-> requests + 1,
               new |-> records[t] = Absent,
               copy |-> Changed(records[t], t, columns, old \cup {requests + 1})])
        /\ UNCHANGED <<account, records, told>>

(* A profile is not made here: without one the request is refused.         *)
updateProfile(p, column) ==
    /\ records.profile # Absent
    /\ Change(p, "profile", {column}, FALSE)

submitKyc(p) == Change(p, "kyc", KycColumns, FALSE)

addKycDocument(p) == Change(p, "kyc", {"documents"}, TRUE)

updatePreference(p, column) == Change(p, "preference", {column}, FALSE)

(* A table has one row of a user: a second insertion is refused.           *)
save(p) ==
    /\ pc[p] = "save"
    /\ LET r == run[p]
           t == r.table
           old == IF r.adds /\ told[t] # Absent THEN UNION {told[t][c] : c \in r.columns} ELSE {}
       IN  IF r.new /\ records[t] # Absent THEN UNCHANGED <<records, told>>
           ELSE /\ records' = [records EXCEPT ![t] = r.copy]
                /\ told' = [told EXCEPT ![t] = Changed(@, t, r.columns, old \cup {r.by})]
    /\ End(p)
    /\ UNCHANGED account

fail(p) ==
    /\ faulty
    /\ pc[p] \in {"register", "save"}
    /\ End(p)
    /\ UNCHANGED <<account, records, told>>
-----------------------------------------------------------------------------
Next == \E p \in Procs :
            \/ register(p)
            \/ createProfile(p)
            \/ \E column \in ProfileColumns : updateProfile(p, column)
            \/ submitKyc(p)
            \/ addKycDocument(p)
            \/ \E column \in PreferenceColumns : updatePreference(p, column)
            \/ save(p)
            \/ fail(p)

Spec == Init /\ [][Next]_vars
-----------------------------------------------------------------------------
TypeOK ==
    /\ account \in BOOLEAN
    /\ \A t \in Tables : records[t] = Absent \/ records[t] \in [Columns[t] -> SUBSET (1..requests)]

(* Where handlers do not overlap, the records are what the changes that    *)
(* were reported make of them, whichever others failed; where they do, a   *)
(* save of an older copy may take changes back, but no record is lost.  A  *)
(* user is without a profile only while it registers or where that failed, *)
(* and no later request makes one.                                         *)
RecordsStand ==
    /\ ~overlap => records = told
    /\ \A t \in Tables : (records[t] = Absent) = (told[t] = Absent)
    /\ account /\ records.profile = Absent => faulty \/ \E p \in Procs : pc[p] = "register"
=============================================================================
