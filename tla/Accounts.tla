------------------------------- MODULE Accounts -------------------------------
(***************************************************************************)
(* AuthService, SessionService and the parts of UserService that save the  *)
(* same row, for one account.  Every operation but updateLastLogin reads   *)
(* the whole row, changes its copy and saves the whole copy.               *)
(*                                                                         *)
(* Two-factor codes are left out: nothing stores a secret, so enabling     *)
(* them is always refused.                                                 *)
(***************************************************************************)
EXTENDS Handlers

CONSTANTS Passwords,
          LongPasswords, \* those of 60 characters or more
          maxAttempts

VARIABLES user,          \* the row
          stored,        \* the refresh token in Redis, by its number; 0: none
          issued,        \* tokens issued so far
          told,          \* history: the password last reported as set
          signedOut      \* and whether a sign-out was the last thing reported

session == <<stored, issued>>
history == <<told, signedOut>>
vars == <<handlers, user, session, history>>

(* A token sent by mail is good at the instant it expires ("due"): the     *)
(* lookup compares its expiry with the present for equality.               *)
TokenState == {"none", "early", "due", "late"}
LockState == {"none", "on", "past"}

(* What a password column holds: the text, hashed so often.                *)
AsTyped(text) == [text |-> text, hashes |-> 0]
Hashed(text) == [text |-> text, hashes |-> 1]

NoUser == [status |-> "absent", verified |-> FALSE, verification |-> "none",
           reset |-> "none", password |-> AsTyped("none"), attempts |-> 0, lock |-> "none",
           suspended |-> FALSE]
NoTask == [copy |-> NoUser, set |-> "none", token |-> 0]

(* Nothing registered yet.                                                 *)
Rest == /\ user = NoUser
        /\ told = "none"
        /\ stored = 0
        /\ issued = 0
        /\ signedOut = FALSE

(* Or the seeded account, which is active, but not verified.               *)
Seeded(text) == /\ user = [NoUser EXCEPT !.status = "active", !.password = Hashed(text)]
                /\ told = text
                /\ stored = 0
                /\ issued = 0
                /\ signedOut = FALSE

Init == /\ HandlersInit
        /\ \/ Rest
           \/ \E text \in Passwords \ LongPasswords : Seeded(text)

AskAccount(p, label, r) == Request(p, label, r) /\ UNCHANGED <<user, session, history>>

(* A request that saves a copy of the row it found.                        *)
Saves(p, copy) == user.status # "absent" /\ AskAccount(p, "save", [NoTask EXCEPT !.copy = copy])

(* It has an access token, and JwtStrategy finds the account fit.          *)
Authenticated == issued > 0 /\ user.status = "active" /\ user.lock # "on"
-----------------------------------------------------------------------------
(* Time goes by: tokens fall due and expire, a lock ends.  A copy keeps    *)
(* the age at which it was read, so that saving it may make it younger.    *)
Later(t) == CASE t = "early" -> "due" [] t = "due" -> "late" [] OTHER -> t

lapse ==
    /\ \/ /\ user.verification \in {"early", "due"}
          /\ user' = [user EXCEPT !.verification = Later(@)]
       \/ /\ user.reset \in {"early", "due"}
          /\ user' = [user EXCEPT !.reset = Later(@)]
       \/ /\ user.lock = "on"
          /\ user' = [user EXCEPT !.lock = "past"]
    /\ UNCHANGED <<handlers, session, history>>

(* Redis drops an expired token.                                           *)
expire ==
    /\ stored # 0
    /\ stored' = 0
    /\ UNCHANGED <<handlers, user, issued, history>>
-----------------------------------------------------------------------------
(* Neither the address nor the name is taken; the index on each lets one   *)
(* of two inserts through.                                                 *)
register(p, text) ==
    /\ user.status = "absent"
    /\ AskAccount(p, "insert", [NoTask EXCEPT
           !.copy = [NoUser EXCEPT !.status = "pending", !.verification = "early",
                                   !.password = AsTyped(text)],
           !.set = text])

(* A slip in hashPassword: what is long enough to be a hash is hashed too. *)
HashAgain(c) == [c EXCEPT !.password.hashes = @ + 1]

(* hashPassword, before every insert and update: 60 characters are taken   *)
(* for a hash.                                                             *)
hashPassword(c) ==
    IF c.password.hashes = 0 /\ c.password.text \notin LongPasswords
    THEN [c EXCEPT !.password.hashes = 1] ELSE c

insert(p) ==
    /\ pc[p] = "insert"
    /\ IF user.status = "absent"
       THEN user' = hashPassword(run[p].copy) /\ told' = run[p].set
       ELSE UNCHANGED <<user, told>>
    /\ End(p)
    /\ UNCHANGED <<session, signedOut>>

(* What follows a save is the mail, which changes nothing, or, after the   *)
(* password was found right, the rest of the sign-in.                      *)
save(p) ==
    /\ pc[p] \in {"save", "saveLogin"}
    /\ user' = hashPassword(run[p].copy)
    /\ told' = IF run[p].set = "none" THEN told ELSE run[p].set
    /\ IF pc[p] = "saveLogin" /\ run[p].copy.status = "active"
       THEN Goto(p, "store")
       ELSE End(p)
    /\ UNCHANGED <<session, signedOut>>

verifyEmail(p) ==
    /\ user.verification = "due"
    /\ Saves(p, [user EXCEPT !.verified = TRUE, !.status = "active", !.verification = "none"])

resendVerification(p) ==
    /\ ~user.verified
    /\ Saves(p, [user EXCEPT !.verification = "early"])

forgotPassword(p) == Saves(p, [user EXCEPT !.reset = "early"])

resetLoginAttempts(c) == [c EXCEPT !.attempts = 0, !.lock = "none"]

SavesPassword(p, copy, text) ==
    /\ user.status # "absent"
    /\ AskAccount(p, "save", [NoTask EXCEPT
           !.copy = resetLoginAttempts([copy EXCEPT !.password = AsTyped(text)]),
           !.set = text])

resetPassword(p, text) ==
    /\ user.reset = "due"
    /\ SavesPassword(p, [user EXCEPT !.reset = "none"], text)

(* The current password was given right, which a long one never is.        *)
changePassword(p, text) ==
    /\ Authenticated
    /\ user.password.hashes = 1
    /\ SavesPassword(p, user, text)

(* Of other columns.                                                       *)
updateProfile(p) == Authenticated /\ Saves(p, user)

suspendUser(p) == Saves(p, [user EXCEPT !.suspended = TRUE])
recoverUser(p) == Saves(p, [user EXCEPT !.suspended = FALSE])
-----------------------------------------------------------------------------
(* Attempts go on being counted while the account is locked.               *)
incrementLoginAttempts(c) == [c EXCEPT !.attempts = @ + 1,
                                       !.lock = IF c.attempts + 1 >= maxAttempts THEN "on" ELSE @]

(* validateUser: the password is compared with the copy's, and the count   *)
(* is saved.  login's checks come afterwards; the lock is gone by then.    *)
login(p, text) ==
    /\ user.status # "absent"
    /\ IF user.password = Hashed(text)
       THEN AskAccount(p, "saveLogin", [NoTask EXCEPT !.copy = resetLoginAttempts(user)])
       ELSE AskAccount(p, "save", [NoTask EXCEPT !.copy = incrementLoginAttempts(user)])

(* A refresh with any token that was issued.                               *)
refreshToken(p, token) ==
    /\ user.status # "absent"
    /\ AskAccount(p, "getStored", [NoTask EXCEPT !.token = token])

(* A slip in refreshToken: a token of which none is stored is accepted.    *)
AcceptUnstored(p) ==
    /\ pc[p] = "getStored"
    /\ IF stored \in {0, run[p].token} THEN Goto(p, "store") ELSE End(p)
    /\ UNCHANGED <<user, session, history>>

getRefreshToken(p) ==
    /\ pc[p] = "getStored"
    /\ IF stored = run[p].token THEN Goto(p, "store") ELSE End(p)
    /\ UNCHANGED <<user, session, history>>

(* generateTokens, for a sign-in or a refresh.                             *)
storeRefreshToken(p) ==
    /\ pc[p] = "store"
    /\ issued' = issued + 1
    /\ stored' = issued'
    /\ signedOut' = (signedOut /\ run[p].token # 0)
    /\ End(p)
    /\ UNCHANGED <<user, told>>

(* Three calls of Redis; nothing reads what the first and the last write.  *)
logout(p) == Authenticated /\ AskAccount(p, "blacklist", NoTask)

blacklistToken(p) ==
    /\ pc[p] = "blacklist"
    /\ Goto(p, "invalidate")
    /\ UNCHANGED <<user, session, history>>

invalidateRefreshToken(p) ==
    /\ pc[p] = "invalidate"
    /\ stored' = 0
    /\ signedOut' = TRUE
    /\ End(p)
    /\ UNCHANGED <<user, issued, told>>

(* A rejected call.                                                        *)
fail(p) ==
    /\ faulty
    /\ pc[p] # "idle"
    /\ End(p)
    /\ UNCHANGED <<user, session, history>>
-----------------------------------------------------------------------------
Next == \/ lapse
        \/ expire
        \/ \E p \in Procs :
              \/ \E text \in Passwords : \/ register(p, text)
                                         \/ resetPassword(p, text)
                                         \/ changePassword(p, text)
                                         \/ login(p, text)
              \/ verifyEmail(p)
              \/ resendVerification(p)
              \/ forgotPassword(p)
              \/ updateProfile(p)
              \/ suspendUser(p)
              \/ recoverUser(p)
              \/ \E token \in 1..issued : refreshToken(p, token)
              \/ logout(p)
              \/ insert(p)
              \/ save(p)
              \/ getRefreshToken(p)
              \/ storeRefreshToken(p)
              \/ blacklistToken(p)
              \/ invalidateRefreshToken(p)
              \/ fail(p)

Spec == Init /\ [][Next]_vars
-----------------------------------------------------------------------------
UserRow == [status : {"absent", "pending", "active"}, verified : BOOLEAN,
            verification : TokenState, reset : TokenState,
            password : [text : Passwords \cup {"none"}, hashes : {0, 1}],
            attempts : Nat, lock : LockState, suspended : BOOLEAN]

TypeOK ==
    /\ signedOut \in BOOLEAN
    /\ user \in UserRow
    /\ stored \in 0..issued
    /\ \A p \in Procs : pc[p] # "idle" =>
          run[p] \in [copy : UserRow, set : Passwords \cup {"none"}, token : 0..issued]
    /\ told \in Passwords \cup {"none"}

(* Whatever stale copies are saved, the row is coherent: as many failed    *)
(* attempts as maxAttempts come with a lock, fewer without, and a verified *)
(* account is active.                                                      *)
RowCoherent ==
    /\ user.attempts >= maxAttempts <=> user.lock # "none"
    /\ user.verified => user.status = "active"

(* The password last reported as set is the one the row holds, hashed once *)
(* however often the row was saved since, as long as requests do not       *)
(* overlap.                                                                *)
PasswordStands == ~overlap => user.password =
    IF told \in LongPasswords \cup {"none"} THEN AsTyped(told) ELSE Hashed(told)

(* Once a sign-out was reported no refresh token is stored before the next *)
(* sign-in, as long as requests do not overlap.                            *)
SignedOutStays == ~overlap /\ signedOut => stored = 0
=============================================================================
