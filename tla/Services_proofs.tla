---------------------------- MODULE Services_proofs ----------------------------
(***************************************************************************)
(* Theorems about the services around the escrow, for any handlers in      *)
(* flight and any bounds on what they are asked: that the rows of each     *)
(* keep their types and agree, and what the accounts, the rate limits, the *)
(* audit trail, the metrics and the gateway promise beyond that.           *)
(***************************************************************************)
EXTENDS Services, TLAPS, FiniteSetTheorems, SequenceTheorems, WellFoundedInduction

-----------------------------------------------------------------------------
(* What handlers do, whichever service they belong to.                     *)

Frame == /\ pc = [p \in Procs |-> pc[p]]
         /\ run = [p \in Procs |-> run[p]]
         /\ ~overlap => \A p, q \in Procs : pc[p] # "idle" /\ pc[q] # "idle" => p = q

(* Handler p goes to a label, knowing r; the others stand.                 *)
Moves(p, label, r) ==
    /\ pc'[p] = label /\ run'[p] = r
    /\ \A q \in Procs \ {p} : pc'[q] = pc[q] /\ run'[q] = run[q]
    /\ UNCHANGED setting

LEMMA MovesFrame ==
    ASSUME Frame, NEW p \in Procs, NEW label, NEW r,
           pc' = [pc EXCEPT ![p] = label], run' = [run EXCEPT ![p] = r], UNCHANGED setting,
           overlap \/ Idle \/ pc[p] # "idle" \/ label = "idle"
    PROVE  Frame' /\ Moves(p, label, r)
  <1>1. Moves(p, label, r)
    BY DEF Frame, Moves
  <1>2. pc' = [q \in Procs |-> pc'[q]] /\ run' = [q \in Procs |-> run'[q]]
    BY DEF Frame
  <1>3. ~overlap' => \A q, s \in Procs : pc'[q] # "idle" /\ pc'[s] # "idle" => q = s
    BY <1>1 DEF Frame, Moves, Idle, setting
  <1> QED
    BY <1>1, <1>2, <1>3 DEF Frame

LEMMA NothingMoves ==
    ASSUME Frame, UNCHANGED handlers
    PROVE  Frame'
  BY DEF Frame, handlers, setting
-----------------------------------------------------------------------------
(* Accounts.                                                               *)

LEMMA FrameInit ==
    ASSUME HandlersInit
    PROVE  Frame /\ \A p \in Procs : pc[p] = "idle"
  BY DEF HandlersInit, Frame

Calm == ~overlap /\ ~faulty

AccountLabels == {"idle", "insert", "save", "saveLogin", "getStored", "store", "blacklist",
                  "invalidate"}

(* What the column holds of a password that was reported as set.           *)
Held(text) == IF text \in LongPasswords \cup {"none"} THEN A!AsTyped(text) ELSE A!Hashed(text)

Coherent(row) == /\ row.attempts >= maxAttempts <=> row.lock # "none"
                 /\ row.verified => row.status = "active"

Task == [copy : A!UserRow, set : Passwords \cup {"none"}, token : 0..issued]

(* A copy about to be saved: coherent, and with the password to be set as  *)
(* it was typed, or else, unless another handler saved one meanwhile, the  *)
(* one the row holds.                                                      *)
Saved(p) == pc[p] \in {"insert", "save", "saveLogin"} =>
    /\ Coherent(run[p].copy)
    /\ run[p].set # "none" => run[p].copy.password = A!AsTyped(run[p].set)
    /\ pc[p] = "insert" => run[p].set # "none"
    /\ pc[p] # "insert" => told # "none"
    /\ pc[p] # "insert" /\ run[p].set = "none" /\ ~overlap => run[p].copy.password = user.password

(* A refresh has a token, and gets on only if that one is stored.          *)
Refreshed(p) ==
    /\ pc[p] = "getStored" => run[p].token # 0
    /\ pc[p] = "saveLogin" => run[p].token = 0
    /\ pc[p] = "store" /\ run[p].token # 0 /\ ~overlap => ~signedOut

AccountsInv ==
    /\ Frame
    /\ A!TypeOK
    /\ issued \in Nat
    /\ pc \in [Procs -> AccountLabels]
    /\ user.status # "absent" => told # "none"
    /\ A!RowCoherent
    /\ ~overlap => user.password = Held(told)
    /\ ~overlap /\ signedOut => stored = 0
    /\ \A p \in Procs : Saved(p) /\ Refreshed(p)

LEMMA NoUserType == A!NoUser \in A!UserRow /\ Coherent(A!NoUser)
  BY ConstantsAssumption
  DEF A!NoUser, A!UserRow, A!TokenState, A!LockState, A!AsTyped, Coherent

LEMMA CoherentRow == A!RowCoherent <=> Coherent(user)
  BY DEF A!RowCoherent, Coherent

LEMMA NoTaskWith ==
    ASSUME NEW c, NEW s, NEW t
    PROVE  /\ [A!NoTask EXCEPT !.copy = c] = [copy |-> c, set |-> "none", token |-> 0]
           /\ [A!NoTask EXCEPT !.copy = c, !.set = s] = [copy |-> c, set |-> s, token |-> 0]
           /\ [A!NoTask EXCEPT !.token = t] = [copy |-> A!NoUser, set |-> "none", token |-> t]
  <1>1. /\ [A!NoTask EXCEPT !.copy = c] = [copy |-> c, set |-> "none", token |-> 0]
        /\ [A!NoTask EXCEPT !.token = t] = [copy |-> A!NoUser, set |-> "none", token |-> t]
    BY DEF A!NoTask
  <1>2. [A!NoTask EXCEPT !.copy = c, !.set = s] = [[A!NoTask EXCEPT !.copy = c] EXCEPT !.set = s]
    OBVIOUS
  <1>3. [[copy |-> c, set |-> "none", token |-> 0] EXCEPT !.set = s]
            = [copy |-> c, set |-> s, token |-> 0]
    OBVIOUS
  <1> QED
    BY <1>1, <1>2, <1>3

(* A slip of one hash is hashed, what is hashed already or long stays.     *)
LEMMA HashedRow ==
    ASSUME NEW c \in A!UserRow
    PROVE  LET h == A!hashPassword(c) IN
           /\ h \in A!UserRow
           /\ h.status = c.status
           /\ Coherent(c) => Coherent(h)
           /\ h.password = IF c.password.hashes = 0 /\ c.password.text \notin LongPasswords
                           THEN A!Hashed(c.password.text) ELSE c.password
  <1> DEFINE typed == c.password.hashes = 0 /\ c.password.text \notin LongPasswords
  <1>1. CASE ~ typed
    BY <1>1 DEF A!hashPassword
  <1>2. CASE typed
    <2>1. c.password \in [text : Passwords \cup {"none"}, hashes : {0, 1}]
      BY DEF A!UserRow
    <2>2. A!hashPassword(c) = [c EXCEPT !.password = [c.password EXCEPT !.hashes = 1]]
      BY <1>2 DEF A!hashPassword
    <2>3. [c.password EXCEPT !.hashes = 1] = A!Hashed(c.password.text)
      BY <2>1 DEF A!Hashed
    <2>4. A!Hashed(c.password.text) \in [text : Passwords \cup {"none"}, hashes : {0, 1}]
      BY <2>1 DEF A!Hashed
    <2> DEFINE w == A!Hashed(c.password.text)
    <2>5. A!hashPassword(c) = [c EXCEPT !.password = w]
      BY <2>2, <2>3
    <2> HIDE DEF w
    <2>6. [c EXCEPT !.password = w] \in A!UserRow
      BY <2>4 DEF A!UserRow, w
    <2>7. /\ [c EXCEPT !.password = w].status = c.status
          /\ [c EXCEPT !.password = w].attempts = c.attempts
          /\ [c EXCEPT !.password = w].lock = c.lock
          /\ [c EXCEPT !.password = w].verified = c.verified
          /\ [c EXCEPT !.password = w].password = w
      BY DEF A!UserRow
    <2> QED
      BY <1>2, <2>5, <2>6, <2>7 DEF Coherent, w
  <1> QED
    BY <1>1, <1>2
LEMMA ResetRow ==
    ASSUME NEW row \in A!UserRow
    PROVE  LET c == A!resetLoginAttempts(row) IN
           /\ c \in A!UserRow /\ c.password = row.password /\ c.status = row.status
           /\ Coherent(row) => Coherent(c)
  <1> DEFINE d == [row EXCEPT !.attempts = 0]
             c == [d EXCEPT !.lock = "none"]
  <1>1. A!resetLoginAttempts(row) = c
    BY DEF A!resetLoginAttempts
  <1>2. /\ d \in A!UserRow /\ d.password = row.password /\ d.status = row.status
        /\ d.verified = row.verified /\ d.attempts = 0
    BY DEF A!UserRow
  <1> HIDE DEF d
  <1>3. /\ c \in A!UserRow /\ c.password = d.password /\ c.status = d.status
        /\ c.verified = d.verified /\ c.attempts = d.attempts /\ c.lock = "none"
    BY <1>2 DEF A!UserRow, A!LockState
  <1>4. Coherent(row) => Coherent(c)
    BY <1>2, <1>3, ConstantsAssumption DEF Coherent
  <1> HIDE DEF c
  <1> QED
    BY <1>1, <1>2, <1>3, <1>4

(* What is asked of an account, before the first await of its handler.     *)
Asks(p, label, c, s, t) ==
    A!AskAccount(p, label, [copy |-> c, set |-> s, token |-> t])

LEMMA Asked ==
    ASSUME AccountsInv, NEW p \in Procs,
           NEW label \in {"insert", "save", "saveLogin", "getStored", "blacklist"},
           NEW c \in A!UserRow, NEW s \in Passwords \cup {"none"}, NEW t \in 0..issued,
           Asks(p, label, c, s, t), Coherent(c),
           s # "none" => c.password = A!AsTyped(s),
           label = "insert" => s # "none",
           label \in {"save", "saveLogin"} => user.status # "absent",
           label \in {"save", "saveLogin"} /\ s = "none" => c.password = user.password,
           label = "getStored" => t # 0, label = "saveLogin" => t = 0
    PROVE  AccountsInv'
  <1> DEFINE r == [copy |-> c, set |-> s, token |-> t]
  <1>1. /\ UNCHANGED <<user, stored, issued, told, signedOut>>
        /\ pc' = [pc EXCEPT ![p] = label] /\ run' = [run EXCEPT ![p] = r] /\ UNCHANGED setting
        /\ overlap \/ Idle
    BY
    DEF Asks, A!AskAccount, A!Request, A!MayStart, A!Idle, Idle, A!session,
        A!history,
           A!setting, setting
  <1>2. Frame' /\ Moves(p, label, r)
    BY <1>1, MovesFrame DEF AccountsInv
  <1>3. overlap' = overlap
    BY <1>1 DEF setting
  <1>4. pc' \in [Procs -> AccountLabels]
    BY <1>1 DEF AccountsInv, AccountLabels
  <1>5. r \in Task
    BY DEF Task
  <1>6. A!TypeOK'
    BY <1>1, <1>2, <1>5 DEF AccountsInv, A!TypeOK, Task, Moves
  <1>7. Saved(p)' /\ Refreshed(p)'
    BY <1>1, <1>2, <1>3 DEF Saved, Refreshed, AccountsInv, Moves
  <1>8. ASSUME NEW q \in Procs \ {p}
        PROVE  Saved(q)' /\ Refreshed(q)'
    BY <1>1, <1>2, <1>3 DEF Saved, Refreshed, AccountsInv, Moves
  <1> QED
    BY <1>1, <1>2, <1>3, <1>4, <1>6, <1>7, <1>8 DEF AccountsInv, A!RowCoherent, Held

(* Each request, by the copy it makes.                                     *)
LEMMA RequestKeeps ==
    ASSUME AccountsInv, NEW p \in Procs,
           \/ \E text \in Passwords : \/ A!register(p, text)
                                      \/ A!resetPassword(p, text)
                                      \/ A!changePassword(p, text)
                                      \/ A!login(p, text)
           \/ A!verifyEmail(p)
           \/ A!resendVerification(p)
           \/ A!forgotPassword(p)
           \/ A!updateProfile(p)
           \/ A!suspendUser(p)
           \/ A!recoverUser(p)
           \/ \E token \in 1..issued : A!refreshToken(p, token)
           \/ A!logout(p)
    PROVE  AccountsInv'
  <1>1. user \in A!UserRow /\ Coherent(user) /\ 0 \in 0..issued /\ issued \in Nat
    BY CoherentRow DEF AccountsInv, A!TypeOK
  <1>2. A!NoUser \in A!UserRow /\ Coherent(A!NoUser)
    BY NoUserType
  <1>3. ASSUME NEW label \in {"save", "saveLogin"}, NEW c \in A!UserRow, Coherent(c),
               c.password = user.password, user.status # "absent",
               A!AskAccount(p, label, [A!NoTask EXCEPT !.copy = c])
        PROVE  AccountsInv'
    <2>1. Asks(p, label, c, "none", 0)
      BY <1>3, NoTaskWith DEF Asks
    <2> QED
      BY <1>1, <1>3, <2>1, Asked
  <1>4. ASSUME NEW c \in A!UserRow, Coherent(c), c.password = user.password,
               A!Saves(p, c)
        PROVE  AccountsInv'
    BY <1>3, <1>4 DEF A!Saves
  <1>5. ASSUME NEW text \in Passwords, NEW d \in A!UserRow, Coherent(d),
               A!SavesPassword(p, d, text)
        PROVE  AccountsInv'
    <2> DEFINE w == A!AsTyped(text)
               e == [d EXCEPT !.password = w]
               c == A!resetLoginAttempts(e)
    <2>1. w \in [text : Passwords \cup {"none"}, hashes : {0, 1}]
      BY DEF A!AsTyped
    <2>2. e \in A!UserRow /\ e.password = w /\ e.verified = d.verified /\ e.status = d.status
      BY <2>1 DEF A!UserRow
    <2>a. e.attempts = d.attempts /\ e.lock = d.lock
      BY DEF A!UserRow
    <2> HIDE DEF e, w
    <2>3. Coherent(e)
      BY <1>5, <2>a, <2>2 DEF Coherent
    <2>4. c \in A!UserRow /\ c.password = w /\ Coherent(c)
      BY <2>2, <2>3, ResetRow
    <2>6. Asks(p, "save", c, text, 0) /\ user.status # "absent"
      BY <1>5, NoTaskWith DEF Asks, A!SavesPassword, e, w
    <2> HIDE DEF c
    <2> QED
      BY <1>1, <2>4, <2>6, ConstantsAssumption, Asked DEF w
  <1>6. ASSUME NEW text \in Passwords, A!register(p, text)
        PROVE  AccountsInv'
    <2> DEFINE w == A!AsTyped(text)
               c == [A!NoUser EXCEPT !.status = "pending", !.verification = "early",
                                     !.password = w]
    <2>1. w \in [text : Passwords \cup {"none"}, hashes : {0, 1}]
      BY DEF A!AsTyped
    <2> HIDE DEF w
    <2>2. /\ c \in A!UserRow /\ c.password = w /\ c.verified = FALSE
          /\ c.attempts = 0 /\ c.lock = "none"
      BY <1>2, <2>1 DEF A!UserRow, A!NoUser, A!TokenState
    <2>3. Coherent(c)
      BY <2>2, ConstantsAssumption DEF Coherent
    <2>4. Asks(p, "insert", c, text, 0)
      BY <1>6, NoTaskWith DEF Asks, A!register, w
    <2> HIDE DEF c
    <2> QED
      BY <1>1, <2>2, <2>3, <2>4, ConstantsAssumption, Asked DEF w
  <1>7. ASSUME NEW text \in Passwords, A!resetPassword(p, text)
        PROVE  AccountsInv'
    <2>1. [user EXCEPT !.reset = "none"] \in A!UserRow
      BY <1>1 DEF A!UserRow, A!TokenState
    <2>2. Coherent([user EXCEPT !.reset = "none"])
      BY <1>1 DEF Coherent, A!UserRow
    <2> QED
      BY <1>5, <1>7, <2>1, <2>2 DEF A!resetPassword
  <1>8. ASSUME NEW text \in Passwords, A!changePassword(p, text)
        PROVE  AccountsInv'
    BY <1>1, <1>5, <1>8 DEF A!changePassword
  <1>9. ASSUME NEW text \in Passwords, A!login(p, text)
        PROVE  AccountsInv'
    <2>1. CASE user.password = A!Hashed(text)
      <3> DEFINE c == A!resetLoginAttempts(user)
      <3>1. c \in A!UserRow /\ c.password = user.password /\ Coherent(c)
        BY <1>1, ResetRow
      <3>4. /\ A!AskAccount(p, "saveLogin", [A!NoTask EXCEPT !.copy = c])
            /\ user.status # "absent"
        BY <1>9, <2>1 DEF A!login
      <3> HIDE DEF c
      <3> QED
        BY <1>3, <3>1, <3>4
    <2>2. CASE user.password # A!Hashed(text)
      <3> DEFINE c == A!incrementLoginAttempts(user)
                 n == user.attempts + 1
                 k == IF user.attempts + 1 >= maxAttempts THEN "on" ELSE user.lock
      <3>0. n \in Nat /\ k \in A!LockState
        BY <1>1 DEF A!UserRow, A!LockState
      <3>1. c = [[user EXCEPT !.attempts = n] EXCEPT !.lock = k]
        BY <1>1 DEF A!incrementLoginAttempts, A!UserRow
      <3>a. (n >= maxAttempts <=> k # "none")
        BY <1>1, ConstantsAssumption DEF Coherent, A!UserRow, A!LockState
      <3> HIDE DEF n, k
      <3>2. /\ c \in A!UserRow /\ c.password = user.password /\ c.verified = user.verified
            /\ c.status = user.status /\ c.attempts = n /\ c.lock = k
        BY <1>1, <3>0, <3>1 DEF A!UserRow
      <3>3. Coherent(c)
        BY <1>1, <3>2, <3>a DEF Coherent
      <3>4. /\ A!AskAccount(p, "save", [A!NoTask EXCEPT !.copy = c])
            /\ user.status # "absent"
        BY <1>9, <2>2 DEF A!login
      <3> HIDE DEF c
      <3> QED
        BY <1>3, <3>2, <3>3, <3>4
    <2> QED
      BY <2>1, <2>2
  <1>10. CASE A!verifyEmail(p)
    <2> DEFINE c == [user EXCEPT !.verified = TRUE, !.status = "active", !.verification = "none"]
    <2>1. /\ c \in A!UserRow /\ c.password = user.password /\ c.status = "active"
          /\ c.attempts = user.attempts /\ c.lock = user.lock
      BY <1>1 DEF A!UserRow, A!TokenState
    <2>2. Coherent(c)
      BY <1>1, <2>1 DEF Coherent
    <2>3. A!Saves(p, c)
      BY <1>10 DEF A!verifyEmail
    <2> HIDE DEF c
    <2> QED
      BY <1>4, <2>1, <2>2, <2>3
  <1>11. ASSUME NEW c, c \in {[user EXCEPT !.verification = "early"],
                              [user EXCEPT !.reset = "early"], user,
                              [user EXCEPT !.suspended = TRUE],
                              [user EXCEPT !.suspended = FALSE]},
                A!Saves(p, c)
         PROVE  AccountsInv'
    <2>1. c \in A!UserRow /\ c.password = user.password /\ Coherent(c)
      BY <1>1, <1>11 DEF A!UserRow, A!TokenState, Coherent
    <2> QED
      BY <1>4, <1>11, <2>1
  <1>12. CASE \/ A!resendVerification(p)
              \/ A!forgotPassword(p)
              \/ A!updateProfile(p)
              \/ A!suspendUser(p)
              \/ A!recoverUser(p)
    BY <1>11, <1>12
    DEF A!resendVerification, A!forgotPassword, A!updateProfile, A!suspendUser,
                        A!recoverUser
  <1>13. ASSUME NEW token \in 1..issued, A!refreshToken(p, token)
         PROVE  AccountsInv'
    <2>1. Asks(p, "getStored", A!NoUser, "none", token)
      BY <1>13, NoTaskWith DEF Asks, A!refreshToken
    <2>2. token \in 0..issued /\ token # 0
      BY <1>1
    <2> QED
      BY <1>2, <2>1, <2>2, Asked
  <1>14. CASE A!logout(p)
    <2>1. Asks(p, "blacklist", A!NoUser, "none", 0)
      BY <1>14 DEF Asks, A!logout, A!NoTask
    <2> QED
      BY <1>1, <1>2, <2>1, Asked
  <1> QED
    BY <1>6, <1>7, <1>8, <1>9, <1>10, <1>12, <1>13, <1>14
(* A step that is not a request leaves the other handlers as they were.    *)
LEMMA OthersKeep ==
    ASSUME AccountsInv, NEW p \in Procs, NEW label \in AccountLabels, NEW r,
           pc' = [pc EXCEPT ![p] = label], run' = [run EXCEPT ![p] = r], UNCHANGED setting,
           pc[p] # "idle",
           issued' \in Nat, issued <= issued', told' # "none" \/ told' = told
    PROVE  /\ Frame' /\ Moves(p, label, r)
           /\ pc' \in [Procs -> AccountLabels]
           /\ \A q \in Procs \ {p} : /\ pc'[q] # "idle" => run'[q] \in Task'
                                     /\ Saved(q)'
                                     /\ Refreshed(q)'
  <1>1. Frame' /\ Moves(p, label, r)
    BY MovesFrame DEF AccountsInv
  <1>2. pc' \in [Procs -> AccountLabels]
    BY DEF AccountsInv
  <1>3. overlap' = overlap
    BY DEF setting
  <1>4. ASSUME NEW q \in Procs \ {p}
        PROVE  /\ pc'[q] # "idle" => run'[q] \in Task'
               /\ Saved(q)'
               /\ Refreshed(q)'
    <2>1. pc'[q] = pc[q] /\ run'[q] = run[q]
      BY <1>1 DEF Moves
    <2>2. ~overlap => pc[q] = "idle"
      BY DEF AccountsInv, Frame
    <2>3. pc[q] # "idle" => run[q] \in Task
      BY DEF AccountsInv, A!TypeOK, Task
    <2>4. run[q] \in Task => run[q] \in Task'
      BY DEF Task, AccountsInv
    <2>5. Saved(q) /\ Refreshed(q)
      BY DEF AccountsInv
    <2> QED
      BY <1>3, <2>1, <2>2, <2>3, <2>4, <2>5 DEF Saved, Refreshed
  <1> QED
    BY <1>1, <1>2, <1>4

LEMMA InsertKeeps ==
    ASSUME AccountsInv, NEW p \in Procs, A!insert(p)
    PROVE  AccountsInv'
  <1> DEFINE c == run[p].copy
             h == A!hashPassword(c)
  <1>1. /\ pc[p] = "insert" /\ issued' = issued /\ stored' = stored /\ signedOut' = signedOut
        /\ pc' = [pc EXCEPT ![p] = "idle"] /\ run' = [run EXCEPT ![p] = NoRun]
        /\ UNCHANGED setting
    BY DEF A!insert, A!End, A!GotoWith, A!session, A!setting, setting, A!NoRun, NoRun
  <1>2. run[p] \in Task /\ Saved(p)
    BY <1>1 DEF AccountsInv, A!TypeOK, Task
  <1>3. c \in A!UserRow /\ run[p].set \in Passwords /\ run[p].set # "none"
    BY <1>1, <1>2, ConstantsAssumption DEF Task, Saved
  <1>4. Coherent(c) /\ c.password = A!AsTyped(run[p].set)
    BY <1>1, <1>2, <1>3 DEF Saved
  <1>5. h \in A!UserRow /\ Coherent(h) /\ h.password = Held(run[p].set)
    BY <1>3, <1>4, HashedRow DEF Held, A!AsTyped
  <1>6. \/ user.status = "absent" /\ user' = h /\ told' = run[p].set
        \/ user.status # "absent" /\ user' = user /\ told' = told
    BY DEF A!insert
  <1> HIDE DEF h
  <1>7. /\ Frame' /\ Moves(p, "idle", NoRun)
        /\ pc' \in [Procs -> AccountLabels]
        /\ \A q \in Procs \ {p} : /\ pc'[q] # "idle" => run'[q] \in Task'
                                  /\ Saved(q)'
                                  /\ Refreshed(q)'
    <2>1. issued' \in Nat /\ issued <= issued' /\ (told' # "none" \/ told' = told)
      BY <1>1, <1>3, <1>6 DEF AccountsInv
    <2>2. "idle" \in AccountLabels
      BY DEF AccountLabels
    <2> QED
      BY <1>1, <2>1, <2>2, OthersKeep
  <1>8. Saved(p)' /\ Refreshed(p)' /\ pc'[p] = "idle"
    BY <1>7 DEF Moves, Saved, Refreshed
  <1>9. A!TypeOK'
    BY <1>1, <1>3, <1>5, <1>6, <1>7, <1>8 DEF AccountsInv, A!TypeOK, Task
  <1>10. overlap' = overlap
    BY <1>1 DEF setting
  <1>11. A!RowCoherent'
    BY <1>5, <1>6, CoherentRow DEF A!RowCoherent, Coherent, AccountsInv
  <1>12. /\ user'.status # "absent" => told' # "none"
         /\ ~overlap' => user'.password = Held(told')
         /\ ~overlap' /\ signedOut' => stored' = 0
    BY <1>1, <1>3, <1>5, <1>6, <1>10 DEF AccountsInv
  <1>13. Held(told)' = Held(told')
    BY DEF Held
  <1> QED
    BY <1>1, <1>7, <1>8, <1>9, <1>11, <1>12, <1>13 DEF AccountsInv

LEMMA SaveKeeps ==
    ASSUME AccountsInv, NEW p \in Procs, A!save(p)
    PROVE  AccountsInv'
  <1> DEFINE c == run[p].copy
             h == A!hashPassword(c)
             s == run[p].set
  <1>1. /\ pc[p] \in {"save", "saveLogin"}
        /\ issued' = issued /\ stored' = stored /\ signedOut' = signedOut
    BY DEF A!save, A!session
  <1>2. run[p] \in Task /\ Saved(p)
    BY <1>1 DEF AccountsInv, A!TypeOK, Task
  <1>3. c \in A!UserRow /\ s \in Passwords \cup {"none"} /\ run[p].token \in 0..issued
    BY <1>2 DEF Task
  <1>4. Coherent(c) /\ told # "none" /\ (s # "none" => c.password = A!AsTyped(s))
    BY <1>1, <1>2 DEF Saved
  <1>5. h \in A!UserRow /\ Coherent(h)
    BY <1>3, <1>4, HashedRow
  <1>6. user' = h /\ told' = IF s = "none" THEN told ELSE s
    BY DEF A!save
  <1>7. told' \in Passwords /\ told' # "none"
    BY <1>3, <1>4, <1>6, ConstantsAssumption DEF AccountsInv, A!TypeOK
  <1>8. ASSUME ~ overlap
        PROVE  h.password = Held(told')
    <2>1. CASE s # "none"
      BY <1>3, <1>4, <1>6, <2>1, HashedRow DEF Held, A!AsTyped
    <2>2. CASE s = "none"
      <3>1. c.password = Held(told) /\ told' = told
        BY <1>1, <1>2, <1>6, <1>8, <2>2 DEF Saved, AccountsInv
      <3>2. CASE told \in LongPasswords
        <4>1. c.password.text \in LongPasswords
          BY <3>1, <3>2 DEF Held, A!AsTyped
        <4> QED
          BY <1>3, <3>1, <4>1, HashedRow
      <3>3. CASE told \notin LongPasswords
        <4>1. c.password.hashes = 1
          BY <1>4, <3>1, <3>3 DEF Held, A!Hashed
        <4> QED
          BY <1>3, <3>1, <4>1, HashedRow
      <3> QED
        BY <3>2, <3>3
    <2> QED
      BY <2>1, <2>2
  <1> HIDE DEF h
  <1> DEFINE Stepped(label, r) ==
               /\ label \in {"idle", "store"}
               /\ pc' = [pc EXCEPT ![p] = label] /\ run' = [run EXCEPT ![p] = r]
               /\ UNCHANGED setting
               /\ label = "store" => r = run[p] /\ pc[p] = "saveLogin"
  <1>9. PICK label, r : Stepped(label, r)
    <2>1. CASE pc[p] = "saveLogin" /\ c.status = "active"
      <3>1. /\ pc' = [pc EXCEPT ![p] = "store"] /\ run' = [run EXCEPT ![p] = run[p]]
            /\ UNCHANGED setting
        BY <2>1 DEF A!save, A!Goto, A!setting, setting, AccountsInv, Frame
      <3>2. Stepped("store", run[p])
        BY <2>1, <3>1
      <3> HIDE DEF Stepped
      <3> QED
        BY <3>2
    <2>2. CASE ~(pc[p] = "saveLogin" /\ c.status = "active")
      <3>1. /\ pc' = [pc EXCEPT ![p] = "idle"] /\ run' = [run EXCEPT ![p] = NoRun]
            /\ UNCHANGED setting
        BY <2>2 DEF A!save, A!End, A!GotoWith, A!setting, setting, A!NoRun, NoRun
      <3>2. Stepped("idle", NoRun)
        BY <3>1
      <3> HIDE DEF Stepped
      <3> QED
        BY <3>2
    <2> QED
      BY <2>1, <2>2
  <1>10. /\ Frame' /\ Moves(p, label, r)
         /\ pc' \in [Procs -> AccountLabels]
         /\ \A q \in Procs \ {p} : /\ pc'[q] # "idle" => run'[q] \in Task'
                                   /\ Saved(q)'
                                   /\ Refreshed(q)'
    <2>1. issued' \in Nat /\ issued <= issued'
      BY <1>1 DEF AccountsInv
    <2>2. label \in AccountLabels /\ pc[p] # "idle"
      BY <1>1, <1>9 DEF AccountLabels
    <2> QED
      BY <1>7, <1>9, <2>1, <2>2, OthersKeep
  <1>11. overlap' = overlap
    BY <1>9 DEF setting
  <1>12. pc'[p] # "idle" => run'[p] \in Task'
    BY <1>1, <1>2, <1>9, <1>10 DEF Moves, Task
  <1>13. Saved(p)'
    BY <1>9, <1>10 DEF Moves, Saved
  <1>14. Refreshed(p)'
    <2>1. pc[p] = "saveLogin" => run[p].token = 0
      BY DEF AccountsInv, Refreshed
    <2> QED
      BY <1>1, <1>9, <1>10, <2>1 DEF Moves, Refreshed
  <1>15. A!TypeOK'
    BY <1>1, <1>5, <1>6, <1>7, <1>10, <1>12 DEF AccountsInv, A!TypeOK, Task
  <1>16. A!RowCoherent'
    BY <1>5, <1>6 DEF A!RowCoherent, Coherent
  <1>17. /\ ~overlap' => user'.password = Held(told')
         /\ ~overlap' /\ signedOut' => stored' = 0
    BY <1>1, <1>6, <1>8, <1>11 DEF AccountsInv
  <1>18. Held(told)' = Held(told')
    BY DEF Held
  <1> QED
    BY <1>1, <1>7, <1>10, <1>13, <1>14, <1>15, <1>16, <1>17, <1>18 DEF AccountsInv

(* Handling tokens, or being cut off.                                      *)
LEMMA TokenStepKeeps ==
    ASSUME AccountsInv, NEW p \in Procs,
           \/ A!getRefreshToken(p)
           \/ A!storeRefreshToken(p)
           \/ A!blacklistToken(p)
           \/ A!invalidateRefreshToken(p)
           \/ A!fail(p)
    PROVE  AccountsInv'
  <1>1. user' = user /\ told' = told /\ pc[p] # "idle" /\ issued' \in {issued, issued + 1}
    BY
    DEF A!getRefreshToken, A!storeRefreshToken, A!blacklistToken,
        A!invalidateRefreshToken, A!fail, A!session, A!history
  <1>2. PICK label, r :
           /\ label \in {"idle", "store", "invalidate"}
           /\ pc' = [pc EXCEPT ![p] = label] /\ run' = [run EXCEPT ![p] = r]
           /\ UNCHANGED setting
           /\ label # "idle" => r = run[p] /\ UNCHANGED <<stored, issued, signedOut>>
           /\ label = "store" => pc[p] = "getStored" /\ stored = run[p].token
    <2>1. ASSUME A!End(p)
          PROVE  /\ pc' = [pc EXCEPT ![p] = "idle"] /\ run' = [run EXCEPT ![p] = NoRun]
                 /\ UNCHANGED setting
      BY <2>1 DEF A!End, A!GotoWith, A!setting, setting, A!NoRun, NoRun
    <2>2. ASSUME NEW l, A!Goto(p, l)
          PROVE  /\ pc' = [pc EXCEPT ![p] = l] /\ run' = [run EXCEPT ![p] = run[p]]
                 /\ UNCHANGED setting
      BY <2>2 DEF A!Goto, A!setting, setting, AccountsInv, Frame
    <2>3. CASE A!End(p)
      BY <2>1, <2>3
    <2>4. CASE /\ A!Goto(p, "store") /\ pc[p] = "getStored" /\ stored = run[p].token
               /\ UNCHANGED <<stored, issued, signedOut>>
      BY <2>2, <2>4
    <2>5. CASE A!Goto(p, "invalidate") /\ UNCHANGED <<stored, issued, signedOut>>
      BY <2>2, <2>5
    <2> QED
      BY <2>3, <2>4, <2>5
      DEF A!getRefreshToken, A!storeRefreshToken, A!blacklistToken,
          A!invalidateRefreshToken, A!fail, A!session, A!history
  <1>3. /\ Frame' /\ Moves(p, label, r)
        /\ pc' \in [Procs -> AccountLabels]
        /\ \A q \in Procs \ {p} : /\ pc'[q] # "idle" => run'[q] \in Task'
                                  /\ Saved(q)'
                                  /\ Refreshed(q)'
    <2>1. issued' \in Nat /\ issued <= issued'
      BY <1>1 DEF AccountsInv
    <2>2. label \in AccountLabels
      BY <1>2 DEF AccountLabels
    <2> QED
      BY <1>1, <1>2, <2>1, <2>2, OthersKeep
  <1>4. overlap' = overlap
    BY <1>2 DEF setting
  <1>5. run[p] \in Task /\ Refreshed(p)
    BY <1>1 DEF AccountsInv, A!TypeOK, Task
  <1>6. pc'[p] # "idle" => run'[p] \in Task'
    BY <1>1, <1>2, <1>3, <1>5 DEF Moves, Task
  <1>7. Saved(p)'
    BY <1>2, <1>3 DEF Moves, Saved
  <1>8. Refreshed(p)'
    BY <1>2, <1>3, <1>4, <1>5 DEF Moves, Refreshed, AccountsInv
  <1>9. /\ stored' \in 0..issued' /\ signedOut' \in BOOLEAN
        /\ ~overlap' /\ signedOut' => stored' = 0
    <2>1. CASE A!storeRefreshToken(p)
      <3>1. /\ pc[p] = "store" /\ issued' = issued + 1 /\ stored' = issued'
            /\ signedOut' = (signedOut /\ run[p].token # 0)
        BY <2>1 DEF A!storeRefreshToken
      <3>2. ~overlap => ~signedOut'
        BY <1>5, <3>1 DEF Refreshed
      <3>3. signedOut' \in BOOLEAN
        BY <3>1
      <3> QED
        BY <1>4, <3>1, <3>2, <3>3 DEF AccountsInv
    <2>2. CASE A!invalidateRefreshToken(p)
      BY <2>2 DEF A!invalidateRefreshToken, AccountsInv, A!TypeOK
    <2>3. CASE A!getRefreshToken(p) \/ A!blacklistToken(p) \/ A!fail(p)
      <3>1. UNCHANGED <<stored, issued, signedOut>>
        BY <2>3 DEF A!getRefreshToken, A!blacklistToken, A!fail, A!session, A!history
      <3> QED
        BY <1>4, <3>1 DEF AccountsInv, A!TypeOK
    <2> QED
      BY <2>1, <2>2, <2>3
  <1>10. A!TypeOK'
    BY <1>1, <1>3, <1>6, <1>9 DEF AccountsInv, A!TypeOK, Task
  <1>11. issued' \in Nat
    BY <1>1 DEF AccountsInv
  <1> QED
    BY <1>1, <1>3, <1>4, <1>7, <1>8, <1>9, <1>10, <1>11
    DEF AccountsInv, A!RowCoherent, Held

(* Time, and Redis.                                                        *)
LEMMA TimeKeeps ==
    ASSUME AccountsInv, A!lapse \/ A!expire
    PROVE  AccountsInv'
  <1>1. UNCHANGED <<handlers, issued, told, signedOut>>
    BY
    DEF A!lapse, A!expire, A!handlers, A!setting, handlers, setting, A!session,
        A!history
  <1>2. Frame' /\ overlap' = overlap /\ pc' = pc /\ run' = run
    BY <1>1, NothingMoves DEF AccountsInv, handlers, setting
  <1>3. user' \in A!UserRow /\ user'.password = user.password /\ user'.status = user.status
    BY DEF A!lapse, A!expire, AccountsInv, A!TypeOK, A!UserRow, A!Later, A!TokenState,
           A!LockState
  <1>4. A!RowCoherent'
    BY DEF A!lapse, A!expire, AccountsInv, A!TypeOK, A!UserRow, A!RowCoherent, A!Later
  <1>5. stored' \in {0, stored}
    BY DEF A!lapse, A!expire, A!session
  <1>6. A!TypeOK'
    BY <1>1, <1>2, <1>3, <1>5 DEF AccountsInv, A!TypeOK
  <1>7. \A p \in Procs : Saved(p)' /\ Refreshed(p)'
    BY <1>1, <1>2, <1>3 DEF AccountsInv, Saved, Refreshed
  <1> QED
    BY <1>1, <1>2, <1>3, <1>4, <1>5, <1>6, <1>7 DEF AccountsInv, Held

LEMMA AccountsStep ==
    ASSUME AccountsInv, A!Next
    PROVE  AccountsInv'
  BY RequestKeeps, InsertKeeps, SaveKeeps, TokenStepKeeps, TimeKeeps DEF A!Next
-----------------------------------------------------------------------------
(* The audit trail.                                                        *)

LEMMA AccountsInit ==
    ASSUME HandlersInit,
           A!Rest \/ \E text \in Passwords \ LongPasswords : A!Seeded(text)
    PROVE  AccountsInv
  <1>1. Frame /\ (\A p \in Procs : pc[p] = "idle") /\ pc \in [Procs -> AccountLabels]
    BY FrameInit DEF HandlersInit, AccountLabels
  <1>2. \A p \in Procs : pc[p] # "idle" => run[p] \in Task
    BY <1>1
  <1>3. \A p \in Procs : Saved(p) /\ Refreshed(p)
    BY <1>1 DEF Saved, Refreshed
  <1>4. CASE A!Rest
    <2>1. A!TypeOK
      <3>1. user \in A!UserRow /\ told = "none" /\ stored = 0 /\ issued = 0 /\ signedOut = FALSE
        BY <1>4, NoUserType DEF A!Rest
      <3>2. told \in Passwords \cup {"none"} /\ stored \in 0..issued
        BY <3>1
      <3>3. signedOut \in BOOLEAN
        BY <3>1
      <3> QED
        BY <1>2, <3>1, <3>2, <3>3 DEF A!TypeOK, Task
    <2>2. A!RowCoherent
      BY <1>4, NoUserType, CoherentRow DEF A!Rest
    <2>3. user.status = "absent" /\ user.password = A!AsTyped("none") /\ told = "none"
      BY <1>4 DEF A!Rest, A!NoUser
    <2> QED
      BY <1>1, <1>3, <1>4, <2>1, <2>2, <2>3 DEF AccountsInv, A!Rest, Held
  <1>5. CASE \E text \in Passwords \ LongPasswords : A!Seeded(text)
    <2>1. PICK text \in Passwords \ LongPasswords : A!Seeded(text)
      BY <1>5
    <2>2. user = [[A!NoUser EXCEPT !.status = "active"] EXCEPT !.password = A!Hashed(text)]
      BY <2>1 DEF A!Seeded
    <2>3. PICK row : row = [A!NoUser EXCEPT !.status = "active"]
      OBVIOUS
    <2>4. row \in A!UserRow /\ row.status = "active" /\ Coherent(row)
      BY <2>3, NoUserType DEF A!UserRow, A!NoUser, Coherent
    <2>5. A!Hashed(text) \in [text : Passwords \cup {"none"}, hashes : {0, 1}]
      BY <2>1 DEF A!Hashed
    <2>6. /\ user \in A!UserRow /\ user.status = "active" /\ Coherent(user)
          /\ user.password = A!Hashed(text)
      BY <2>2, <2>3, <2>4, <2>5 DEF A!UserRow, Coherent
    <2>7. told = text /\ told # "none" /\ told \in Passwords /\ told \notin LongPasswords
          /\ stored = 0 /\ issued = 0 /\ signedOut = FALSE
      BY <2>1, ConstantsAssumption DEF A!Seeded
    <2>8. A!TypeOK /\ A!RowCoherent
      <3>1. told \in Passwords \cup {"none"} /\ stored \in 0..issued
        BY <2>7
      <3>3. signedOut \in BOOLEAN
        BY <2>7
      <3>4. A!RowCoherent
        BY <2>6, CoherentRow
      <3> QED
        BY <1>2, <2>6, <3>1, <3>3, <3>4 DEF A!TypeOK, Task
    <2> QED
      BY <1>1, <1>3, <2>6, <2>7, <2>8 DEF AccountsInv, Held
  <1> QED
    BY <1>4, <1>5

LEMMA AccountsStand ==
    ASSUME AccountsInv, UNCHANGED <<handlers, accountsVars>>
    PROVE  AccountsInv'
  <1>1. Frame' /\ pc' = pc /\ run' = run /\ overlap' = overlap
    BY NothingMoves DEF AccountsInv, handlers, setting
  <1>2. UNCHANGED <<user, stored, issued, told, signedOut>>
    BY DEF accountsVars
  <1>3. A!TypeOK' /\ A!RowCoherent'
    BY <1>1, <1>2 DEF AccountsInv, A!TypeOK, A!RowCoherent
  <1>4. \A p \in Procs : Saved(p)' /\ Refreshed(p)'
    BY <1>1, <1>2 DEF AccountsInv, Saved, Refreshed
  <1> QED
    BY <1>1, <1>2, <1>3, <1>4 DEF AccountsInv, Held

(* Logs about to be saved as followers of the hash h.                      *)
Holders(h) == {p \in Procs : pc[p] = "save" /\ run[p].previousHash = h}

Width == Cardinality(Procs)
Borne(h) == Cardinality(T!Bearers(h))
Followed(h) == Cardinality(T!Followers(h))
Awaited(h) == Cardinality(Holders(h))

(* Each time a hash becomes the latest every handler can find it once      *)
(* before another entry does; until then none of them has saved what       *)
(* follows.                                                                *)
Forks == /\ \A h : h # T!NoHash => Followed(h) + Awaited(h) <= Width * Borne(h)
         /\ \A h : trail # <<>> /\ h = trail[Len(trail)].hash =>
                Followed(h) <= Width * (Borne(h) - 1)

Chained == ~overlap =>
    /\ \A i \in 2..Len(trail) : trail[i].previousHash = trail[i - 1].hash
    /\ \A p \in Procs : pc[p] = "save" => run[p].previousHash = T!previousHash

Rows == /\ \E Z : trail \in Seq(Z)
        /\ \A i \in DOMAIN trail : trail[i].hash # T!NoHash

AuditInv == Frame /\ (untouched => Rows /\ Chained /\ Forks)

LEMMA Counts ==
    ASSUME Rows, NEW h
    PROVE  /\ Width \in Nat
           /\ IsFiniteSet(Holders(h)) /\ Awaited(h) \in Nat /\ Awaited(h) <= Width
           /\ IsFiniteSet(T!Bearers(h)) /\ Borne(h) \in Nat
           /\ IsFiniteSet(T!Followers(h)) /\ Followed(h) \in Nat
           /\ Len(trail) \in Nat /\ DOMAIN trail = 1..Len(trail)
  <1>1. Len(trail) \in Nat /\ DOMAIN trail = 1..Len(trail)
    BY LenProperties DEF Rows
  <1>2. IsFiniteSet(1..Len(trail))
    BY <1>1, FS_Interval
  <1>3. T!Bearers(h) \subseteq 1..Len(trail) /\ T!Followers(h) \subseteq 1..Len(trail)
    BY <1>1 DEF T!Bearers, T!Followers
  <1>4. IsFiniteSet(T!Bearers(h)) /\ IsFiniteSet(T!Followers(h))
    BY <1>2, <1>3, FS_Subset
  <1>5. IsFiniteSet(Procs) /\ Holders(h) \subseteq Procs
    BY ConstantsAssumption DEF Holders
  <1>6. IsFiniteSet(Holders(h)) /\ Cardinality(Holders(h)) <= Cardinality(Procs)
    BY <1>5, FS_Subset
  <1>7. /\ Cardinality(Procs) \in Nat /\ Cardinality(Holders(h)) \in Nat
        /\ Cardinality(T!Bearers(h)) \in Nat /\ Cardinality(T!Followers(h)) \in Nat
    BY <1>4, <1>5, <1>6, FS_CardinalityType
  <1> QED
    BY <1>1, <1>4, <1>6, <1>7 DEF Width, Awaited, Borne, Followed

LEMMA AwaitedLater ==
    ASSUME NEW h
    PROVE  IsFiniteSet(Holders(h)') /\ Awaited(h)' \in Nat /\ Awaited(h)' <= Width
  <1>1. IsFiniteSet(Procs) /\ Holders(h)' \subseteq Procs
    BY ConstantsAssumption DEF Holders
  <1>2. IsFiniteSet(Holders(h)') /\ Cardinality(Holders(h)') <= Cardinality(Procs)
    BY <1>1, FS_Subset
  <1> QED
    BY <1>2, FS_CardinalityType DEF Awaited, Width

(* A step that saves nothing, where no handler but one that finds the      *)
(* latest entry comes to hold anything.                                    *)
LEMMA AuditHandlerKeeps ==
    ASSUME AuditInv, NEW p \in Procs,
           \/ \E u \in Users, entry \in Entries : T!intercept(p, u, entry)
           \/ T!findLatest(p)
           \/ T!fail(p)
    PROVE  AuditInv'
  <1>1. UNCHANGED <<trail, untouched>>
    BY DEF T!intercept, T!findLatest, T!fail
  <1> DEFINE Stepped(label, r) ==
               /\ pc' = [pc EXCEPT ![p] = label] /\ run' = [run EXCEPT ![p] = r]
               /\ UNCHANGED setting
               /\ overlap \/ Idle \/ pc[p] # "idle" \/ label = "idle"
               /\ pc[p] # "save" \/ label = "idle"
               /\ label = "save" => r.previousHash = T!previousHash
  <1>2. PICK label, r : Stepped(label, r)
    <2>1. CASE \E u \in Users, entry \in Entries : T!intercept(p, u, entry)
      <3>1. PICK r : T!Request(p, "latest", r)
        BY <2>1 DEF T!intercept
      <3>2. /\ pc' = [pc EXCEPT ![p] = "latest"] /\ run' = [run EXCEPT ![p] = r]
            /\ UNCHANGED setting /\ pc[p] = "idle" /\ (overlap \/ Idle)
        BY <3>1 DEF T!Request, T!MayStart, T!Idle, Idle, T!setting, setting
      <3>3. Stepped("latest", r)
        BY <3>2
      <3> HIDE DEF Stepped
      <3> QED
        BY <3>3
    <2>2. CASE T!findLatest(p)
      <3> DEFINE r == [user |-> run[p].user, entry |-> run[p].entry, timestamp |-> T!Unstamped,
                       previousHash |-> T!previousHash]
      <3>1. r.previousHash = T!previousHash
        OBVIOUS
      <3>2. /\ pc' = [pc EXCEPT ![p] = "save"] /\ run' = [run EXCEPT ![p] = r]
            /\ UNCHANGED setting /\ pc[p] = "latest"
        BY <2>2 DEF T!findLatest, T!GotoWith, T!setting, setting
      <3> HIDE DEF r
      <3>3. Stepped("save", r)
        BY <3>1, <3>2
      <3> HIDE DEF Stepped
      <3> QED
        BY <3>3
    <2>3. CASE T!fail(p)
      <3>1. PICK r : r = T!NoRun
        OBVIOUS
      <3>2. /\ pc' = [pc EXCEPT ![p] = "idle"] /\ run' = [run EXCEPT ![p] = r]
            /\ UNCHANGED setting
        BY <2>3, <3>1 DEF T!fail, T!End, T!GotoWith, T!setting, setting
      <3>3. Stepped("idle", r)
        BY <3>2
      <3> HIDE DEF Stepped
      <3> QED
        BY <3>3
    <2> QED
      BY <2>1, <2>2, <2>3
  <1>3. Frame' /\ Moves(p, label, r)
    BY <1>2, MovesFrame DEF AuditInv
  <1>4. overlap' = overlap
    BY <1>2 DEF setting
  <1> SUFFICES ASSUME untouched
               PROVE  Rows' /\ Chained' /\ Forks'
    BY <1>1, <1>3 DEF AuditInv
  <1>5. Rows /\ Chained /\ Forks
    BY DEF AuditInv
  <1>6. Rows'
    BY <1>1, <1>5 DEF Rows
  <1>7. Chained'
    BY <1>1, <1>2, <1>3, <1>4, <1>5 DEF Chained, Moves, T!previousHash
  <1>8. ASSUME NEW h
        PROVE  Followed(h)' = Followed(h) /\ Borne(h)' = Borne(h)
    BY <1>1 DEF Followed, Borne, T!Followers, T!Bearers
  <1>9. ASSUME NEW h, h # T!NoHash
        PROVE  Followed(h)' + Awaited(h)' <= Width * Borne(h)'
    <2>1. /\ Followed(h) \in Nat /\ Awaited(h) \in Nat /\ Borne(h) \in Nat /\ Width \in Nat
          /\ Awaited(h)' \in Nat /\ Awaited(h)' <= Width
      BY <1>5, Counts, AwaitedLater
    <2>2. CASE label = "save" /\ T!previousHash = h
      <3>1. trail # <<>> /\ h = trail[Len(trail)].hash
        BY <1>9, <2>2 DEF T!previousHash, T!NoHash
      <3>2. Followed(h) <= Width * (Borne(h) - 1)
        BY <1>5, <3>1 DEF Forks
      <3>3. Width * (Borne(h) - 1) = Width * Borne(h) - Width
        BY <2>1
      <3>4. Width * Borne(h) \in Nat
        BY <2>1
      <3> HIDE DEF Width
      <3> QED
        BY <1>8, <2>1, <3>2, <3>3, <3>4
    <2>3. CASE ~(label = "save" /\ T!previousHash = h)
      <3>1. Holders(h)' \subseteq Holders(h)
        BY <1>2, <1>3, <2>3 DEF Holders, Moves
      <3>2. Cardinality(Holders(h)') <= Cardinality(Holders(h))
        BY <1>5, <3>1, Counts, FS_Subset
      <3>3. Awaited(h)' <= Awaited(h)
        BY <3>2 DEF Awaited
      <3>4. Followed(h) + Awaited(h) <= Width * Borne(h)
        BY <1>5, <1>9 DEF Forks
      <3>5. Width * Borne(h) \in Nat
        BY <2>1
      <3> QED
        BY <1>8, <2>1, <3>3, <3>4, <3>5
    <2> QED
      BY <2>2, <2>3
  <1>10. Forks'
    <2>1. ASSUME NEW h, trail' # <<>>, h = trail'[Len(trail')].hash
          PROVE  Followed(h)' <= Width * (Borne(h)' - 1)
      BY <1>1, <1>5, <1>8, <2>1 DEF Forks
    <2> QED
      BY <1>9, <2>1 DEF Forks, Width
  <1> QED
    BY <1>6, <1>7, <1>10

(* Saving a log adds its row at the end.                                   *)
LEMMA RowAppended ==
    ASSUME Rows, NEW p \in Procs, T!saveLog(p)
    PROVE  /\ Len(trail') = Len(trail) + 1
           /\ DOMAIN trail' = 1..(Len(trail) + 1)
           /\ \A i \in DOMAIN trail : trail'[i] = trail[i]
           /\ trail'[Len(trail) + 1].previousHash = run[p].previousHash
           /\ trail'[Len(trail) + 1].hash = T!computeHash(run[p])
           /\ T!computeHash(run[p]) # T!NoHash
           /\ Rows'
  <1> DEFINE k == T!computeHash(run[p])
             row == [user |-> run[p].user, entry |-> run[p].entry, timestamp |-> stamp',
                     previousHash |-> run[p].previousHash, hash |-> k]
  <1>1. trail' = Append(trail, row)
    BY DEF T!saveLog
  <1>2. row.previousHash = run[p].previousHash /\ row.hash = k
    OBVIOUS
  <1>3. k # T!NoHash
    BY DEF T!computeHash, T!NoHash
  <1> HIDE DEF row, k
  <1>4. PICK Z : trail \in Seq(Z)
    BY DEF Rows
  <1> DEFINE Z1 == Z \cup {row}
  <1>5. Z \subseteq Z1 /\ row \in Z1
    OBVIOUS
  <1> HIDE DEF Z1
  <1>6. trail \in Seq(Z1)
    BY <1>4, <1>5, SeqMonotonic
  <1>7. /\ Append(trail, row) \in Seq(Z1)
        /\ Len(Append(trail, row)) = Len(trail) + 1
        /\ \A i \in 1..Len(trail) : Append(trail, row)[i] = trail[i]
        /\ Append(trail, row)[Len(trail) + 1] = row
    BY <1>5, <1>6, AppendProperties
  <1>8. /\ Len(trail) \in Nat /\ DOMAIN trail = 1..Len(trail)
        /\ DOMAIN trail' = 1..Len(trail')
    BY <1>1, <1>6, <1>7, LenProperties
  <1>9. \E Y : trail' \in Seq(Y)
    BY <1>1, <1>7
  <1>10. \A i \in DOMAIN trail' : trail'[i].hash # T!NoHash
    <2>1. ASSUME NEW i \in DOMAIN trail'
          PROVE  trail'[i].hash # T!NoHash
      <3>1. i \in DOMAIN trail \/ i = Len(trail) + 1
        BY <1>1, <1>7, <1>8, <2>1
      <3> QED
        BY <1>1, <1>2, <1>3, <1>7, <1>8, <3>1 DEF Rows
    <2> QED
      BY <2>1
  <1> QED
    BY <1>1, <1>2, <1>3, <1>7, <1>8, <1>9, <1>10 DEF Rows, k

(* What a saved log changes of the counts of each hash.                    *)
LEMMA SavedCounts ==
    ASSUME Rows, NEW p \in Procs, T!saveLog(p), Moves(p, "idle", T!NoRun), NEW h
    PROVE  /\ Borne(h)' = Borne(h) + (IF h = T!computeHash(run[p]) THEN 1 ELSE 0)
           /\ Followed(h)' = Followed(h) + (IF h = run[p].previousHash THEN 1 ELSE 0)
           /\ Awaited(h)' = Awaited(h) - (IF h = run[p].previousHash THEN 1 ELSE 0)
           /\ h = run[p].previousHash => Awaited(h) >= 1
  <1> DEFINE n == Len(trail)
             k == T!computeHash(run[p])
             g == run[p].previousHash
  <1>1. /\ DOMAIN trail' = 1..(n + 1) /\ DOMAIN trail = 1..n /\ n \in Nat
        /\ \A i \in 1..n : trail'[i] = trail[i]
        /\ trail'[n + 1].previousHash = g /\ trail'[n + 1].hash = k
    BY RowAppended, Counts
  <1>2. /\ IsFiniteSet(T!Bearers(h)) /\ IsFiniteSet(T!Followers(h)) /\ IsFiniteSet(Holders(h))
        /\ Borne(h) \in Nat /\ Followed(h) \in Nat /\ Awaited(h) \in Nat
    BY Counts
  <1>3. pc[p] = "save"
    BY DEF T!saveLog
  <1> HIDE DEF n, k, g
  <1>4. /\ T!Bearers(h)' = IF h = k THEN T!Bearers(h) \cup {n + 1} ELSE T!Bearers(h)
        /\ n + 1 \notin T!Bearers(h)
    BY <1>1 DEF T!Bearers
  <1>5. /\ T!Followers(h)' = IF h = g THEN T!Followers(h) \cup {n + 1} ELSE T!Followers(h)
        /\ n + 1 \notin T!Followers(h)
    BY <1>1 DEF T!Followers
  <1>6. /\ Holders(h)' = IF h = g THEN Holders(h) \ {p} ELSE Holders(h)
        /\ h = g => p \in Holders(h)
    <2>1. h = g => p \in Holders(h)
      BY <1>3 DEF Holders, g
    <2>2. h # g => p \notin Holders(h)
      BY DEF Holders, g
    <2>3. p \notin Holders(h)'
      BY DEF Holders, Moves
    <2>4. \A q \in Procs \ {p} : q \in Holders(h)' <=> q \in Holders(h)
      BY DEF Holders, Moves
    <2>5. Holders(h) \subseteq Procs /\ Holders(h)' \subseteq Procs
      BY DEF Holders
    <2> QED
      BY <2>1, <2>2, <2>3, <2>4, <2>5
  <1>7. Borne(h)' = Borne(h) + (IF h = k THEN 1 ELSE 0)
    <2>1. CASE h = k
      BY <1>2, <1>4, <2>1, FS_AddElement DEF Borne
    <2>2. CASE h # k
      BY <1>2, <1>4, <2>2 DEF Borne
    <2> QED
      BY <2>1, <2>2
  <1>8. Followed(h)' = Followed(h) + (IF h = g THEN 1 ELSE 0)
    <2>1. CASE h = g
      BY <1>2, <1>5, <2>1, FS_AddElement DEF Followed
    <2>2. CASE h # g
      BY <1>2, <1>5, <2>2 DEF Followed
    <2> QED
      BY <2>1, <2>2
  <1>9. /\ Awaited(h)' = Awaited(h) - (IF h = g THEN 1 ELSE 0)
        /\ h = g => Awaited(h) >= 1
    <2>1. CASE h = g
      <3>1. Holders(h)' = Holders(h) \ {p} /\ p \in Holders(h)
        BY <1>6, <2>1
      <3>2. Cardinality(Holders(h) \ {p}) = Cardinality(Holders(h)) - 1
        BY <1>2, <3>1, FS_RemoveElement
      <3>3. Cardinality(Holders(h) \ {p}) \in Nat
        BY <1>2, FS_Subset, FS_CardinalityType
      <3> QED
        BY <1>2, <2>1, <3>1, <3>2, <3>3 DEF Awaited
    <2>2. CASE h # g
      BY <1>2, <1>6, <2>2 DEF Awaited
    <2> QED
      BY <2>1, <2>2
  <1> QED
    BY <1>7, <1>8, <1>9 DEF k, g

LEMMA SaveLogKeeps ==
    ASSUME AuditInv, NEW p \in Procs, T!saveLog(p)
    PROVE  AuditInv'
  <1> DEFINE k == T!computeHash(run[p])
             g == run[p].previousHash
  <1>1. /\ pc' = [pc EXCEPT ![p] = "idle"] /\ run' = [run EXCEPT ![p] = T!NoRun]
        /\ UNCHANGED setting /\ pc[p] = "save" /\ untouched' = untouched
    BY DEF T!saveLog, T!End, T!GotoWith, T!setting, setting
  <1>2. Frame' /\ Moves(p, "idle", T!NoRun)
    BY <1>1, MovesFrame DEF AuditInv
  <1>3. overlap' = overlap
    BY <1>1 DEF setting
  <1> SUFFICES ASSUME untouched
               PROVE  Rows' /\ Chained' /\ Forks'
    BY <1>1, <1>2 DEF AuditInv
  <1>4. Rows /\ Chained /\ Forks /\ Frame
    BY DEF AuditInv
  <1>5. /\ Len(trail') = Len(trail) + 1
        /\ DOMAIN trail' = 1..(Len(trail) + 1)
        /\ \A i \in DOMAIN trail : trail'[i] = trail[i]
        /\ trail'[Len(trail) + 1].previousHash = g
        /\ trail'[Len(trail) + 1].hash = k
        /\ k # T!NoHash
        /\ Rows'
    BY <1>4, RowAppended
  <1>6. Len(trail) \in Nat /\ DOMAIN trail = 1..Len(trail) /\ Width \in Nat
    BY <1>4, Counts
  <1>7. Chained'
    <2> SUFFICES ASSUME ~overlap
                 PROVE  /\ \A i \in 2..Len(trail') : trail'[i].previousHash = trail'[i - 1].hash
                        /\ \A q \in Procs : pc'[q] # "save"
      BY <1>3 DEF Chained
    <2>1. \A q \in Procs : pc'[q] # "save"
      BY <1>1, <1>2, <1>4 DEF Frame, Moves
    <2>2. ASSUME NEW i \in 2..Len(trail')
          PROVE  trail'[i].previousHash = trail'[i - 1].hash
      <3>1. CASE i \in 2..Len(trail)
        <4>1. i \in DOMAIN trail /\ i - 1 \in DOMAIN trail
          BY <1>6, <3>1
        <4> QED
          BY <1>4, <1>5, <3>1, <4>1 DEF Chained
      <3>2. CASE i = Len(trail) + 1
        <4>1. i - 1 = Len(trail) /\ i - 1 \in DOMAIN trail /\ trail # <<>>
          BY <1>5, <1>6, <2>2, <3>2
        <4>2. g = T!previousHash
          BY <1>1, <1>4 DEF Chained
        <4> QED
          BY <1>5, <3>2, <4>1, <4>2 DEF T!previousHash
      <3> QED
        BY <1>5, <1>6, <2>2, <3>1, <3>2
    <2> QED
      BY <2>1, <2>2
  <1>8. ASSUME NEW h
        PROVE  /\ Borne(h)' = Borne(h) + (IF h = k THEN 1 ELSE 0)
               /\ Followed(h)' = Followed(h) + (IF h = g THEN 1 ELSE 0)
               /\ Awaited(h)' = Awaited(h) - (IF h = g THEN 1 ELSE 0)
               /\ h = g => Awaited(h) >= 1
               /\ Borne(h) \in Nat /\ Followed(h) \in Nat /\ Awaited(h) \in Nat
               /\ Width * Borne(h) \in Nat
               /\ Width * (Borne(h) + 1) = Width * Borne(h) + Width
    BY <1>2, <1>4, <1>6, SavedCounts, Counts
  <1>9. \A h : h # T!NoHash => Followed(h) + Awaited(h) <= Width * Borne(h)
    BY <1>4 DEF Forks
  <1> HIDE DEF k, g
  <1>10. ASSUME NEW h, h # T!NoHash
         PROVE  Followed(h)' + Awaited(h)' <= Width * Borne(h)'
    <2>1. Followed(h)' + Awaited(h)' = Followed(h) + Awaited(h)
      BY <1>8
    <2>2. Followed(h) + Awaited(h) <= Width * Borne(h)
      BY <1>9, <1>10
    <2>3. Width * Borne(h) <= Width * Borne(h)'
      <3>1. CASE h = k
        BY <1>6, <1>8, <3>1
      <3>2. CASE h # k
        BY <1>6, <1>8, <3>2
      <3> QED
        BY <3>1, <3>2
    <2>4. Width * Borne(h)' \in Nat
      <3>1. Borne(h)' \in Nat
        BY <1>8
      <3> QED
        BY <1>6, <3>1
    <2> QED
      BY <1>8, <2>1, <2>2, <2>3, <2>4
  <1>11. ASSUME NEW h, h = trail'[Len(trail')].hash
         PROVE  Followed(h)' <= Width * (Borne(h)' - 1)
    <2>1. h = k /\ h # T!NoHash
      BY <1>5, <1>11
    <2>2. Followed(h) + Awaited(h) <= Width * Borne(h)
      BY <1>9, <2>1
    <2>3. Followed(h)' <= Followed(h) + Awaited(h)
      BY <1>8
    <2>4. Borne(h)' - 1 = Borne(h)
      BY <1>8, <2>1
    <2> QED
      BY <1>8, <2>2, <2>3, <2>4
  <1>12. Forks'
    BY <1>10, <1>11 DEF Forks, Width
  <1> QED
    BY <1>5, <1>7, <1>12

(* Where rows are taken or changed nothing more is claimed.                *)
LEMMA TouchKeeps ==
    ASSUME AuditInv, NEW w, T!Touch(w)
    PROVE  AuditInv'
  <1>1. UNCHANGED handlers /\ untouched' = FALSE
    BY DEF T!Touch, T!handlers, T!setting, handlers, setting
  <1> QED
    BY <1>1, NothingMoves DEF AuditInv

LEMMA AuditStep ==
    ASSUME AuditInv, T!Next
    PROVE  AuditInv'
  <1>1. CASE \E p \in Procs : \/ \E u \in Users, entry \in Entries : T!intercept(p, u, entry)
                              \/ T!findLatest(p)
                              \/ T!fail(p)
    BY <1>1, AuditHandlerKeeps
  <1>2. CASE \E p \in Procs : T!saveLog(p)
    BY <1>2, SaveLogKeeps
  <1>3. CASE \E u \in Users : T!eraseUserData(u) \/ T!minimizeUserData(u)
    <2>1. PICK w : T!Touch(w)
      BY <1>3 DEF T!eraseUserData, T!minimizeUserData
    <2> QED
      BY <2>1, TouchKeeps
  <1>4. CASE \E cutoff \in 1..stamp : T!purgeOldRecords(cutoff)
    <2>1. PICK w : T!Touch(w)
      BY <1>4 DEF T!purgeOldRecords
    <2> QED
      BY <2>1, TouchKeeps
  <1> QED
    BY <1>1, <1>2, <1>3, <1>4 DEF T!Next

LEMMA AuditInit ==
    ASSUME HandlersInit, T!Rest
    PROVE  AuditInv
  <1>1. Frame /\ \A p \in Procs : pc[p] = "idle"
    BY FrameInit
  <1>2. trail = <<>> /\ trail \in Seq({}) /\ Len(trail) = 0 /\ DOMAIN trail = {}
    BY DEF T!Rest
  <1>3. Rows
    BY <1>2 DEF Rows
  <1>4. Chained
    BY <1>1, <1>2 DEF Chained
  <1>5. ASSUME NEW h
        PROVE  Followed(h) = 0 /\ Awaited(h) = 0 /\ 0 <= Width * Borne(h)
    <2>1. T!Followers(h) = {} /\ Holders(h) = {}
      BY <1>1, <1>2 DEF T!Followers, Holders
    <2>2. Width \in Nat /\ Borne(h) \in Nat
      BY <1>3, Counts
    <2>3. Width * Borne(h) \in Nat
      BY <2>2
    <2> QED
      BY <2>1, <2>3, FS_EmptySet DEF Followed, Awaited
  <1>6. Forks
    BY <1>2, <1>5 DEF Forks
  <1> QED
    BY <1>1, <1>3, <1>4, <1>6 DEF AuditInv

LEMMA AuditStands ==
    ASSUME AuditInv, UNCHANGED <<handlers, auditVars>>
    PROVE  AuditInv'
  <1>1. Frame' /\ pc' = pc /\ run' = run /\ overlap' = overlap
    BY NothingMoves DEF AuditInv, handlers, setting
  <1>2. UNCHANGED <<trail, stamp, untouched>>
    BY DEF auditVars
  <1>3. Rows => Rows'
    BY <1>2 DEF Rows
  <1>4. Chained => Chained'
    BY <1>1, <1>2 DEF Chained, T!previousHash
  <1>5. ASSUME NEW h
        PROVE  Followed(h)' = Followed(h) /\ Borne(h)' = Borne(h) /\ Awaited(h)' = Awaited(h)
    BY <1>1, <1>2 DEF Followed, Borne, Awaited, T!Followers, T!Bearers, Holders
  <1>6. Forks => Forks'
    BY <1>2, <1>5 DEF Forks, Width
  <1> QED
    BY <1>1, <1>2, <1>3, <1>4, <1>6 DEF AuditInv

LEMMA SameCardinality ==
    ASSUME NEW Z
    PROVE  T!Cardinality(Z) = Cardinality(Z)
  BY DEF T!Cardinality, Cardinality

LEMMA TrailForks ==
    ASSUME AuditInv
    PROVE  T!TrailIsChain
  <1> SUFFICES ASSUME untouched
               PROVE  /\ ~overlap => \A i \in 2..Len(trail) :
                            trail[i].previousHash = trail[i - 1].hash
                      /\ \A i \in DOMAIN trail :
                            Cardinality(T!Followers(trail[i].hash))
                                <= Cardinality(Procs) * Cardinality(T!Bearers(trail[i].hash))
    BY SameCardinality DEF T!TrailIsChain
  <1>1. Rows /\ Chained /\ Forks
    BY DEF AuditInv
  <1>2. ASSUME NEW i \in DOMAIN trail
        PROVE  Followed(trail[i].hash) <= Width * Borne(trail[i].hash)
    <2>1. PICK h : h = trail[i].hash
      OBVIOUS
    <2>2. h # T!NoHash
      BY <1>1, <1>2, <2>1 DEF Rows
    <2>3. Followed(h) + Awaited(h) <= Width * Borne(h)
      BY <1>1, <2>2 DEF Forks
    <2>4. /\ Followed(h) \in Nat /\ Awaited(h) \in Nat
          /\ Width * Borne(h) \in Nat
      BY <1>1, Counts
    <2> QED
      BY <2>1, <2>3, <2>4
  <1> QED
    BY <1>1, <1>2 DEF Chained, Followed, Borne, Width

LEMMA LeastExists ==
    ASSUME NEW Z \in SUBSET Nat, Z # {}
    PROVE  \E i \in Z : \A j \in Z : i <= j
  <1>1. PICK i \in Z : \A j \in Z : ~ (<<j, i>> \in OpToRel(<, Nat))
    BY WFMin, NatLessThanWellFounded
  <1>2. ASSUME NEW j \in Z
        PROVE  i <= j
    <2>1. <<j, i>> \in Nat \X Nat
      OBVIOUS
    <2>2. j < i => <<j, i>> \in OpToRel(<, Nat)
      BY <2>1, Zenon DEF OpToRel
    <2>3. ~ (j < i)
      BY <1>1, <2>2, Zenon
    <2> QED
      BY <2>3
  <1> QED
    BY <1>2

(* Rows in the order of their timestamps, none given after the last.       *)
Ordered(t, last) ==
    /\ \E Z : t \in Seq(Z)
    /\ \A i \in 1..Len(t) : /\ {"user", "timestamp"} \subseteq DOMAIN t[i]
                            /\ t[i].user \in Users \cup {"anonymized"}
                            /\ t[i].timestamp \in 1..last
    /\ \A i, j \in 1..Len(t) : i < j => t[i].timestamp < t[j].timestamp

TrailInv == /\ stamp \in Nat /\ untouched \in BOOLEAN
            /\ Ordered(trail, stamp)
            /\ \A p \in Procs : pc[p] \in {"latest", "save"} => run[p].user \in Users

(* The prefixes of what remains of t, up to its n-th row.                  *)
Picks(f, t, kept, n) ==
    f = [i \in 0..n |-> IF i = 0 THEN <<>>
                        ELSE IF i \in kept THEN Append(f[i - 1], t[i])
                        ELSE f[i - 1]]

LEMMA PicksExist ==
    ASSUME NEW t, NEW kept, NEW n \in Nat
    PROVE  \E f : Picks(f, t, kept, n)
  <1> DEFINE Missing == {m \in Nat : ~ \E f : Picks(f, t, kept, m)}
  <1>1. SUFFICES Missing = {}
    OBVIOUS
  <1>2. SUFFICES ASSUME Missing # {}
                 PROVE  FALSE
    OBVIOUS
  <1>3. PICK m \in Missing : \A k \in Missing : m <= k
    BY <1>2, LeastExists
  <1>4. CASE m = 0
    <2>1. PICK f : f = [i \in 0..0 |-> <<>>]
      OBVIOUS
    <2>2. f = [i \in 0..0 |-> IF i = 0 THEN <<>>
                              ELSE IF i \in kept THEN Append(f[i - 1], t[i])
                              ELSE f[i - 1]]
      BY <2>1
    <2> QED
      BY <1>3, <1>4, <2>2 DEF Picks
  <1>5. CASE m # 0
    <2>1. m \in Nat /\ m - 1 \in Nat /\ m - 1 \notin Missing
      BY <1>3, <1>5
    <2>2. PICK f : Picks(f, t, kept, m - 1)
      BY <2>1
    <2>3. PICK g : g = [i \in 0..m |-> IF i < m THEN f[i]
                                       ELSE IF m \in kept THEN Append(f[m - 1], t[m])
                                       ELSE f[m - 1]]
      OBVIOUS
    <2>4. ASSUME NEW i \in 0..m
          PROVE  g[i] = IF i = 0 THEN <<>>
                        ELSE IF i \in kept THEN Append(g[i - 1], t[i])
                        ELSE g[i - 1]
      <3>1. CASE i < m
        <4>1. i \in 0..(m - 1) /\ g[i] = f[i] /\ (i # 0 => g[i - 1] = f[i - 1])
          BY <2>1, <2>3, <3>1
        <4> QED
          BY <2>2, <4>1 DEF Picks
      <3>2. CASE i = m
        BY <1>5, <2>1, <2>3, <3>2
      <3> QED
        BY <2>1, <3>1, <3>2
    <2>5. Picks(g, t, kept, m)
      BY <2>3, <2>4 DEF Picks
    <2> QED
      BY <1>3, <2>5
  <1> QED
    BY <1>4, <1>5

(* What remains of rows in their order is in their order.                  *)
LEMMA PicksOrdered ==
    ASSUME NEW t, NEW last \in Nat, Ordered(t, last), NEW kept, NEW f,
           Picks(f, t, kept, Len(t))
    PROVE  Ordered(f[Len(t)], last)
  <1>1. PICK Z : t \in Seq(Z)
    BY DEF Ordered
  <1>2. Len(t) \in Nat
    BY <1>1, LenProperties
  <1> DEFINE Upto(s, n) == /\ s \in Seq(Z)
                           /\ \A i \in 1..Len(s) : \E k \in 1..n : s[i] = t[k]
                           /\ \A i, j \in 1..Len(s) : i < j => s[i].timestamp < s[j].timestamp
             Wrong == {n \in 0..Len(t) : ~ Upto(f[n], n)}
  <1>3. \A n \in 0..Len(t) : f[n] = IF n = 0 THEN <<>>
                                    ELSE IF n \in kept THEN Append(f[n - 1], t[n])
                                    ELSE f[n - 1]
    BY DEF Picks
  <1>4. Wrong = {}
    <2>1. SUFFICES ASSUME Wrong # {}
                   PROVE  FALSE
      OBVIOUS
    <2>2. PICK n \in Wrong : \A k \in Wrong : n <= k
      <3>1. Wrong \in SUBSET Nat
        BY <1>2
      <3> HIDE DEF Wrong
      <3> QED
        BY <2>1, <3>1, LeastExists
    <2>3. n \in 0..Len(t) /\ ~ Upto(f[n], n)
      BY <2>2
    <2>4. n # 0
      <3>1. n = 0 => f[n] = <<>>
        BY <1>3, <2>3
      <3>2. Upto(<<>>, 0)
        OBVIOUS
      <3> QED
        BY <2>3, <3>1, <3>2
    <2>5. PICK m \in 0..Len(t) : m = n - 1
      BY <1>2, <2>3, <2>4
    <2>6. PICK s : s = f[m]
      OBVIOUS
    <2>7. Upto(s, m)
      BY <1>2, <2>2, <2>3, <2>5, <2>6
    <2>8. n \in 1..Len(t) /\ n \in Nat /\ m \in Nat /\ m < n
      BY <1>2, <2>3, <2>4, <2>5
    <2>9. CASE n \notin kept
      <3>1. f[n] = s
        BY <1>3, <2>3, <2>4, <2>5, <2>6, <2>9
      <3>2. Upto(s, n)
        <4>1. \A k \in 1..m : k \in 1..n
          BY <2>8
        <4> QED
          BY <2>7, <4>1
      <3> QED
        BY <2>3, <3>1, <3>2
    <2>10. CASE n \in kept
      <3>1. f[n] = Append(s, t[n])
        BY <1>3, <2>3, <2>4, <2>5, <2>6, <2>10
      <3>2. t[n] \in Z
        BY <1>1, <2>8
      <3>3. PICK a : a = f[n]
        OBVIOUS
      <3>4. /\ a \in Seq(Z) /\ Len(a) = Len(s) + 1 /\ Len(s) \in Nat
            /\ \A i \in 1..Len(s) : a[i] = s[i]
            /\ a[Len(s) + 1] = t[n]
        BY <2>7, <3>1, <3>2, <3>3, AppendProperties, LenProperties
      <3>5. \A i \in 1..Len(a) : \E k \in 1..n : a[i] = t[k] /\ (i <= Len(s) => k <= m /\ a[i] = s[i])
        <4>1. ASSUME NEW i \in 1..Len(s)
              PROVE  \E k \in 1..n : a[i] = t[k] /\ k <= m /\ a[i] = s[i]
          <5>1. PICK k \in 1..m : s[i] = t[k]
            BY <2>7
          <5>2. k \in 1..n /\ k <= m
            BY <2>8
          <5> QED
            BY <3>4, <5>1, <5>2
        <4>2. n \in 1..n
          BY <2>8
        <4>3. \A i \in 1..Len(a) : i \in 1..Len(s) \/ (i = Len(s) + 1 /\ ~ (i <= Len(s)))
          BY <3>4
        <4> QED
          BY <3>4, <4>1, <4>2, <4>3
      <3>6. ASSUME NEW i \in 1..Len(a), NEW j \in 1..Len(a), i < j
            PROVE  a[i].timestamp < a[j].timestamp
        <4>1. CASE j <= Len(s)
          <5>1. i \in 1..Len(s) /\ j \in 1..Len(s)
            BY <3>4, <3>6, <4>1
          <5> QED
            BY <2>7, <3>4, <3>6, <5>1
        <4>2. CASE j = Len(s) + 1
          <5>1. PICK k \in 1..n : a[i] = t[k] /\ k <= m
            <6>1. i <= Len(s)
              BY <3>4, <3>6, <4>2
            <6> QED
              BY <3>5, <6>1
          <5>2. k \in 1..Len(t) /\ k < n
            BY <2>8, <5>1
          <5> QED
            BY <2>8, <3>4, <4>2, <5>1, <5>2 DEF Ordered
        <4> QED
          BY <3>4, <4>1, <4>2
      <3>7. Upto(a, n)
        BY <3>4, <3>5, <3>6
      <3> QED
        BY <2>3, <3>3, <3>7
    <2> QED
      BY <2>9, <2>10
  <1>5. Len(t) \in 0..Len(t) /\ Len(t) \notin Wrong
    BY <1>2, <1>4
  <1>6. Upto(f[Len(t)], Len(t))
    BY <1>5
  <1> QED
    BY <1>6 DEF Ordered

LEMMA TrailInit ==
    ASSUME HandlersInit, T!Rest
    PROVE  TrailInv
  <1>1. \A p \in Procs : pc[p] = "idle"
    BY FrameInit
  <1>2. trail = <<>> /\ trail \in Seq({}) /\ Len(trail) = 0 /\ stamp = 0 /\ untouched = TRUE
    BY DEF T!Rest, T!Unstamped
  <1>3. Ordered(trail, stamp)
    BY <1>2 DEF Ordered
  <1> QED
    BY <1>1, <1>2, <1>3 DEF TrailInv

LEMMA TrailStands ==
    ASSUME TrailInv, UNCHANGED <<handlers, auditVars>>
    PROVE  TrailInv'
  <1>1. UNCHANGED <<pc, run, trail, stamp, untouched>>
    BY DEF handlers, auditVars
  <1> QED
    BY <1>1 DEF TrailInv, Ordered

(* What handler p knows when it comes to a label is of a user.             *)
LEMMA TrailMoves ==
    ASSUME TrailInv, NEW p \in Procs, NEW label, NEW r, Moves(p, label, r),
           label \in {"latest", "save"} => r.user \in Users
    PROVE  \A q \in Procs : pc'[q] \in {"latest", "save"} => run'[q].user \in Users
  <1> TAKE q \in Procs
  <1>1. CASE q = p
    BY <1>1 DEF Moves
  <1>2. CASE q # p
    BY <1>2 DEF Moves, TrailInv
  <1> QED
    BY <1>1, <1>2

LEMMA AppendOrdered ==
    ASSUME NEW t, NEW last \in Nat, Ordered(t, last), NEW row,
           {"user", "timestamp"} \subseteq DOMAIN row, row.user \in Users, row.timestamp = last + 1
    PROVE  Ordered(Append(t, row), last + 1)
  <1>1. PICK Z : t \in Seq(Z)
    BY DEF Ordered
  <1>2. t \in Seq(Z \cup {row})
    BY <1>1, LenProperties, ElementOfSeq, SeqDef
  <1>3. PICK a : a = Append(t, row)
    OBVIOUS
  <1>4. /\ a \in Seq(Z \cup {row}) /\ Len(a) = Len(t) + 1 /\ Len(t) \in Nat
        /\ \A i \in 1..Len(t) : a[i] = t[i]
        /\ a[Len(t) + 1] = row
    BY <1>2, <1>3, AppendProperties, LenProperties
  <1>5. ASSUME NEW i \in 1..Len(a)
        PROVE  /\ {"user", "timestamp"} \subseteq DOMAIN a[i]
               /\ a[i].user \in Users \cup {"anonymized"}
               /\ a[i].timestamp \in 1..(last + 1)
    <2>1. CASE i \in 1..Len(t)
      <3>1. /\ {"user", "timestamp"} \subseteq DOMAIN t[i] /\ a[i] = t[i]
            /\ t[i].user \in Users \cup {"anonymized"} /\ t[i].timestamp \in 1..last
        BY <1>4, <2>1 DEF Ordered
      <3> QED
        BY <3>1
    <2>2. CASE i = Len(t) + 1
      BY <1>4, <2>2
    <2> QED
      BY <1>4, <2>1, <2>2
  <1>6. ASSUME NEW i \in 1..Len(a), NEW j \in 1..Len(a), i < j
        PROVE  a[i].timestamp < a[j].timestamp
    <2>1. i \in 1..Len(t) /\ (j \in 1..Len(t) \/ j = Len(t) + 1)
      BY <1>4, <1>6
    <2>2. t[i].timestamp \in 1..last /\ a[i] = t[i]
      BY <1>4, <2>1 DEF Ordered
    <2>3. CASE j \in 1..Len(t)
      BY <1>4, <1>6, <2>1, <2>3 DEF Ordered
    <2>4. CASE j = Len(t) + 1
      BY <1>4, <2>2, <2>4
    <2> QED
      BY <2>1, <2>3, <2>4
  <1> QED
    BY <1>3, <1>4, <1>5, <1>6 DEF Ordered

(* Whichever rows are kept they stay in their order.                       *)
LEMMA RemainingOrdered ==
    ASSUME TrailInv, NEW kept
    PROVE  Ordered(T!Remaining(trail, kept), stamp)
  <1>1. PICK n \in Nat : n = Len(trail)
    BY LenProperties DEF TrailInv, Ordered
  <1>2. PICK f : f = CHOOSE g : Picks(g, trail, kept, n)
    OBVIOUS
  <1>3. Picks(f, trail, kept, n)
    BY <1>2, PicksExist
  <1>4. T!Remaining(trail, kept) = f[n]
    BY <1>1, <1>2 DEF T!Remaining, Picks
  <1> QED
    BY <1>1, <1>3, <1>4, PicksOrdered DEF TrailInv

LEMMA MinimizedOrdered ==
    ASSUME TrailInv, NEW u
    PROVE  Ordered([i \in DOMAIN trail |->
                      IF trail[i].user = u THEN [trail[i] EXCEPT !.user = "anonymized"]
                      ELSE trail[i]], stamp)
  <1>1. PICK Z : trail \in Seq(Z)
    BY DEF TrailInv, Ordered
  <1>2. PICK a : a = [i \in DOMAIN trail |->
                        IF trail[i].user = u THEN [trail[i] EXCEPT !.user = "anonymized"]
                        ELSE trail[i]]
    OBVIOUS
  <1>3. PICK n \in Nat : n = Len(trail) /\ DOMAIN trail = 1..n
    BY <1>1, LenProperties
  <1>4. PICK Y : Y = {a[i] : i \in 1..n}
    OBVIOUS
  <1>5. a \in [1..n -> Y]
    BY <1>2, <1>3, <1>4
  <1>6. a \in Seq(Y) /\ Len(a) = n
    BY <1>5, SeqDef, LenProperties
  <1>7. ASSUME NEW i \in 1..n
        PROVE  /\ {"user", "timestamp"} \subseteq DOMAIN a[i]
               /\ a[i].user \in Users \cup {"anonymized"}
               /\ a[i].timestamp = trail[i].timestamp
               /\ trail[i].timestamp \in 1..stamp
    <2>1. /\ {"user", "timestamp"} \subseteq DOMAIN trail[i]
          /\ trail[i].user \in Users \cup {"anonymized"} /\ trail[i].timestamp \in 1..stamp
      BY <1>3 DEF TrailInv, Ordered
    <2>2. CASE trail[i].user = u
      BY <1>2, <1>3, <2>1, <2>2
    <2>3. CASE trail[i].user # u
      BY <1>2, <1>3, <2>1, <2>3
    <2> QED
      BY <2>2, <2>3
  <1>8. \A i, j \in 1..n : i < j => trail[i].timestamp < trail[j].timestamp
    BY <1>3 DEF TrailInv, Ordered
  <1>9. Ordered(a, stamp)
    BY <1>6, <1>7, <1>8 DEF Ordered
  <1> QED
    BY <1>2, <1>9

LEMMA TrailStep ==
    ASSUME AuditInv, TrailInv, T!Next
    PROVE  TrailInv'
  <1>1. ASSUME NEW p \in Procs, NEW label, NEW r, Moves(p, label, r),
               label \in {"latest", "save"} => r.user \in Users,
               UNCHANGED <<trail, stamp, untouched>>
        PROVE  TrailInv'
    <2>1. \A q \in Procs : pc'[q] \in {"latest", "save"} => run'[q].user \in Users
      BY <1>1, TrailMoves
    <2> QED
      BY <1>1, <2>1 DEF TrailInv, Ordered
  <1>2. ASSUME NEW p \in Procs, NEW u \in Users, NEW entry \in Entries,
               T!intercept(p, u, entry)
        PROVE  TrailInv'
    <2>1. Moves(p, "latest", [user |-> u, entry |-> entry])
      BY <1>2, MovesFrame
      DEF T!intercept, T!Request, T!MayStart, T!Idle, Idle, T!setting, setting,
          AuditInv
    <2> QED
      BY <1>1, <1>2, <2>1 DEF T!intercept
  <1>3. ASSUME NEW p \in Procs, T!findLatest(p)
        PROVE  TrailInv'
    <2>1. PICK r : /\ r = [user |-> run[p].user, entry |-> run[p].entry, timestamp |-> T!Unstamped,
                           previousHash |-> T!previousHash]
      OBVIOUS
    <2>2. Moves(p, "save", r)
      BY <1>3, <2>1, MovesFrame
      DEF T!findLatest, T!GotoWith, T!setting, setting, AuditInv
    <2>3. r.user \in Users
      BY <1>3, <2>1 DEF T!findLatest, TrailInv
    <2> QED
      BY <1>1, <1>3, <2>2, <2>3 DEF T!findLatest
  <1>4. ASSUME NEW p \in Procs, T!fail(p)
        PROVE  TrailInv'
    <2>1. Moves(p, "idle", NoRun)
      BY <1>4, MovesFrame
      DEF T!fail, T!End, T!GotoWith, T!NoRun, NoRun, T!setting, setting,
          AuditInv
    <2> QED
      BY <1>1, <1>4, <2>1 DEF T!fail
  <1>5. ASSUME NEW p \in Procs, T!saveLog(p)
        PROVE  TrailInv'
    <2>1. Moves(p, "idle", NoRun)
      BY <1>5, MovesFrame
      DEF T!saveLog, T!End, T!GotoWith, T!NoRun, NoRun, T!setting, setting,
          AuditInv
    <2>2. PICK row : /\ {"user", "timestamp"} \subseteq DOMAIN row
                     /\ row.user = run[p].user /\ row.timestamp = stamp + 1
                     /\ trail' = Append(trail, row)
      BY <1>5 DEF T!saveLog
    <2>3. stamp' = stamp + 1 /\ untouched' = untouched /\ stamp \in Nat /\ run[p].user \in Users
      BY <1>5 DEF T!saveLog, TrailInv
    <2>4. Ordered(trail, stamp)
      BY DEF TrailInv
    <2>5. Ordered(Append(trail, row), stamp + 1)
      BY <2>2, <2>3, <2>4, AppendOrdered
    <2>6. Ordered(trail', stamp')
      BY <2>2, <2>3, <2>5
    <2>7. \A q \in Procs : pc'[q] \in {"latest", "save"} => run'[q].user \in Users
      BY <2>1, TrailMoves
    <2> QED
      BY <2>3, <2>6, <2>7 DEF TrailInv, Ordered
  <1>6. ASSUME NEW w, T!Touch(w), Ordered(w, stamp)
        PROVE  TrailInv'
    <2>1. UNCHANGED <<pc, run, stamp>> /\ trail' = w /\ untouched' = FALSE
      BY <1>6 DEF T!Touch, T!handlers
    <2> QED
      BY <1>6, <2>1 DEF TrailInv, Ordered
  <1>7. ASSUME NEW u \in Users, T!eraseUserData(u)
        PROVE  TrailInv'
    BY <1>6, <1>7, RemainingOrdered DEF T!eraseUserData
  <1>8. ASSUME NEW u \in Users, T!minimizeUserData(u)
        PROVE  TrailInv'
    BY <1>6, <1>8, MinimizedOrdered DEF T!minimizeUserData
  <1>9. ASSUME NEW cutoff, T!purgeOldRecords(cutoff)
        PROVE  TrailInv'
    BY <1>6, <1>9, RemainingOrdered DEF T!purgeOldRecords
  <1> QED
    BY <1>2, <1>3, <1>4, <1>5, <1>7, <1>8, <1>9 DEF T!Next

LEMMA TrailPromises ==
    ASSUME TrailInv
    PROVE  T!TypeOK
  <1>1. PICK n \in Nat : n = Len(trail) /\ DOMAIN trail = 1..n
    BY LenProperties DEF TrailInv, Ordered
  <1>2. \A i \in 1..n : i > 1 => i - 1 \in 1..n /\ i - 1 < i
    BY <1>1
  <1> QED
    BY <1>1, <1>2 DEF TrailInv, Ordered, T!TypeOK
-----------------------------------------------------------------------------
(* The guards.                                                             *)

Capped(n) == IF n < MAX_REQUESTS THEN n ELSE MAX_REQUESTS

(* What one count lets through while Redis keeps r and the fallback m: of  *)
(* a window that began before Redis's, what came after it began; and once  *)
(* the fallback began another, the rest of the first and what the second   *)
(* let through.                                                            *)
ByFallback(r, m) ==
    IF m.until >= r.until THEN (MAX_REQUESTS - 1) + Capped(m.count)
    ELSE IF m.count = 0 THEN 0
    ELSE Capped(m.count) - 1

Live(r) == r.until \in now + 1..R!Never - 1

Window(path) ==
    /\ redis[path].until \in 0..(now + WINDOW_SIZE) \cup {R!Never}
    /\ redis[path].until > 0 => redis[path].count > 0
    /\ Live(redis[path]) =>
           passed[path] <= Capped(redis[path].count) + ByFallback(redis[path], inMemoryStore[path])

(* A request that began a window sets its end next; one that looked at the *)
(* time did so when Redis's window, if it had an end, had begun.           *)
Passing(p) ==
    /\ pc[p] = "expire" => /\ redis[run[p].path] = [count |-> 1, until |-> R!Never]
                           /\ passed[run[p].path] = 0
    /\ pc[p] \in {"incr", "fallback"} =>
           redis[run[p].path].until \in 0..(run[p].since + WINDOW_SIZE) \cup {R!Never}

LimitTypes ==
    /\ now \in 0..MaxTime
    /\ redis \in [Paths -> R!Entry]
    /\ inMemoryStore \in [Paths -> R!Entry]
    /\ passed \in [Paths -> Nat]
    /\ \A p \in Procs : pc[p] # "idle" => run[p].path \in Paths /\ run[p].since \in 0..now

LimitsInv == /\ Frame
             /\ LimitTypes
             /\ Calm => /\ \A path \in Paths : Window(path)
                        /\ \A p \in Procs : Passing(p)

LEMMA Bounds == /\ MAX_REQUESTS \in Nat \ {0} /\ WINDOW_SIZE \in Nat \ {0} /\ MaxTime \in Nat
                /\ R!Never = MaxTime + WINDOW_SIZE + 1 /\ R!Never \in Nat
  BY ConstantsAssumption DEF R!Never

LEMMA CappedCount ==
    ASSUME NEW n \in Nat
    PROVE  /\ Capped(n) \in 0..MAX_REQUESTS
           /\ n >= 1 => Capped(n) >= 1
           /\ Capped(n + 1) = IF n < MAX_REQUESTS THEN Capped(n) + 1 ELSE Capped(n)
  BY Bounds DEF Capped

LEMMA ByFallbackType ==
    ASSUME NEW r \in R!Entry, NEW m \in R!Entry
    PROVE  /\ ByFallback(r, m) \in Nat
           /\ ByFallback(r, m) <= (MAX_REQUESTS - 1) + Capped(m.count)
           /\ m.until < r.until => ByFallback(r, m) <= MAX_REQUESTS - 1
  <1>1. m.count \in Nat /\ m.until \in Nat /\ r.until \in Nat
    BY Bounds DEF R!Entry
  <1>2. Capped(m.count) \in 0..MAX_REQUESTS /\ (m.count >= 1 => Capped(m.count) >= 1)
    BY <1>1, CappedCount
  <1> QED
    BY <1>1, <1>2, Bounds DEF ByFallback

(* A window no step touched.                                               *)
LEMMA WindowStands ==
    ASSUME NEW path \in Paths, Window(path), now' = now, redis'[path] = redis[path],
           inMemoryStore'[path] = inMemoryStore[path], passed'[path] = passed[path]
    PROVE  Window(path)'
  BY DEF Window, Live, Capped, ByFallback, R!Never

(* Where handlers do not overlap the others are idle when one moves.       *)
LEMMA OthersRest ==
    ASSUME Frame, ~overlap, NEW p \in Procs, NEW label, NEW r, Moves(p, label, r),
           overlap \/ Idle \/ pc[p] # "idle"
    PROVE  \A q \in Procs \ {p} : pc'[q] = "idle"
  BY DEF Frame, Idle, Moves

LEMMA RunsTyped ==
    ASSUME LimitTypes, NEW p \in Procs, NEW label, NEW r, Moves(p, label, r),
           now' = now,
           label # "idle" => r.path \in Paths /\ r.since \in 0..now
    PROVE  \A q \in Procs : pc'[q] # "idle" => run'[q].path \in Paths /\ run'[q].since \in 0..now'
  BY DEF LimitTypes, Moves

(* Time, a restart and the cleanup of the rules' counts.                   *)
LEMMA ClockKeeps ==
    ASSUME LimitsInv, R!tick \/ R!restart \/ R!cleanup
    PROVE  LimitsInv'
  <1>1. CASE R!tick
    <2>1. UNCHANGED <<handlers, redis, inMemoryStore, passed>> /\ now < MaxTime /\ now' = now + 1
      BY <1>1 DEF R!tick, R!stores, R!handlers, R!setting, handlers, setting
    <2>2. Frame' /\ pc' = pc /\ run' = run /\ (Calm' <=> Calm)
      BY <2>1, NothingMoves DEF LimitsInv, handlers, setting, Calm
    <2>3. LimitTypes'
      BY <2>1, <2>2, Bounds DEF LimitsInv, LimitTypes, R!Entry, R!Never
    <2>4. ASSUME NEW path \in Paths, Window(path)
          PROVE  Window(path)'
      <3>1. now \in Nat /\ redis[path].until \in Nat
        BY Bounds DEF LimitsInv, LimitTypes, R!Entry
      <3>2. Live(redis[path])' => Live(redis[path])
        BY <2>1, <3>1, Bounds DEF Live, R!Never
      <3>3. redis[path].until \in 0..(now' + WINDOW_SIZE) \cup {R!Never}
        BY <2>1, <2>4, <3>1, Bounds DEF Window
      <3> QED
        BY <2>1, <2>4, <3>2, <3>3 DEF Window, Capped, ByFallback, R!Never
    <2>5. ASSUME NEW p \in Procs, Passing(p)
          PROVE  Passing(p)'
      BY <2>1, <2>2, <2>5 DEF Passing, R!Never
    <2> QED
      BY <2>2, <2>3, <2>4, <2>5 DEF LimitsInv
  <1>2. CASE R!restart
    <2>1. /\ pc' = [p \in Procs |-> "idle"] /\ run' = [p \in Procs |-> R!NoRun]
          /\ inMemoryStore' = [path \in Paths |-> R!Absent]
          /\ UNCHANGED <<now, redis, passed>> /\ UNCHANGED setting /\ faulty
      BY <1>2 DEF R!restart, R!setting, setting
    <2>2. \A p \in Procs : pc'[p] = "idle"
      BY <2>1
    <2>3. Frame'
      BY <2>1, <2>2 DEF Frame
    <2>4. R!Absent \in R!Entry
      BY Bounds DEF R!Absent, R!Entry
    <2>5. LimitTypes'
      BY <2>1, <2>2, <2>4 DEF LimitsInv, LimitTypes
    <2> QED
      BY <2>1, <2>3, <2>5 DEF LimitsInv, Calm, setting
  <1>3. CASE R!cleanup
    <2>1. UNCHANGED <<handlers, now, redis, inMemoryStore, passed>>
      BY <1>3 DEF R!cleanup, R!handlers, R!setting, handlers, setting
    <2>2. Frame' /\ pc' = pc /\ run' = run /\ (Calm' <=> Calm)
      BY <2>1, NothingMoves DEF LimitsInv, handlers, setting, Calm
    <2>3. LimitTypes'
      BY <2>1, <2>2 DEF LimitsInv, LimitTypes
    <2>4. \A path \in Paths : Window(path) => Window(path)'
      BY <2>1, WindowStands
    <2>5. \A p \in Procs : Passing(p) => Passing(p)'
      BY <2>1, <2>2 DEF Passing, R!Never
    <2> QED
      BY <2>2, <2>3, <2>4, <2>5 DEF LimitsInv
  <1> QED
    BY <1>1, <1>2, <1>3

(* The rules count apart from the windows.                                 *)
LEMMA RulesKeep ==
    ASSUME LimitsInv, NEW p \in Procs,
           \/ \E path \in Paths : R!request(p, path)
           \/ R!checkRateLimit(p)
    PROVE  LimitsInv'
  <1> DEFINE Stepped(label, r) ==
               /\ pc' = [pc EXCEPT ![p] = label] /\ run' = [run EXCEPT ![p] = r]
               /\ UNCHANGED setting
               /\ overlap \/ Idle \/ pc[p] # "idle"
               /\ label \in {"idle", "rules", "incr"}
               /\ label # "idle" => r.path \in Paths /\ r.since \in 0..now
               /\ label = "incr" => r.since = now
  <1>1. UNCHANGED <<now, redis, inMemoryStore, passed>>
    BY DEF R!request, R!checkRateLimit
  <1>2. now \in 0..MaxTime /\ now \in Nat
    BY Bounds DEF LimitsInv, LimitTypes
  <1>3. ASSUME NEW path \in Paths, NEW todo
        PROVE  /\ R!Waiting(path, todo).path = path
               /\ R!Waiting(path, todo).since \in 0..now
               /\ R!Following(todo) \in {"rules", "incr"}
               /\ R!Following(todo) = "incr" => R!Waiting(path, todo).since = now
    BY <1>2 DEF R!Waiting, R!Following
  <1>4. \E label, r : Stepped(label, r)
    <2>1. CASE \E path \in Paths : R!request(p, path)
      <3>1. PICK path \in Paths : R!request(p, path)
        BY <2>1
      <3>2. PICK todo : \/ R!Request(p, "idle", R!NoRun)
                        \/ R!Request(p, R!Following(todo), R!Waiting(path, todo))
        BY <3>1 DEF R!request
      <3>3. CASE R!Request(p, "idle", R!NoRun)
        <4>1. PICK r : r = R!NoRun
          OBVIOUS
        <4>2. Stepped("idle", r)
          BY <3>3, <4>1 DEF R!Request, R!MayStart, R!Idle, Idle, R!setting, setting
        <4> HIDE DEF Stepped
        <4> QED
          BY <4>2
      <3>4. CASE R!Request(p, R!Following(todo), R!Waiting(path, todo))
        <4>1. PICK label, r : label = R!Following(todo) /\ r = R!Waiting(path, todo)
          OBVIOUS
        <4>2. /\ pc' = [pc EXCEPT ![p] = label] /\ run' = [run EXCEPT ![p] = r]
              /\ UNCHANGED setting
              /\ overlap \/ Idle
          BY <3>4, <4>1 DEF R!Request, R!MayStart, R!Idle, Idle, R!setting, setting
        <4>3. /\ r.path \in Paths /\ r.since \in 0..now /\ label \in {"rules", "incr"}
              /\ label = "incr" => r.since = now
          BY <1>3, <4>1
        <4>4. Stepped(label, r)
          BY <4>2, <4>3
        <4> HIDE DEF Stepped
        <4> QED
          BY <4>4
      <3> QED
        BY <3>2, <3>3, <3>4
    <2>2. CASE R!checkRateLimit(p)
      <3>1. pc[p] = "rules" /\ R!Path(p) \in Paths
        BY <2>2 DEF R!checkRateLimit, LimitsInv, LimitTypes, R!Path
      <3>2. PICK todo : \/ R!End(p)
                        \/ R!GotoWith(p, R!Following(todo), R!Waiting(R!Path(p), todo))
        BY <2>2 DEF R!checkRateLimit
      <3>3. CASE R!End(p)
        <4>1. PICK r : r = R!NoRun
          OBVIOUS
        <4>2. Stepped("idle", r)
          BY <3>1, <3>3, <4>1 DEF R!End, R!GotoWith, R!setting, setting
        <4> HIDE DEF Stepped
        <4> QED
          BY <4>2
      <3>4. CASE R!GotoWith(p, R!Following(todo), R!Waiting(R!Path(p), todo))
        <4>1. PICK label, r : label = R!Following(todo) /\ r = R!Waiting(R!Path(p), todo)
          OBVIOUS
        <4>2. /\ pc' = [pc EXCEPT ![p] = label] /\ run' = [run EXCEPT ![p] = r]
              /\ UNCHANGED setting
          BY <3>4, <4>1 DEF R!GotoWith, R!setting, setting
        <4>3. /\ r.path \in Paths /\ r.since \in 0..now /\ label \in {"rules", "incr"}
              /\ label = "incr" => r.since = now
          BY <1>3, <3>1, <4>1
        <4>4. Stepped(label, r)
          BY <3>1, <4>2, <4>3
        <4> HIDE DEF Stepped
        <4> QED
          BY <4>4
      <3> QED
        BY <3>2, <3>3, <3>4
    <2> QED
      BY <2>1, <2>2
  <1>5. PICK label, r : Stepped(label, r)
    BY <1>4
  <1>6. Frame' /\ Moves(p, label, r)
    BY <1>5, MovesFrame DEF LimitsInv
  <1>7. LimitTypes'
    <2>1. \A q \in Procs : pc'[q] # "idle" => run'[q].path \in Paths /\ run'[q].since \in 0..now'
      BY <1>1, <1>5, <1>6, RunsTyped DEF LimitsInv
    <2> QED
      BY <1>1, <2>1 DEF LimitsInv, LimitTypes
  <1>8. ASSUME Calm'
        PROVE  /\ \A path \in Paths : Window(path)'
               /\ \A q \in Procs : Passing(q)'
    <2>1. Calm /\ ~overlap
      BY <1>5, <1>8 DEF Calm, setting
    <2>2. \A path \in Paths : Window(path)
      BY <2>1 DEF LimitsInv
    <2>3. \A path \in Paths : Window(path)'
      BY <1>1, <2>2, WindowStands
    <2>4. \A q \in Procs \ {p} : pc'[q] = "idle"
      BY <1>5, <1>6, <2>1, OthersRest DEF LimitsInv
    <2>5. Passing(p)'
      BY <1>1, <1>5, <1>6, <2>2 DEF Passing, Moves, Window, R!Never
    <2>6. \A q \in Procs \ {p} : Passing(q)'
      BY <2>4 DEF Passing
    <2> QED
      BY <2>3, <2>5, <2>6
  <1> QED
    BY <1>6, <1>7, <1>8 DEF LimitsInv

(* A request is counted by Redis, sets the end of the window it began, or  *)
(* is counted by the fallback.                                             *)
LEMMA IncrKeeps ==
    ASSUME LimitsInv, NEW p \in Procs, R!incr(p)
    PROVE  LimitsInv'
  <1>0. PICK path : path = run[p].path
    OBVIOUS
  <1> DEFINE old == redis[path]
             entry == R!Incremented(old)
             w == passed'[path]
  <1>1. /\ pc[p] = "incr" /\ path \in Paths /\ now \in Nat /\ now < R!Never
        /\ run[p].since \in 0..now
        /\ old \in R!Entry /\ old.count \in Nat /\ old.until \in Nat
        /\ inMemoryStore[path] \in R!Entry /\ passed[path] \in Nat
    <2>1. pc[p] = "incr"
      BY DEF R!incr
    <2>2. path \in Paths /\ now \in 0..MaxTime /\ run[p].since \in 0..now
      BY <1>0, <2>1 DEF LimitsInv, LimitTypes
    <2>3. redis[path] \in R!Entry /\ inMemoryStore[path] \in R!Entry /\ passed[path] \in Nat
      BY <2>2 DEF LimitsInv, LimitTypes
    <2> QED
      BY <2>1, <2>2, <2>3, Bounds DEF R!Entry
  <1>2. IF old.until <= now THEN entry = [count |-> 1, until |-> R!Never]
                            ELSE entry = [count |-> old.count + 1, until |-> old.until]
    BY <1>1 DEF R!Incremented, R!Entry
  <1>3. entry \in R!Entry /\ entry.count \in Nat
    BY <1>1, <1>2, Bounds DEF R!Entry
  <1>4. /\ redis' = [redis EXCEPT ![path] = entry]
        /\ UNCHANGED <<now, inMemoryStore>>
    BY <1>0 DEF R!incr, R!Path
  <1>5. /\ redis'[path] = entry
        /\ \A other \in Paths \ {path} : redis'[other] = redis[other]
        /\ redis' \in [Paths -> R!Entry]
    BY <1>1, <1>3, <1>4 DEF LimitsInv, LimitTypes
  <1> HIDE DEF entry
  <1>6. \/ entry.count = 1 /\ R!Goto(p, "expire") /\ passed' = [passed EXCEPT ![path] = 0]
        \/ /\ entry.count > 1 /\ entry.count <= MAX_REQUESTS
           /\ R!End(p) /\ passed' = [passed EXCEPT ![path] = passed[path] + 1]
        \/ /\ entry.count # 1 /\ ~(entry.count > 1 /\ entry.count <= MAX_REQUESTS)
           /\ R!Goto(p, "fallback") /\ passed' = passed
    BY <1>0 DEF R!incr, R!Path, R!Pass, entry
  <1>7. PICK label, r :
           /\ pc' = [pc EXCEPT ![p] = label] /\ run' = [run EXCEPT ![p] = r]
           /\ UNCHANGED setting
           /\ label # "idle" => r = run[p]
           /\ \/ label = "expire" /\ entry.count = 1 /\ w = 0
              \/ label = "idle" /\ 1 < entry.count /\ entry.count <= MAX_REQUESTS
                     /\ w = passed[path] + 1
              \/ label = "fallback" /\ entry.count # 1
                     /\ ~(entry.count > 1 /\ entry.count <= MAX_REQUESTS)
                     /\ w = passed[path]
    <2>1. /\ passed \in [Paths -> Nat] /\ run = [q \in Procs |-> run[q]]
      BY DEF LimitsInv, LimitTypes, Frame
    <2>2. ASSUME NEW l, R!Goto(p, l)
          PROVE  /\ pc' = [pc EXCEPT ![p] = l] /\ run' = [run EXCEPT ![p] = run[p]]
                 /\ UNCHANGED setting
      BY <2>1, <2>2 DEF R!Goto, R!setting, setting
    <2>3. CASE entry.count = 1 /\ R!Goto(p, "expire") /\ passed' = [passed EXCEPT ![path] = 0]
      <3>1. w = 0
        BY <1>1, <2>1, <2>3
      <3> HIDE DEF w
      <3> QED
        BY <2>2, <2>3, <3>1
    <2>4. CASE /\ entry.count > 1 /\ entry.count <= MAX_REQUESTS
               /\ R!End(p) /\ passed' = [passed EXCEPT ![path] = passed[path] + 1]
      <3>1. w = passed[path] + 1
        BY <1>1, <2>1, <2>4
      <3>2. /\ pc' = [pc EXCEPT ![p] = "idle"] /\ run' = [run EXCEPT ![p] = R!NoRun]
            /\ UNCHANGED setting
        BY <2>4 DEF R!End, R!GotoWith, R!setting, setting
      <3>3. 1 < entry.count
        BY <1>3, <2>4
      <3> HIDE DEF w
      <3> QED
        BY <2>4, <3>1, <3>2, <3>3
    <2>5. CASE /\ entry.count # 1 /\ ~(entry.count > 1 /\ entry.count <= MAX_REQUESTS)
               /\ R!Goto(p, "fallback") /\ passed' = passed
      <3>1. w = passed[path]
        BY <2>5
      <3> HIDE DEF w
      <3> QED
        BY <2>2, <2>5, <3>1
    <2> QED
      BY <1>6, <2>3, <2>4, <2>5
  <1>8. /\ passed' \in [Paths -> Nat]
        /\ \A other \in Paths \ {path} : passed'[other] = passed[other]
    <2>1. \/ passed' = [passed EXCEPT ![path] = 0]
          \/ passed' = [passed EXCEPT ![path] = passed[path] + 1]
          \/ passed' = passed
      BY <1>6
    <2>2. passed[path] + 1 \in Nat
      BY <1>1
    <2> QED
      BY <1>1, <2>1, <2>2 DEF LimitsInv, LimitTypes
  <1>9. Frame' /\ Moves(p, label, r)
    BY <1>1, <1>7, MovesFrame DEF LimitsInv
  <1>10. LimitTypes'
    <2>1. \A q \in Procs : pc'[q] # "idle" => run'[q].path \in Paths /\ run'[q].since \in 0..now'
      BY <1>0, <1>1, <1>4, <1>7, <1>9, RunsTyped DEF LimitsInv
    <2> QED
      BY <1>4, <1>5, <1>8, <2>1 DEF LimitsInv, LimitTypes
  <1>11. ASSUME Calm'
         PROVE  /\ \A other \in Paths : Window(other)'
                /\ \A q \in Procs : Passing(q)'
    <2>1. Calm /\ ~overlap
      BY <1>7, <1>11 DEF Calm, setting
    <2>2. Window(path) /\ Passing(p) /\ \A other \in Paths : Window(other)
      BY <1>1, <2>1 DEF LimitsInv
    <2>3. \A other \in Paths \ {path} : Window(other)'
      BY <1>4, <1>5, <1>8, <2>2, WindowStands
    <2>4. old.until \in 0..(run[p].since + WINDOW_SIZE) \cup {R!Never}
      BY <1>0, <1>1, <2>2 DEF Passing
    <2>5. entry.count # 1 => old.until > now
      BY <1>1, <1>2
    <2>6. old.until > now => /\ entry.count = old.count + 1 /\ entry.until = old.until
                             /\ old.count > 0 /\ entry.count > 1
      BY <1>1, <1>2, <2>2 DEF Window
    <2>7. entry.count = 1 => entry = [count |-> 1, until |-> R!Never]
      BY <1>1, <1>2, <2>6
    <2>8. Window(path)'
      <3>1. CASE entry.count = 1
        <4>1. redis'[path].until = R!Never /\ redis'[path].count = 1
          BY <1>5, <2>7, <3>1
        <4>2. ~Live(redis[path])'
          BY <4>1, Bounds DEF Live, R!Never
        <4> QED
          BY <4>1, <4>2 DEF Window, R!Never
      <3>2. CASE entry.count # 1
        <4>1. /\ redis'[path].until = old.until /\ redis'[path].count = old.count + 1
          BY <1>5, <2>5, <2>6, <3>2
        <4>2. Live(redis[path])' => Live(redis[path])
          BY <1>4, <4>1 DEF Live, R!Never
        <4>3. ByFallback(redis[path], inMemoryStore[path])'
                  = ByFallback(redis[path], inMemoryStore[path])
          BY <1>4, <4>1 DEF ByFallback, Capped
        <4>4. w <= passed[path] + 1 /\ (old.count >= MAX_REQUESTS => w = passed[path])
          BY <1>1, <1>3, <1>7, <2>5, <2>6, <3>2, Bounds
        <4>5. Capped(redis[path].count)' = IF old.count < MAX_REQUESTS THEN Capped(old.count) + 1
                                           ELSE Capped(old.count)
          <5>1. Capped(redis[path].count)' = Capped(old.count + 1)
            BY <4>1 DEF Capped
          <5> QED
            BY <1>1, <5>1, CappedCount
        <4>6. /\ Capped(old.count) \in Nat /\ w \in Nat
              /\ ByFallback(redis[path], inMemoryStore[path]) \in Nat
          BY <1>1, <1>8, CappedCount, ByFallbackType, Bounds
        <4>7. Live(redis[path])' => w <= Capped(redis[path].count)'
                                             + ByFallback(redis[path], inMemoryStore[path])'
          BY <1>1, <2>2, <4>2, <4>3, <4>4, <4>5, <4>6, Bounds DEF Window
        <4>8. /\ redis'[path].until \in 0..(now' + WINDOW_SIZE) \cup {R!Never}
              /\ redis'[path].count > 0
          BY <1>1, <1>4, <2>2, <4>1 DEF Window
        <4> QED
          BY <4>7, <4>8 DEF Window, R!Never
      <3> QED
        BY <3>1, <3>2
    <2>9. Passing(p)'
      <3>1. CASE label = "expire"
        <4>1. redis'[path] = [count |-> 1, until |-> R!Never] /\ w = 0
          BY <1>5, <1>7, <2>7, <3>1
        <4>2. run'[p].path = path /\ pc'[p] = "expire"
          BY <1>0, <1>7, <1>9, <3>1 DEF Moves
        <4> QED
          BY <4>1, <4>2 DEF Passing, R!Never
      <3>2. CASE label = "fallback"
        <4>1. redis'[path].until \in 0..(run[p].since + WINDOW_SIZE) \cup {R!Never}
          BY <1>5, <1>7, <2>4, <2>5, <2>6, <3>2
        <4>2. run'[p] = run[p] /\ run'[p].path = path /\ pc'[p] = "fallback"
          BY <1>0, <1>7, <1>9, <3>2 DEF Moves
        <4> QED
          BY <4>1, <4>2 DEF Passing, R!Never
      <3>3. CASE label = "idle"
        BY <1>9, <3>3 DEF Passing, Moves
      <3> QED
        BY <1>7, <3>1, <3>2, <3>3
    <2>10. \A q \in Procs \ {p} : Passing(q)'
      <3>1. \A q \in Procs \ {p} : pc'[q] = "idle"
        BY <1>1, <1>9, <2>1, OthersRest DEF LimitsInv
      <3> QED
        BY <3>1 DEF Passing
    <2> QED
      BY <2>3, <2>8, <2>9, <2>10
  <1> QED
    BY <1>9, <1>10, <1>11 DEF LimitsInv

LEMMA ExpireKeeps ==
    ASSUME LimitsInv, NEW p \in Procs, R!expire(p)
    PROVE  LimitsInv'
  <1>0. PICK path : path = run[p].path
    OBVIOUS
  <1>1. /\ pc[p] = "expire" /\ path \in Paths /\ now \in 0..MaxTime /\ now \in Nat
        /\ redis[path] \in R!Entry /\ redis[path].count \in Nat
        /\ inMemoryStore[path] \in R!Entry /\ passed[path] \in Nat
    <2>1. pc[p] = "expire"
      BY DEF R!expire
    <2>2. path \in Paths /\ now \in 0..MaxTime
      BY <1>0, <2>1 DEF LimitsInv, LimitTypes
    <2>3. redis[path] \in R!Entry /\ inMemoryStore[path] \in R!Entry /\ passed[path] \in Nat
      BY <2>2 DEF LimitsInv, LimitTypes
    <2> QED
      BY <2>1, <2>2, <2>3, Bounds DEF R!Entry
  <1>2. PICK entry : entry = [count |-> redis[path].count, until |-> now + WINDOW_SIZE]
    OBVIOUS
  <1>3. entry \in R!Entry
    BY <1>1, <1>2, Bounds DEF R!Entry
  <1>4. /\ redis' = [redis EXCEPT ![path] = entry]
        /\ passed' = [passed EXCEPT ![path] = passed[path] + 1]
        /\ UNCHANGED <<now, inMemoryStore>>
    <2>1. redis' = [redis EXCEPT ![path].until = now + WINDOW_SIZE]
      BY <1>0 DEF R!expire, R!Path
    <2>2. [redis[path] EXCEPT !.until = now + WINDOW_SIZE] = entry
      BY <1>1, <1>2 DEF R!Entry
    <2>3. redis' = [redis EXCEPT ![path] = [redis[path] EXCEPT !.until = now + WINDOW_SIZE]]
      BY <2>1
    <2> QED
      BY <1>0, <2>2, <2>3 DEF R!expire, R!Pass, R!Path
  <1>5. /\ redis'[path] = entry /\ passed'[path] = passed[path] + 1
        /\ \A other \in Paths \ {path} : /\ redis'[other] = redis[other]
                                         /\ passed'[other] = passed[other]
        /\ redis' \in [Paths -> R!Entry] /\ passed' \in [Paths -> Nat]
    BY <1>1, <1>3, <1>4 DEF LimitsInv, LimitTypes
  <1>6. /\ pc' = [pc EXCEPT ![p] = "idle"] /\ run' = [run EXCEPT ![p] = R!NoRun]
        /\ UNCHANGED setting
    BY DEF R!expire, R!Pass, R!End, R!GotoWith, R!setting, setting
  <1>7. Frame' /\ Moves(p, "idle", R!NoRun)
    BY <1>6, MovesFrame DEF LimitsInv
  <1>8. LimitTypes'
    <2>1. \A q \in Procs : pc'[q] # "idle" => run'[q].path \in Paths /\ run'[q].since \in 0..now'
      BY <1>4, <1>7, RunsTyped DEF LimitsInv
    <2> QED
      BY <1>4, <1>5, <2>1 DEF LimitsInv, LimitTypes
  <1>9. ASSUME Calm'
        PROVE  /\ \A other \in Paths : Window(other)'
               /\ \A q \in Procs : Passing(q)'
    <2>1. Calm /\ ~overlap
      BY <1>6, <1>9 DEF Calm, setting
    <2>2. Passing(p) /\ \A other \in Paths : Window(other)
      BY <2>1 DEF LimitsInv
    <2>3. \A other \in Paths \ {path} : Window(other)'
      BY <1>4, <1>5, <2>2, WindowStands
    <2>4. redis[path].count = 1 /\ passed[path] = 0
      BY <1>0, <1>1, <2>2 DEF Passing
    <2>5. /\ redis'[path].count = 1 /\ redis'[path].until = now + WINDOW_SIZE
          /\ passed'[path] = 1
      BY <1>1, <1>2, <1>5, <2>4
    <2>6. ByFallback(redis[path], inMemoryStore[path])' \in Nat
      <3>1. redis'[path] \in R!Entry /\ inMemoryStore'[path] \in R!Entry
        BY <1>1, <1>3, <1>4, <1>5
      <3>2. ByFallback(redis'[path], inMemoryStore'[path]) \in Nat
        BY <3>1, ByFallbackType
      <3> QED
        BY <3>2 DEF ByFallback, Capped
    <2>7. Capped(redis[path].count)' >= 1 /\ Capped(redis[path].count)' \in Nat
      BY <2>5, Bounds DEF Capped
    <2>8. Window(path)'
      BY <1>1, <1>4, <2>5, <2>6, <2>7, Bounds DEF Window, R!Never
    <2>9. \A q \in Procs : pc'[q] = "idle"
      BY <1>1, <1>7, <2>1, OthersRest DEF LimitsInv, Moves
    <2>10. \A q \in Procs : Passing(q)'
      BY <2>9 DEF Passing
    <2> QED
      BY <2>3, <2>8, <2>10
  <1> QED
    BY <1>7, <1>8, <1>9 DEF LimitsInv

LEMMA RedisFailsKeeps ==
    ASSUME LimitsInv, NEW p \in Procs, R!redisFails(p)
    PROVE  LimitsInv'
  <1>1. /\ pc' = [pc EXCEPT ![p] = "fallback"] /\ run' = [run EXCEPT ![p] = run[p]]
        /\ UNCHANGED setting /\ pc[p] # "idle" /\ faulty
        /\ UNCHANGED <<now, redis, inMemoryStore, passed>>
    BY DEF R!redisFails, R!Goto, R!setting, setting, R!stores, LimitsInv, Frame
  <1>2. Frame' /\ Moves(p, "fallback", run[p])
    BY <1>1, MovesFrame DEF LimitsInv
  <1>3. run[p].path \in Paths /\ run[p].since \in 0..now
    BY <1>1 DEF LimitsInv, LimitTypes
  <1>4. LimitTypes'
    <2>1. \A q \in Procs : pc'[q] # "idle" => run'[q].path \in Paths /\ run'[q].since \in 0..now'
      BY <1>1, <1>2, <1>3, RunsTyped DEF LimitsInv
    <2> QED
      BY <1>1, <2>1 DEF LimitsInv, LimitTypes
  <1>5. ~Calm'
    BY <1>1 DEF Calm, setting
  <1> QED
    BY <1>2, <1>4, <1>5 DEF LimitsInv

(* The fallback's count goes on, or it begins a window, which ends no      *)
(* earlier than the one Redis keeps.                                       *)
LEMMA FallbackKeeps ==
    ASSUME LimitsInv, NEW p \in Procs, R!fallback(p)
    PROVE  LimitsInv'
  <1>0. PICK path : path = run[p].path
    OBVIOUS
  <1> DEFINE old == inMemoryStore[path]
             since == run[p].since
             begun == [count |-> 1, until |-> since + WINDOW_SIZE]
             more == [count |-> old.count + 1, until |-> old.until]
  <1>1. /\ pc[p] = "fallback" /\ path \in Paths /\ now \in 0..MaxTime /\ now \in Nat
        /\ since \in 0..now
        /\ redis[path] \in R!Entry /\ redis[path].count \in Nat /\ redis[path].until \in Nat
        /\ old \in R!Entry /\ old.count \in Nat /\ old.until \in Nat /\ passed[path] \in Nat
    <2>1. pc[p] = "fallback"
      BY DEF R!fallback
    <2>2. path \in Paths /\ now \in 0..MaxTime /\ since \in 0..now
      BY <1>0, <2>1 DEF LimitsInv, LimitTypes
    <2>3. redis[path] \in R!Entry /\ old \in R!Entry /\ passed[path] \in Nat
      BY <2>2 DEF LimitsInv, LimitTypes
    <2> QED
      BY <2>1, <2>2, <2>3, Bounds DEF R!Entry
  <1>2. PICK entry : entry = IF old.count = 0 \/ old.until < since THEN begun ELSE more
    OBVIOUS
  <1>3. entry \in R!Entry /\ entry.count \in Nat /\ entry.until \in Nat
    BY <1>1, <1>2, Bounds DEF R!Entry
  <1>4. /\ inMemoryStore' = [inMemoryStore EXCEPT ![path] = entry]
        /\ IF entry.count > MAX_REQUESTS THEN passed' = passed
           ELSE passed' = [passed EXCEPT ![path] = passed[path] + 1]
        /\ UNCHANGED <<now, redis>>
    <2>1. entry = IF old.count = 0 \/ old.until < run[p].since
                  THEN [count |-> 1, until |-> run[p].since + WINDOW_SIZE]
                  ELSE [old EXCEPT !.count = old.count + 1]
      BY <1>1, <1>2 DEF R!Entry
    <2> QED
      BY <1>0, <2>1 DEF R!fallback, R!Pass, R!Refuse, R!Path
  <1>5. /\ inMemoryStore'[path] = entry /\ inMemoryStore' \in [Paths -> R!Entry]
        /\ passed'[path] = IF entry.count > MAX_REQUESTS THEN passed[path] ELSE passed[path] + 1
        /\ \A other \in Paths \ {path} : /\ inMemoryStore'[other] = inMemoryStore[other]
                                         /\ passed'[other] = passed[other]
        /\ passed' \in [Paths -> Nat]
    <2>1. inMemoryStore'[path] = entry /\ inMemoryStore' \in [Paths -> R!Entry]
      BY <1>1, <1>3, <1>4 DEF LimitsInv, LimitTypes
    <2>2. \A other \in Paths \ {path} : inMemoryStore'[other] = inMemoryStore[other]
      BY <1>1, <1>4 DEF LimitsInv, LimitTypes
    <2>3. CASE entry.count > MAX_REQUESTS
      BY <1>4, <2>1, <2>2, <2>3 DEF LimitsInv, LimitTypes
    <2>4. CASE ~(entry.count > MAX_REQUESTS)
      BY <1>1, <1>4, <2>1, <2>2, <2>4 DEF LimitsInv, LimitTypes
    <2> QED
      BY <2>3, <2>4
  <1>6. /\ pc' = [pc EXCEPT ![p] = "idle"] /\ run' = [run EXCEPT ![p] = R!NoRun]
        /\ UNCHANGED setting
    BY DEF R!fallback, R!Pass, R!Refuse, R!End, R!GotoWith, R!setting, setting
  <1>7. Frame' /\ Moves(p, "idle", R!NoRun)
    BY <1>6, MovesFrame DEF LimitsInv
  <1>8. LimitTypes'
    <2>1. \A q \in Procs : pc'[q] # "idle" => run'[q].path \in Paths /\ run'[q].since \in 0..now'
      BY <1>4, <1>7, RunsTyped DEF LimitsInv
    <2> QED
      BY <1>4, <1>5, <2>1 DEF LimitsInv, LimitTypes
  <1>9. ASSUME Calm'
        PROVE  /\ \A other \in Paths : Window(other)'
               /\ \A q \in Procs : Passing(q)'
    <2>1. Calm /\ ~overlap
      BY <1>6, <1>9 DEF Calm, setting
    <2>2. Passing(p) /\ \A other \in Paths : Window(other)
      BY <2>1 DEF LimitsInv
    <2>3. \A other \in Paths \ {path} : Window(other)'
      BY <1>4, <1>5, <2>2, WindowStands
    <2>4. redis[path].until \in 0..(since + WINDOW_SIZE) \cup {R!Never}
      BY <1>0, <1>1, <2>2 DEF Passing
    <2>5. \A q \in Procs : pc'[q] = "idle"
      BY <1>1, <1>7, <2>1, OthersRest DEF LimitsInv, Moves
    <2>6. \A q \in Procs : Passing(q)'
      BY <2>5 DEF Passing
    <2>7. /\ redis'[path].until \in 0..(now' + WINDOW_SIZE) \cup {R!Never}
          /\ redis'[path].until > 0 => redis'[path].count > 0
      BY <1>1, <1>4, <2>2 DEF Window
    <2>8. ASSUME Live(redis[path])
          PROVE  passed'[path] <= Capped(redis[path].count) + ByFallback(redis[path], entry)
      <3> DEFINE c == Capped(redis[path].count)
      <3>1. /\ c \in Nat /\ passed[path] <= c + ByFallback(redis[path], old)
            /\ redis[path].until > now /\ redis[path].until <= since + WINDOW_SIZE
        BY <1>1, <2>2, <2>4, <2>8, CappedCount, Bounds DEF Window, Live
      <3>2. /\ Capped(old.count) \in 0..MAX_REQUESTS
            /\ old.count >= 1 => Capped(old.count) >= 1
            /\ Capped(old.count + 1) = IF old.count < MAX_REQUESTS THEN Capped(old.count) + 1
                                       ELSE Capped(old.count)
        BY <1>1, CappedCount
      <3> HIDE DEF c
      <3>3. CASE old.count = 0 \/ old.until < since
        <4>1. /\ entry.count = 1 /\ entry.until = since + WINDOW_SIZE
              /\ passed'[path] = passed[path] + 1
          BY <1>2, <1>5, <3>3, Bounds
        <4>2. ByFallback(redis[path], entry) = MAX_REQUESTS
          BY <1>1, <3>1, <4>1, Bounds DEF ByFallback, Capped
        <4>3. /\ ByFallback(redis[path], old) <= MAX_REQUESTS - 1
              /\ ByFallback(redis[path], old) \in Nat
          <5>1. CASE old.until < redis[path].until
            BY <1>1, <5>1, ByFallbackType
          <5>2. CASE ~(old.until < redis[path].until)
            <6>1. old.count = 0
              BY <1>1, <3>1, <3>3, <5>2
            <6> QED
              BY <1>1, <5>2, <6>1, Bounds DEF ByFallback, Capped
          <5> QED
            BY <5>1, <5>2
        <4> QED
          BY <1>1, <3>1, <4>1, <4>2, <4>3, Bounds DEF c
      <3>4. CASE ~(old.count = 0 \/ old.until < since)
        <4>1. entry.count = old.count + 1 /\ entry.until = old.until /\ old.count >= 1
          BY <1>1, <1>2, <3>4
        <4>2. ByFallback(redis[path], entry) = IF old.count < MAX_REQUESTS
                                               THEN ByFallback(redis[path], old) + 1
                                               ELSE ByFallback(redis[path], old)
          BY <1>1, <3>2, <4>1, Bounds DEF ByFallback
        <4>3. ByFallback(redis[path], old) \in Nat
          BY <1>1, ByFallbackType
        <4>4. passed'[path] = IF old.count < MAX_REQUESTS THEN passed[path] + 1 ELSE passed[path]
          BY <1>1, <1>5, <4>1, Bounds
        <4> QED
          BY <1>1, <3>1, <4>2, <4>3, <4>4 DEF c
      <3> QED
        BY <3>3, <3>4
    <2>9. Live(redis[path])' =>
              passed'[path] <= Capped(redis'[path].count)
                                   + ByFallback(redis'[path], inMemoryStore'[path])
      <3>1. Live(redis[path])' => Live(redis[path])
        BY <1>4 DEF Live, R!Never
      <3> QED
        BY <1>4, <1>5, <2>8, <3>1
    <2>10. Window(path)'
      BY <2>7, <2>9 DEF Window, Capped, ByFallback, R!Never
    <2> QED
      BY <2>3, <2>6, <2>10
  <1> QED
    BY <1>7, <1>8, <1>9 DEF LimitsInv

LEMMA LimitsStep ==
    ASSUME LimitsInv, R!Next
    PROVE  LimitsInv'
  BY ClockKeeps, RulesKeep, IncrKeeps, ExpireKeeps, RedisFailsKeeps, FallbackKeeps
  DEF R!Next

LEMMA LimitsInit ==
    ASSUME HandlersInit, R!Rest
    PROVE  LimitsInv
  <1>1. Frame /\ \A p \in Procs : pc[p] = "idle"
    BY FrameInit
  <1>2. R!Absent \in R!Entry /\ R!Absent.until = 0
    BY Bounds DEF R!Absent, R!Entry
  <1>3. LimitTypes
    BY <1>1, <1>2, Bounds DEF R!Rest, LimitTypes
  <1>4. \A path \in Paths : redis[path] = R!Absent /\ now = 0
    BY DEF R!Rest
  <1>5. \A path \in Paths : Window(path)
    BY <1>2, <1>4, Bounds DEF Window, Live
  <1>6. \A p \in Procs : Passing(p)
    BY <1>1 DEF Passing
  <1> QED
    BY <1>1, <1>3, <1>5, <1>6 DEF LimitsInv

LEMMA LimitsStand ==
    ASSUME LimitsInv, UNCHANGED <<handlers, limitsVars>>
    PROVE  LimitsInv'
  <1>1. Frame' /\ pc' = pc /\ run' = run /\ (Calm' <=> Calm)
    BY NothingMoves DEF LimitsInv, handlers, setting, Calm
  <1>2. UNCHANGED <<now, redis, inMemoryStore, passed>>
    BY DEF limitsVars
  <1>3. LimitTypes'
    BY <1>1, <1>2 DEF LimitsInv, LimitTypes
  <1>4. \A path \in Paths : Window(path) => Window(path)'
    BY <1>2, WindowStands
  <1>5. \A p \in Procs : Passing(p) => Passing(p)'
    BY <1>1, <1>2 DEF Passing, R!Never
  <1> QED
    BY <1>1, <1>3, <1>4, <1>5 DEF LimitsInv

(* What the rules counted.                                                 *)
RulesTyped == limitStore \in [R!Rules -> R!Entry]

LEMMA RulesTypedInit ==
    ASSUME R!Rest
    PROVE  RulesTyped
  BY Bounds DEF R!Rest, RulesTyped, R!Absent, R!Entry

LEMMA RulesTypedStep ==
    ASSUME LimitTypes, RulesTyped, R!Next
    PROVE  RulesTyped'
  <1>1. R!Entry' = R!Entry /\ now \in 0..MaxTime
    BY DEF R!Entry, R!Never, LimitTypes
  <1>2. ASSUME NEW rule, NEW e, e = R!Counted(rule),
               limitStore' = [limitStore EXCEPT ![rule] = e]
        PROVE  RulesTyped'
    <2>1. CASE rule \in R!Rules
      <3>1. limitStore[rule] \in R!Entry
        BY <2>1 DEF RulesTyped
      <3>2. e \in R!Entry
        BY <1>1, <1>2, <3>1, Bounds DEF R!Counted, R!Entry
      <3> QED
        BY <1>2, <2>1, <3>2 DEF RulesTyped
    <2>2. CASE rule \notin R!Rules
      BY <1>2, <2>2 DEF RulesTyped
    <2> QED
      BY <2>1, <2>2
  <1>3. CASE R!tick
    BY <1>3 DEF R!tick, R!stores, RulesTyped
  <1>4. CASE R!restart
    BY <1>4, Bounds DEF R!restart, RulesTyped, R!Absent, R!Entry
  <1>5. CASE R!cleanup
    BY <1>5, Bounds DEF R!cleanup, RulesTyped, R!Absent, R!Entry
  <1>6. ASSUME NEW p \in Procs,
               \/ \E path \in Paths : R!request(p, path)
               \/ R!checkRateLimit(p)
        PROVE  RulesTyped'
    <2>1. \E rule : limitStore' = [limitStore EXCEPT ![rule] = R!Counted(rule)]
      BY <1>6 DEF R!request, R!checkRateLimit
    <2> QED
      BY <1>2, <2>1
  <1>7. ASSUME NEW p \in Procs,
               R!incr(p) \/ R!expire(p) \/ R!redisFails(p) \/ R!fallback(p)
        PROVE  RulesTyped'
    BY <1>7 DEF R!incr, R!expire, R!redisFails, R!fallback, R!stores, RulesTyped
  <1> QED
    BY <1>3, <1>4, <1>5, <1>6, <1>7 DEF R!Next

LEMMA RulesTypedStand ==
    ASSUME RulesTyped, UNCHANGED limitsVars
    PROVE  RulesTyped'
  <1>1. UNCHANGED limitStore
    BY DEF limitsVars
  <1> QED
    BY <1>1 DEF RulesTyped, R!Entry, R!Never

LEMMA LimitsPromise ==
    ASSUME LimitsInv, RulesTyped
    PROVE  R!TypeOK
  BY DEF LimitsInv, LimitTypes, RulesTyped, R!TypeOK

LEMMA WithinThrice ==
    ASSUME LimitsInv
    PROVE  R!FewerThanThrice
  <1> SUFFICES ASSUME Calm, NEW path \in Paths, Live(redis[path])
               PROVE  passed[path] < 3 * MAX_REQUESTS
    BY DEF R!FewerThanThrice, Calm, Live
  <1>1. Window(path)
    BY DEF LimitsInv
  <1>2. /\ redis[path] \in R!Entry /\ inMemoryStore[path] \in R!Entry /\ passed[path] \in Nat
        /\ redis[path].count \in Nat /\ inMemoryStore[path].count \in Nat
    BY DEF LimitsInv, LimitTypes, R!Entry
  <1>3. passed[path] <= Capped(redis[path].count) + ByFallback(redis[path], inMemoryStore[path])
    BY <1>1 DEF Window
  <1>4. /\ Capped(redis[path].count) \in 0..MAX_REQUESTS
        /\ Capped(inMemoryStore[path].count) \in 0..MAX_REQUESTS
    BY <1>2, CappedCount
  <1>5. /\ ByFallback(redis[path], inMemoryStore[path]) \in Nat
        /\ ByFallback(redis[path], inMemoryStore[path])
               <= (MAX_REQUESTS - 1) + Capped(inMemoryStore[path].count)
    BY <1>2, ByFallbackType
  <1> QED
    BY <1>2, <1>3, <1>4, <1>5, Bounds
-----------------------------------------------------------------------------
(* Metrics.                                                                *)

Job == Seq(M!MetricRow) \ {<<>>}
MetricRun == [metric : M!MetricRow, names : Seq(M!Names)]
RatingRun == [recorder : Recorders, done : BOOLEAN, total : Nat, successful : Nat]
Shows == {"queue", "broadcast"}

MetricTypes ==
    /\ metricClock \in 0..MaxMetricClock
    /\ metrics \subseteq M!MetricRow
    /\ current \in [M!Names -> {M!None} \cup [at : 0..MaxMetricClock, form : {"date", "text"}]]
    /\ metricsQueue \in Seq(Job)
    /\ rated \in [M!Rating -> [total : Nat, done : Nat]]
    /\ \A r \in M!Rating : rated[r].done <= rated[r].total
    /\ kpis \in [1..5 -> Nat]

(* What a handler at a label knows: names and metrics that there are, and, *)
(* unless another handler counted since, what its counts still come to.    *)
Knows(label, r) ==
    /\ label \in {"save", "queue", "broadcast"} => r \in MetricRun
    /\ label \in {"saveBulk", "queueBulk"} => /\ r \in Job
                                              /\ \A i \in DOMAIN r : ~r[i].single
    /\ label \in {"own", "count", "countDone", "successRate"} => r \in RatingRun
    /\ label \in {"count", "countDone", "successRate"} => r.recorder \in M!Rating
    /\ label = "countDone" /\ ~overlap => r.total = rated[r.recorder].total
    /\ label = "successRate" /\ ~overlap => r.successful <= r.total
    /\ label = "kpi" => r \in 1..5

HandlersKnow == \A p \in Procs : Knows(pc[p], run[p])

(* A metric the queue has still to show; a live value that stands for it:  *)
(* one no older, or one the queue's text will yet be compared with.        *)
Pending(m) == \E i \in DOMAIN metricsQueue :
                  \E j \in DOMAIN metricsQueue[i] : metricsQueue[i][j] = m
Covered(m) == /\ current[m.name] # M!None
              /\ \/ current[m.name].at >= m.at
                 \/ current[m.name].form = "text" /\ Pending(m)

Showing(m) == \E p \in Procs : pc[p] \in Shows /\ run[p].metric = m

Newest == Calm =>
    /\ \A m \in metrics : m.single /\ m.at + MetricHour >= metricClock => Showing(m) \/ Covered(m)
    /\ \A p \in Procs : pc[p] = "broadcast" => Pending(run[p].metric)

(* An indicator is as many rows behind the one before it as passes stand   *)
(* between the two, and as have failed there.                              *)
Between(i) == {p \in Procs : pc[p] = "kpi" /\ run[p] = i + 1}
Passes == \A i \in 1..4 :
    /\ kpis[i] >= kpis[i + 1] + Cardinality(Between(i))
    /\ ~faulty => kpis[i] = kpis[i + 1] + Cardinality(Between(i))

MetricsInv == /\ Frame
              /\ MetricTypes
              /\ HandlersKnow
              /\ Newest
              /\ Passes

LEMMA KpiCount == Len(M!Kpis) = 5 /\ DOMAIN M!Kpis = 1..5
  BY DEF M!Kpis

LEMMA RecordedNames ==
    ASSUME NEW r \in Recorders
    PROVE  M!Recorded[r] \in Seq(M!Names) /\ M!Recorded[r] # <<>>
  <1>1. /\ M!Recorded["engagement"] = <<"user_engagement">>
        /\ M!Recorded["transaction"] = <<"transaction_volume", "transaction_status">>
        /\ M!Recorded["escrow"] = <<"escrow_success_rate">>
        /\ M!Recorded["dispute"] = <<"dispute_resolution_rate">>
        /\ M!Recorded["revenue"] = <<"revenue_total", "revenue_net">>
        /\ M!Recorded["performance"] = <<"api_response_time">>
    BY DEF M!Recorded
  <1>2. r \in {"engagement", "transaction", "escrow", "dispute", "revenue", "performance"}
    BY ConstantsAssumption
  <1>3. \E X : M!Recorded[r] \in Seq(X) /\ M!Recorded[r] # <<>>
    <2>1. \E a, b : M!Recorded[r] \in {<<a>>, <<a, b>>}
      BY <1>1, <1>2
    <2>2. PICK a, b : M!Recorded[r] \in {<<a>>, <<a, b>>}
      BY <2>1
    <2>3. <<a>> \in Seq({a, b}) /\ <<a, b>> \in Seq({a, b}) /\ <<a>> # <<>> /\ <<a, b>> # <<>>
      OBVIOUS
    <2> QED
      BY <2>2, <2>3
  <1>4. PICK X : M!Recorded[r] \in Seq(X) /\ M!Recorded[r] # <<>>
    BY <1>3
  <1>5. \A i \in DOMAIN M!Recorded[r] : M!Recorded[r][i] \in M!Names
    BY DEF M!Names
  <1>6. PICK s : s = M!Recorded[r]
    OBVIOUS
  <1>7. s \in Seq(M!Names)
    BY <1>4, <1>5, <1>6
  <1> QED
    BY <1>4, <1>6, <1>7

(* A metric built for the first of some names, and the names to follow.    *)
LEMMA StampedRun ==
    ASSUME MetricTypes, NEW names \in Seq(M!Names), names # <<>>
    PROVE  M!Stamped(names) \in MetricRun
  <1>1. Head(names) \in M!Names /\ Tail(names) \in Seq(M!Names)
    OBVIOUS
  <1>2. metricClock \in 0..MaxMetricClock
    BY DEF MetricTypes
  <1> QED
    BY <1>1, <1>2 DEF M!Stamped, M!Recording, M!Metric, MetricRun, M!MetricRow

(* What a value shown makes of the others, and of its own name's.          *)
LEMMA ShownTypes ==
    ASSUME MetricTypes, NEW m \in M!MetricRow, NEW form \in {"date", "text"}
    PROVE  M!Shown(m, form) \in
               [M!Names -> {M!None} \cup [at : 0..MaxMetricClock, form : {"date", "text"}]]
  <1> DEFINE LiveValues == [at : 0..MaxMetricClock, form : {"date", "text"}]
             entry == [at |-> m.at, form |-> form]
             with == IF current[m.name] = M!None \/ M!Later(m.at, form, current[m.name])
                     THEN [current EXCEPT ![m.name] = entry]
                     ELSE current
  <1>1. m.name \in M!Names /\ entry \in LiveValues
    BY DEF M!MetricRow
  <1>2. current \in [M!Names -> {M!None} \cup LiveValues]
    BY DEF MetricTypes
  <1>3. with \in [M!Names -> {M!None} \cup LiveValues]
    BY <1>1, <1>2
  <1>4. M!Shown(m, form) = [n \in M!Names |-> IF M!Expired(with[n]) THEN M!None ELSE with[n]]
    BY DEF M!Shown
  <1> HIDE DEF with, LiveValues
  <1>5. M!Shown(m, form) \in [M!Names -> {M!None} \cup LiveValues]
    BY <1>3, <1>4
  <1> QED
    BY <1>5 DEF LiveValues

LEMMA ShownCovers ==
    ASSUME MetricTypes, NEW m \in M!MetricRow, NEW form \in {"date", "text"},
           current' = M!Shown(m, form),
           NEW k \in M!MetricRow, k.at + MetricHour >= metricClock,
           Covered(k) \/ (k = m /\ form = "date"),
           k = m => form = "text" \/ Pending(m)',
           k # m /\ Pending(k) => Pending(k)'
    PROVE  Covered(k)'
  <1> DEFINE entry == [at |-> m.at, form |-> form]
             with == IF current[m.name] = M!None \/ M!Later(m.at, form, current[m.name])
                     THEN [current EXCEPT ![m.name] = entry]
                     ELSE current
  <1>1. /\ m.name \in M!Names /\ k.name \in M!Names
        /\ m.at \in Nat /\ k.at \in Nat /\ metricClock \in Nat /\ MetricHour \in Nat
    BY ConstantsAssumption DEF M!MetricRow, MetricTypes
  <1>2. /\ current[k.name] # M!None => current[k.name].at \in Nat
        /\ current[m.name] # M!None => /\ current[m.name].at \in Nat
                                       /\ current[m.name].form \in {"date", "text"}
        /\ current[k.name] # M!None => current[k.name].form \in {"date", "text"}
    BY <1>1 DEF MetricTypes
  <1>3. with[k.name] # M!None /\ with[k.name].at \in Nat
    BY <1>1, <1>2 DEF MetricTypes, Covered, M!None
  <1>4. with[k.name].at >= k.at \/ (with[k.name].form = "text" /\ Pending(k)')
    <2>1. CASE k = m
      <3>1. CASE current[m.name] = M!None
        BY <1>1, <2>1, <3>1 DEF MetricTypes
      <3>2. CASE current[m.name] # M!None /\ form = "date"
        BY <1>1, <1>2, <2>1, <3>2 DEF MetricTypes, M!Later
      <3>3. CASE current[m.name] # M!None /\ form = "text"
        <4>1. Covered(m)
          BY <2>1, <3>3
        <4> QED
          BY <1>1, <1>2, <2>1, <3>3, <4>1 DEF MetricTypes, M!Later, Covered
      <3> QED
        BY <3>1, <3>2, <3>3
    <2>2. CASE k # m /\ k.name # m.name
      BY <1>1, <1>2, <2>2 DEF MetricTypes, Covered
    <2>3. CASE k # m /\ k.name = m.name
      <3>1. /\ current[k.name] # M!None
            /\ current[k.name].at >= k.at \/ (current[k.name].form = "text" /\ Pending(k)')
        BY <2>3 DEF Covered
      <3>2. CASE M!Later(m.at, form, current[m.name])
        <4>1. with[k.name] = entry
          BY <1>1, <2>3, <3>2 DEF MetricTypes
        <4>2. form = current[k.name].form /\ m.at > current[k.name].at
          BY <2>3, <3>2 DEF M!Later
        <4> QED
          BY <1>1, <1>2, <3>1, <4>1, <4>2
      <3>3. CASE ~ M!Later(m.at, form, current[m.name])
        <4>1. with[k.name] = current[k.name]
          BY <2>3, <3>1, <3>3
        <4> QED
          BY <3>1, <4>1
      <3> QED
        BY <3>2, <3>3
    <2> QED
      BY <2>1, <2>2, <2>3
  <1>5. ~ M!Expired(with[k.name])
    BY <1>1, <1>3, <1>4 DEF M!Expired
  <1>6. current'[k.name] = with[k.name]
    <2>1. current' = [n \in M!Names |-> IF M!Expired(with[n]) THEN M!None ELSE with[n]]
      BY DEF M!Shown
    <2> HIDE DEF with
    <2> QED
      BY <1>1, <1>5, <2>1
  <1> HIDE DEF with
  <1> QED
    BY <1>3, <1>4, <1>6 DEF Covered

(* What a step leaves as it was.                                           *)
LEMMA KnownStands ==
    ASSUME HandlersKnow, NEW p \in Procs, NEW label, NEW r,
           Moves(p, label, r), Knows(label, r)', rated' = rated
    PROVE  HandlersKnow'
  <1>1. \A q \in Procs \ {p} : Knows(pc[q], run[q])'
    BY DEF HandlersKnow, Knows, Moves, setting
  <1>2. Knows(pc[p], run[p])'
    BY DEF Moves, Knows
  <1> QED
    BY <1>1, <1>2 DEF HandlersKnow

LEMMA PassesStand ==
    ASSUME Passes, MetricTypes, NEW p \in Procs, NEW label, NEW r, Moves(p, label, r),
           kpis' = kpis, pc[p] # "kpi" \/ (faulty /\ label # "kpi"), label = "kpi" => r = 1
    PROVE  Passes'
  <1> SUFFICES ASSUME NEW i \in 1..4
               PROVE  /\ kpis[i] >= kpis[i + 1] + Cardinality(Between(i)')
                      /\ ~faulty => kpis[i] = kpis[i + 1] + Cardinality(Between(i)')
    BY DEF Passes, Moves, setting
  <1>1. Between(i)' \subseteq Between(i)
    BY DEF Between, Moves
  <1>2. ~faulty => Between(i)' = Between(i)
    BY DEF Between, Moves
  <1>3. IsFiniteSet(Between(i)) /\ Cardinality(Between(i)) \in Nat
    BY ConstantsAssumption, FS_Subset, FS_CardinalityType DEF Between
  <1>4. Cardinality(Between(i)') <= Cardinality(Between(i)) /\ Cardinality(Between(i)') \in Nat
    BY <1>1, <1>3, FS_Subset, FS_CardinalityType
  <1>5. kpis[i] \in Nat /\ kpis[i + 1] \in Nat
    BY DEF MetricTypes
  <1> QED
    BY <1>2, <1>3, <1>4, <1>5 DEF Passes

LEMMA NewestStands ==
    ASSUME Newest, NEW p \in Procs, NEW label, NEW r, Moves(p, label, r),
           UNCHANGED <<metricClock, current, metricsQueue>>, metrics' \subseteq metrics,
           Calm => pc[p] \notin Shows /\ label \notin Shows
    PROVE  Newest'
  <1> SUFFICES ASSUME Calm
               PROVE  Newest'
    BY DEF Newest, Calm, Moves, setting
  <1>1. \A m : Showing(m) => Showing(m)'
    BY DEF Showing, Moves
  <1>2. \A m : (Pending(m)' <=> Pending(m)) /\ (Covered(m)' <=> Covered(m))
    BY DEF Covered, Pending
  <1>3. \A q \in Procs : pc'[q] = "broadcast" => q # p
    BY DEF Moves, Shows
  <1>4. \A q \in Procs : pc'[q] = "broadcast" => Pending(run[q].metric)'
    <2> SUFFICES ASSUME NEW q \in Procs, pc'[q] = "broadcast"
                 PROVE  Pending(run[q].metric)'
      OBVIOUS
    <2>1. pc[q] = "broadcast" /\ run'[q] = run[q]
      BY <1>3 DEF Moves
    <2>2. PICK m : m = run[q].metric
      OBVIOUS
    <2> QED
      BY <1>2, <2>1, <2>2 DEF Newest
  <1> QED
    BY <1>1, <1>2, <1>4 DEF Newest

LEMMA QuietKeeps ==
    ASSUME MetricsInv, NEW p \in Procs, NEW label, NEW r, Moves(p, label, r), Frame',
           UNCHANGED metricVars, Knows(label, r)',
           Calm => pc[p] \notin Shows /\ label \notin Shows,
           pc[p] # "kpi" \/ (faulty /\ label # "kpi"), label = "kpi" => r = 1
    PROVE  MetricsInv'
  <1>1. UNCHANGED <<metricClock, metrics, current, metricsQueue, rated, kpis>>
    BY DEF metricVars
  <1>2. MetricTypes'
    BY <1>1 DEF MetricsInv, MetricTypes
  <1>3. HandlersKnow'
    BY <1>1, KnownStands DEF MetricsInv
  <1>4. Newest'
    BY <1>1, NewestStands DEF MetricsInv
  <1>5. Passes'
    BY <1>1, PassesStand DEF MetricsInv
  <1> QED
    BY <1>2, <1>3, <1>4, <1>5 DEF MetricsInv

(* A request begins; counts are read; a pass and a deletion begin; a call  *)
(* is rejected.                                                            *)
LEMMA HandlerKeeps ==
    ASSUME MetricsInv, NEW p \in Procs,
           \/ \E n \in Posted, at \in 0..MaxMetricClock : M!recordMetric(p, n, at)
           \/ \E n \in Posted, i, j \in 0..MaxMetricClock :
                  M!recordBulkMetrics(p, <<M!Metric(n, i, FALSE), M!Metric(n, j, FALSE)>>)
           \/ \E r \in Recorders, done \in BOOLEAN : M!record(p, r, done)
           \/ M!countAll(p)
           \/ M!countSuccessful(p)
           \/ M!saveRate(p)
           \/ M!calculateAutomaticKpis(p)
           \/ \E cutoff \in 0..MaxMetricClock : M!deleteOldMetrics(p, cutoff)
           \/ M!metricsFail(p)
    PROVE  MetricsInv'
  <1> DEFINE Stepped(label, r) ==
               /\ pc' = [pc EXCEPT ![p] = label] /\ run' = [run EXCEPT ![p] = r]
               /\ UNCHANGED setting
               /\ UNCHANGED metricVars
               /\ overlap \/ Idle \/ pc[p] # "idle" \/ label = "idle"
               /\ Knows(label, r)
               /\ Calm => pc[p] \notin Shows /\ label \notin Shows
               /\ pc[p] # "kpi" \/ (faulty /\ label # "kpi")
               /\ label = "kpi" => r = 1
  <1> USE DEF Shows
  <1>1. ASSUME NEW label, NEW r, M!Request(p, label, r)
        PROVE  /\ pc' = [pc EXCEPT ![p] = label] /\ run' = [run EXCEPT ![p] = r]
               /\ UNCHANGED setting /\ pc[p] = "idle" /\ (overlap \/ Idle)
    BY <1>1 DEF M!Request, M!MayStart, M!Idle, Idle, M!setting, setting
  <1>2. ASSUME NEW label, NEW r, M!GotoWith(p, label, r)
        PROVE  /\ pc' = [pc EXCEPT ![p] = label] /\ run' = [run EXCEPT ![p] = r]
               /\ UNCHANGED setting
    BY <1>2 DEF M!GotoWith, M!setting, setting
  <1>3. MetricTypes /\ Knows(pc[p], run[p])
    BY DEF MetricsInv, HandlersKnow
  <1>4. PICK label, r : Stepped(label, r)
    <2>1. CASE \E n \in Posted, at \in 0..MaxMetricClock : M!recordMetric(p, n, at)
      <3>1. PICK n \in Posted, at \in 0..MaxMetricClock : M!recordMetric(p, n, at)
        BY <2>1
      <3>2. PICK r : r = M!Recording(M!Metric(n, at, TRUE), <<>>)
        OBVIOUS
      <3>3. n \in M!Names /\ <<>> \in Seq(M!Names)
        BY DEF M!Names
      <3>4. r \in MetricRun
        BY <3>2, <3>3 DEF M!Recording, M!Metric, MetricRun, M!MetricRow
      <3>5. M!Request(p, "save", r) /\ UNCHANGED metricVars
        BY <3>1, <3>2 DEF M!recordMetric, M!Request, M!rows, metricVars
      <3>6. Stepped("save", r)
        BY <1>1, <3>4, <3>5 DEF Knows
      <3> HIDE DEF Stepped
      <3> QED
        BY <3>6
    <2>2. CASE \E n \in Posted, i, j \in 0..MaxMetricClock :
                   M!recordBulkMetrics(p, <<M!Metric(n, i, FALSE), M!Metric(n, j, FALSE)>>)
      <3>1. PICK n \in Posted, i, j \in 0..MaxMetricClock :
                M!recordBulkMetrics(p, <<M!Metric(n, i, FALSE), M!Metric(n, j, FALSE)>>)
        BY <2>2
      <3>2. PICK r : r = <<M!Metric(n, i, FALSE), M!Metric(n, j, FALSE)>>
        OBVIOUS
      <3>3. n \in M!Names
        BY DEF M!Names
      <3>4. M!Metric(n, i, FALSE) \in M!MetricRow /\ M!Metric(n, j, FALSE) \in M!MetricRow
        BY <3>3 DEF M!Metric, M!MetricRow
      <3>5. r \in Job /\ \A k \in DOMAIN r : ~ r[k].single
        <4> DEFINE a == M!Metric(n, i, FALSE)
                   b == M!Metric(n, j, FALSE)
        <4>1. ~ a.single /\ ~ b.single
          BY DEF M!Metric
        <4> HIDE DEF a, b
        <4>2. r = <<a, b>> /\ a \in M!MetricRow /\ b \in M!MetricRow
          BY <3>2, <3>4 DEF a, b
        <4> QED
          BY <4>1, <4>2 DEF Job
      <3>6. M!Request(p, "saveBulk", r) /\ UNCHANGED metricVars
        BY <3>1, <3>2 DEF M!recordBulkMetrics, M!Request, M!rows, metricVars
      <3>7. Stepped("saveBulk", r)
        BY <1>1, <3>5, <3>6 DEF Knows
      <3> HIDE DEF Stepped
      <3> QED
        BY <3>7
    <2>3. CASE \E c \in Recorders, done \in BOOLEAN : M!record(p, c, done)
      <3>1. PICK c \in Recorders, done \in BOOLEAN : M!record(p, c, done)
        BY <2>3
      <3>2. PICK r : r = [recorder |-> c, done |-> done, total |-> 0, successful |-> 0]
        OBVIOUS
      <3>3. M!Request(p, "own", r) /\ UNCHANGED metricVars
        BY <3>1, <3>2 DEF M!record, M!Request, M!rows, metricVars
      <3>4. r \in RatingRun
        BY <3>2 DEF RatingRun
      <3>5. Stepped("own", r)
        BY <1>1, <3>3, <3>4 DEF Knows
      <3> HIDE DEF Stepped
      <3> QED
        BY <3>5
    <2>4. CASE M!countAll(p)
      <3>1. PICK r : r = [run[p] EXCEPT !.total = rated[run[p].recorder].total]
        OBVIOUS
      <3>2. pc[p] = "count" /\ M!GotoWith(p, "countDone", r) /\ UNCHANGED metricVars
        BY <2>4, <3>1 DEF M!countAll, M!GotoWith, M!rows, metricVars
      <3>3. run[p] \in RatingRun /\ run[p].recorder \in M!Rating
        BY <1>3, <3>2 DEF Knows
      <3>4. rated[run[p].recorder].total \in Nat
        BY <1>3, <3>3 DEF MetricTypes
      <3>5. /\ r \in RatingRun /\ r.recorder = run[p].recorder
            /\ r.total = rated[r.recorder].total
        BY <3>1, <3>3, <3>4 DEF RatingRun
      <3>6. Stepped("countDone", r)
        BY <1>2, <3>2, <3>3, <3>5 DEF Knows
      <3> HIDE DEF Stepped
      <3> QED
        BY <3>6
    <2>5. CASE M!countSuccessful(p)
      <3>1. PICK r : r = [run[p] EXCEPT !.successful = rated[run[p].recorder].done]
        OBVIOUS
      <3>2. pc[p] = "countDone" /\ M!GotoWith(p, "successRate", r) /\ UNCHANGED metricVars
        BY <2>5, <3>1 DEF M!countSuccessful, M!GotoWith, M!rows, metricVars
      <3>3. /\ run[p] \in RatingRun /\ run[p].recorder \in M!Rating
            /\ ~overlap => run[p].total = rated[run[p].recorder].total
        BY <1>3, <3>2 DEF Knows
      <3>4. /\ rated[run[p].recorder].done \in Nat
            /\ rated[run[p].recorder].done <= rated[run[p].recorder].total
        BY <1>3, <3>3 DEF MetricTypes
      <3>5. /\ r \in RatingRun /\ r.recorder = run[p].recorder
            /\ ~overlap => r.successful <= r.total
        BY <3>1, <3>3, <3>4 DEF RatingRun
      <3>6. Stepped("successRate", r)
        BY <1>2, <3>2, <3>3, <3>5 DEF Knows
      <3> HIDE DEF Stepped
      <3> QED
        BY <3>6
    <2>6. CASE M!saveRate(p)
      <3>1. PICK r : r = M!Stamped(M!Recorded[run[p].recorder])
        OBVIOUS
      <3>2. pc[p] = "successRate" /\ M!GotoWith(p, "save", r) /\ UNCHANGED metricVars
        BY <2>6, <3>1 DEF M!saveRate, M!GotoWith, M!rows, metricVars
      <3>3. run[p].recorder \in Recorders
        BY <1>3, <3>2 DEF Knows, RatingRun
      <3>4. r \in MetricRun
        BY <1>3, <3>1, <3>3, RecordedNames, StampedRun
      <3>5. Stepped("save", r)
        BY <1>2, <3>2, <3>4 DEF Knows
      <3> HIDE DEF Stepped
      <3> QED
        BY <3>5
    <2>7. CASE M!calculateAutomaticKpis(p)
      <3>1. M!Request(p, "kpi", 1) /\ UNCHANGED metricVars
        BY <2>7 DEF M!calculateAutomaticKpis, M!Request, M!rows, metricVars
      <3>2. Stepped("kpi", 1)
        BY <1>1, <3>1 DEF Knows
      <3> HIDE DEF Stepped
      <3> QED
        BY <3>2
    <2>8. CASE \E cutoff \in 0..MaxMetricClock : M!deleteOldMetrics(p, cutoff)
      <3>1. PICK r \in 0..MaxMetricClock : M!deleteOldMetrics(p, r)
        BY <2>8
      <3>2. M!Request(p, "delete", r) /\ UNCHANGED metricVars
        BY <3>1 DEF M!deleteOldMetrics, M!Request, M!rows, metricVars
      <3>3. Stepped("delete", r)
        BY <1>1, <3>2 DEF Knows
      <3> HIDE DEF Stepped
      <3> QED
        BY <3>3
    <2>9. CASE M!metricsFail(p)
      <3>1. PICK r : r = M!NoRun
        OBVIOUS
      <3>2. faulty /\ M!GotoWith(p, "idle", r) /\ UNCHANGED metricVars
        BY <2>9, <3>1 DEF M!metricsFail, M!End, M!GotoWith, M!rows, metricVars
      <3>3. Stepped("idle", r)
        BY <1>2, <3>2 DEF Knows, Calm
      <3> HIDE DEF Stepped
      <3> QED
        BY <3>3
    <2> QED
      BY <2>1, <2>2, <2>3, <2>4, <2>5, <2>6, <2>7, <2>8, <2>9
  <1>5. Frame' /\ Moves(p, label, r)
    BY <1>4, MovesFrame DEF MetricsInv
  <1>6. Knows(label, r)'
    BY <1>4 DEF Knows, setting, metricVars
  <1>7. /\ UNCHANGED metricVars
        /\ Calm => pc[p] \notin Shows /\ label \notin Shows
        /\ pc[p] # "kpi" \/ (faulty /\ label # "kpi")
        /\ label = "kpi" => r = 1
    BY <1>4
  <1> HIDE DEF Stepped, Shows
  <1> QED
    BY <1>5, <1>6, <1>7, QuietKeeps

(* The queue, and what it has still to show.                               *)
LEMMA JobsAppended ==
    ASSUME metricsQueue \in Seq(Job), NEW batch \in Job,
           metricsQueue' = Append(metricsQueue, batch)
    PROVE  /\ metricsQueue' \in Seq(Job)
           /\ \A m : Pending(m) => Pending(m)'
           /\ \A j \in DOMAIN batch : Pending(batch[j])'
  <1> DEFINE n == Len(metricsQueue)
  <1>1. /\ metricsQueue' \in Seq(Job) /\ n \in Nat
        /\ DOMAIN metricsQueue = 1..n /\ DOMAIN metricsQueue' = 1..(n + 1)
        /\ \A i \in 1..n : metricsQueue'[i] = metricsQueue[i]
        /\ metricsQueue'[n + 1] = batch
    <2> HIDE DEF Job
    <2> QED
      OBVIOUS
  <1> HIDE DEF n
  <1>2. \A i \in 1..n : i \in 1..(n + 1)
    BY <1>1
  <1>3. \A m : Pending(m) => Pending(m)'
    BY <1>1, <1>2 DEF Pending
  <1>4. n + 1 \in DOMAIN metricsQueue'
    BY <1>1
  <1>5. \A j \in DOMAIN batch : Pending(batch[j])'
    <2> SUFFICES ASSUME NEW j \in DOMAIN batch
                 PROVE  Pending(batch[j])'
      OBVIOUS
    <2>1. PICK m : m = batch[j]
      OBVIOUS
    <2>2. Pending(m)'
      BY <1>1, <1>4, <2>1 DEF Pending
    <2> QED
      BY <2>1, <2>2
  <1> QED
    BY <1>1, <1>3, <1>5

LEMMA JobWorkedOff ==
    ASSUME metricsQueue \in Seq(Job), NEW i \in DOMAIN metricsQueue,
           metricsQueue' = IF Len(metricsQueue[i]) = 1
                           THEN SubSeq(metricsQueue, 1, i - 1)
                                    \o SubSeq(metricsQueue, i + 1, Len(metricsQueue))
                           ELSE [metricsQueue EXCEPT ![i] = Tail(@)]
    PROVE  /\ metricsQueue' \in Seq(Job)
           /\ metricsQueue[i] \in Job
           /\ Head(metricsQueue[i]) \in M!MetricRow
           /\ \A m : Pending(m) => Pending(m)' \/ m = Head(metricsQueue[i])
  <1> DEFINE n == Len(metricsQueue)
             batch == metricsQueue[i]
  <1>1. n \in Nat /\ DOMAIN metricsQueue = 1..n /\ i \in 1..n
    OBVIOUS
  <1>2. batch \in Job
    BY <1>1
  <1>3. /\ batch \in Seq(M!MetricRow) /\ Len(batch) \in Nat \ {0} /\ DOMAIN batch = 1..Len(batch)
        /\ Head(batch) = batch[1] /\ Head(batch) \in M!MetricRow
    BY <1>2 DEF Job
  <1>4. CASE Len(batch) = 1
    <2> DEFINE front == SubSeq(metricsQueue, 1, i - 1)
               back == SubSeq(metricsQueue, i + 1, n)
    <2>1. metricsQueue' = front \o back
      BY <1>4
    <2>2. /\ front \in Seq(Job) /\ Len(front) = i - 1
          /\ \A k \in 1..(i - 1) : front[k] = metricsQueue[k]
      <3> HIDE DEF Job
      <3> QED
        BY <1>1
    <2>3. /\ back \in Seq(Job) /\ Len(back) = n - i
          /\ \A k \in 1..(n - i) : back[k] = metricsQueue[i + k]
      <3> HIDE DEF Job
      <3> QED
        BY <1>1
    <2> HIDE DEF front, back
    <2>4. /\ metricsQueue' \in Seq(Job) /\ Len(metricsQueue') = n - 1
          /\ DOMAIN metricsQueue' = 1..(n - 1)
          /\ \A k \in 1..(i - 1) : metricsQueue'[k] = metricsQueue[k]
          /\ \A k \in i..(n - 1) : metricsQueue'[k] = metricsQueue[k + 1]
      <3> HIDE DEF Job, n
      <3>1. front \o back \in Seq(Job) /\ Len(front \o back) = n - 1
        <4>1. front \o back \in Seq(Job) /\ Len(front \o back) = Len(front) + Len(back)
          BY <2>2, <2>3, ConcatProperties
        <4>2. (i - 1) + (n - i) = n - 1
          BY <1>1
        <4> QED
          BY <2>2, <2>3, <4>1, <4>2
      <3>2. DOMAIN (front \o back) = 1..(n - 1)
        BY <1>1, <3>1
      <3>3. \A k \in 1..(n - 1) : (front \o back)[k] =
                IF k <= i - 1 THEN front[k] ELSE back[k - (i - 1)]
        BY <1>1, <2>2, <2>3, ConcatProperties
      <3>4. \A k \in i..(n - 1) : k - (i - 1) \in 1..(n - i) /\ i + (k - (i - 1)) = k + 1
        BY <1>1
      <3>5. \A k \in 1..(i - 1) : (front \o back)[k] = metricsQueue[k]
        BY <1>1, <2>2, <3>3
      <3>6. ASSUME NEW k \in i..(n - 1)
            PROVE  (front \o back)[k] = metricsQueue[k + 1]
        <4>1. k \in 1..(n - 1) /\ ~ (k <= i - 1)
          BY <1>1
        <4>2. (front \o back)[k] = back[k - (i - 1)]
          BY <3>3, <4>1
        <4>3. back[k - (i - 1)] = metricsQueue[i + (k - (i - 1))]
          BY <2>3, <3>4
        <4> QED
          BY <3>4, <4>2, <4>3
      <3> QED
        BY <2>1, <3>1, <3>2, <3>5, <3>6
    <2>5. ASSUME NEW m, Pending(m), m # Head(batch)
          PROVE  Pending(m)'
      <3>0. PICK k \in 1..n : \E j \in DOMAIN metricsQueue[k] : metricsQueue[k][j] = m
        BY <1>1, <2>5 DEF Pending
      <3>1. PICK j \in DOMAIN metricsQueue[k] : metricsQueue[k][j] = m
        BY <3>0
      <3>2. k # i
        BY <1>3, <1>4, <2>5, <3>1
      <3>3. CASE k < i
        <4>1. k \in 1..(i - 1) /\ k \in 1..(n - 1)
          BY <1>1, <3>3
        <4> HIDE DEF n
        <4> QED
          BY <2>4, <3>1, <4>1 DEF Pending
      <3>4. CASE k > i
        <4>1. k - 1 \in i..(n - 1) /\ k - 1 \in 1..(n - 1) /\ (k - 1) + 1 = k
          BY <1>1, <3>4
        <4>2. metricsQueue'[k - 1] = metricsQueue[k]
          BY <2>4, <4>1
        <4> HIDE DEF n
        <4> QED
          BY <2>4, <3>1, <4>1, <4>2 DEF Pending
      <3> QED
        BY <1>1, <3>2, <3>3, <3>4
    <2> QED
      BY <1>2, <1>3, <2>4, <2>5
  <1>5. CASE Len(batch) # 1
    <2>1. metricsQueue' = [metricsQueue EXCEPT ![i] = Tail(batch)]
      BY <1>5
    <2>2. /\ Tail(batch) \in Seq(M!MetricRow) /\ Len(Tail(batch)) = Len(batch) - 1
          /\ \A j \in 1..(Len(batch) - 1) : Tail(batch)[j] = batch[j + 1]
      BY <1>3
    <2>3. Tail(batch) \in Job
      <3>1. Len(Tail(batch)) # 0
        BY <1>3, <1>5, <2>2
      <3> HIDE DEF batch
      <3>2. Tail(batch) # <<>>
        <4>1. PICK t : t = Tail(batch)
          OBVIOUS
        <4>2. Len(t) # 0 => t # <<>>
          OBVIOUS
        <4> QED
          BY <3>1, <4>1, <4>2
      <3> QED
        BY <2>2, <3>2 DEF Job
    <2> HIDE DEF n, batch
    <2>4. /\ metricsQueue' \in Seq(Job) /\ DOMAIN metricsQueue' = 1..n
          /\ metricsQueue'[i] = Tail(batch)
          /\ \A k \in 1..n : k # i => metricsQueue'[k] = metricsQueue[k]
      <3> HIDE DEF Job
      <3>1. i \in 1..Len(metricsQueue)
        BY <1>1 DEF n
      <3>2. [metricsQueue EXCEPT ![i] = Tail(batch)] \in Seq(Job)
        BY <2>3, <3>1, ExceptSeq
      <3> QED
        BY <1>1, <2>1, <2>3, <3>2 DEF n
    <2>5. ASSUME NEW m, Pending(m), m # Head(batch)
          PROVE  Pending(m)'
      <3>0. PICK k \in 1..n : \E j \in DOMAIN metricsQueue[k] : metricsQueue[k][j] = m
        BY <1>1, <2>5 DEF Pending
      <3>1. PICK j \in DOMAIN metricsQueue[k] : metricsQueue[k][j] = m
        BY <3>0
      <3>2. CASE k # i
        BY <2>4, <3>1, <3>2 DEF Pending
      <3>3. CASE k = i
        <4>1. j \in 2..Len(batch)
          BY <1>3, <2>5, <3>1, <3>3 DEF batch
        <4>2. j - 1 \in DOMAIN Tail(batch) /\ Tail(batch)[j - 1] = m
          <5>1. j - 1 \in 1..(Len(batch) - 1) /\ (j - 1) + 1 = j
            BY <1>3, <4>1
          <5> QED
            BY <2>2, <3>1, <3>3, <5>1 DEF batch
        <4> QED
          BY <1>1, <2>4, <4>2 DEF Pending
      <3> QED
        BY <3>2, <3>3
    <2> QED
      BY <1>2, <1>3, <2>4, <2>5 DEF batch
  <1> QED
    BY <1>4, <1>5

(* A metric or several are saved; old ones are deleted.                    *)
LEMMA SaveMetricKeeps ==
    ASSUME MetricsInv, NEW p \in Procs, M!saveMetric(p)
    PROVE  MetricsInv'
  <1>1. PICK r : r = run[p]
    OBVIOUS
  <1>2. /\ pc[p] = "save" /\ pc' = [pc EXCEPT ![p] = "queue"] /\ UNCHANGED setting
        /\ run' = [run EXCEPT ![p] = r]
        /\ metrics' = metrics \cup {r.metric}
        /\ UNCHANGED <<metricClock, current, metricsQueue, rated, kpis>>
    BY <1>1 DEF M!saveMetric, M!Goto, M!setting, setting, MetricsInv, Frame
  <1>3. Frame' /\ Moves(p, "queue", r)
    BY <1>2, MovesFrame DEF MetricsInv
  <1>4. r \in MetricRun /\ MetricTypes /\ Newest
    BY <1>1, <1>2 DEF MetricsInv, HandlersKnow, Knows
  <1>5. r.metric \in M!MetricRow
    BY <1>4 DEF MetricRun
  <1>6. MetricTypes'
    BY <1>2, <1>4, <1>5 DEF MetricTypes
  <1>7. HandlersKnow'
    BY <1>2, <1>3, <1>4, KnownStands DEF MetricsInv, Knows
  <1>8. Passes'
    BY <1>2, <1>3, PassesStand DEF MetricsInv
  <1>9. Newest'
    <2> SUFFICES ASSUME Calm
                 PROVE  Newest'
      BY <1>2 DEF Newest, Calm, setting
    <2>1. \A m : (Showing(m) => Showing(m)') /\ Showing(r.metric)'
      BY <1>2, <1>3 DEF Showing, Moves, Shows
    <2>2. \A m : (Pending(m)' <=> Pending(m)) /\ (Covered(m)' <=> Covered(m))
      BY <1>2 DEF Covered, Pending
    <2>3. ASSUME NEW q \in Procs, pc'[q] = "broadcast"
          PROVE  Pending(run[q].metric)'
      <3>1. pc[q] = "broadcast" /\ run'[q] = run[q]
        BY <1>3, <2>3 DEF Moves
      <3>2. PICK m : m = run[q].metric
        OBVIOUS
      <3> QED
        BY <1>4, <2>2, <3>1, <3>2 DEF Newest
    <2> QED
      BY <1>2, <1>4, <2>1, <2>2, <2>3 DEF Newest
  <1> QED
    BY <1>3, <1>6, <1>7, <1>8, <1>9 DEF MetricsInv

LEMMA SaveBulkKeeps ==
    ASSUME MetricsInv, NEW p \in Procs, M!saveBulk(p)
    PROVE  MetricsInv'
  <1>1. PICK r : r = run[p]
    OBVIOUS
  <1>2. /\ pc[p] = "saveBulk" /\ pc' = [pc EXCEPT ![p] = "queueBulk"] /\ UNCHANGED setting
        /\ run' = [run EXCEPT ![p] = r]
        /\ metrics' = metrics \cup {r[i] : i \in DOMAIN r}
        /\ UNCHANGED <<metricClock, current, metricsQueue, rated, kpis>>
    BY <1>1 DEF M!saveBulk, M!Goto, M!setting, setting, MetricsInv, Frame
  <1>3. Frame' /\ Moves(p, "queueBulk", r)
    BY <1>2, MovesFrame DEF MetricsInv
  <1>4. r \in Job /\ (\A i \in DOMAIN r : ~ r[i].single) /\ MetricTypes /\ Newest
    BY <1>1, <1>2 DEF MetricsInv, HandlersKnow, Knows
  <1>5. \A i \in DOMAIN r : r[i] \in M!MetricRow
    BY <1>4 DEF Job
  <1>6. MetricTypes'
    BY <1>2, <1>4, <1>5 DEF MetricTypes
  <1>7. HandlersKnow'
    BY <1>2, <1>3, <1>4, KnownStands DEF MetricsInv, Knows
  <1>8. Passes'
    BY <1>2, <1>3, PassesStand DEF MetricsInv
  <1>9. Newest'
    <2> SUFFICES ASSUME Calm
                 PROVE  Newest'
      BY <1>2 DEF Newest, Calm, setting
    <2>1. \A m : Showing(m) => Showing(m)'
      BY <1>2, <1>3 DEF Showing, Moves, Shows
    <2>2. \A m : (Pending(m)' <=> Pending(m)) /\ (Covered(m)' <=> Covered(m))
      BY <1>2 DEF Covered, Pending
    <2>3. ASSUME NEW q \in Procs, pc'[q] = "broadcast"
          PROVE  Pending(run[q].metric)'
      <3>1. pc[q] = "broadcast" /\ run'[q] = run[q]
        BY <1>3, <2>3 DEF Moves
      <3>2. PICK m : m = run[q].metric
        OBVIOUS
      <3> QED
        BY <1>4, <2>2, <3>1, <3>2 DEF Newest
    <2>4. \A m \in metrics' : m.single => m \in metrics
      BY <1>2, <1>4
    <2> QED
      BY <1>2, <1>4, <2>1, <2>2, <2>3, <2>4 DEF Newest
  <1> QED
    BY <1>3, <1>6, <1>7, <1>8, <1>9 DEF MetricsInv

LEMMA DeleteKeeps ==
    ASSUME MetricsInv, NEW p \in Procs, M!deleteRows(p)
    PROVE  MetricsInv'
  <1>1. PICK r : r = M!NoRun
    OBVIOUS
  <1>2. /\ pc[p] = "delete" /\ pc' = [pc EXCEPT ![p] = "idle"] /\ UNCHANGED setting
        /\ run' = [run EXCEPT ![p] = r]
        /\ metrics' \subseteq metrics
        /\ UNCHANGED <<metricClock, current, metricsQueue, rated, kpis>>
    BY <1>1 DEF M!deleteRows, M!End, M!GotoWith, M!setting, setting
  <1>3. Frame' /\ Moves(p, "idle", r)
    BY <1>2, MovesFrame DEF MetricsInv
  <1>6. MetricTypes'
    BY <1>2 DEF MetricsInv, MetricTypes
  <1>7. HandlersKnow'
    BY <1>2, <1>3, KnownStands DEF MetricsInv, Knows
  <1>8. Passes'
    BY <1>2, <1>3, PassesStand DEF MetricsInv
  <1>9. Newest'
    BY <1>2, <1>3, NewestStands DEF MetricsInv, Shows
  <1> QED
    BY <1>3, <1>6, <1>7, <1>8, <1>9 DEF MetricsInv

(* A metric, or several, are put on the queue.                             *)
LEMMA QueueMetricKeeps ==
    ASSUME MetricsInv, NEW p \in Procs, M!queueMetric(p)
    PROVE  MetricsInv'
  <1>1. PICK r : r = run[p]
    OBVIOUS
  <1>2. /\ pc[p] = "queue" /\ pc' = [pc EXCEPT ![p] = "broadcast"] /\ UNCHANGED setting
        /\ run' = [run EXCEPT ![p] = r]
        /\ metricsQueue' = Append(metricsQueue, <<r.metric>>)
        /\ UNCHANGED <<metricClock, current, metrics, rated, kpis>>
    BY <1>1 DEF M!queueMetric, M!Goto, M!rows, M!setting, setting, MetricsInv, Frame
  <1>3. Frame' /\ Moves(p, "broadcast", r)
    BY <1>2, MovesFrame DEF MetricsInv
  <1>4. r \in MetricRun /\ MetricTypes /\ Newest
    BY <1>1, <1>2 DEF MetricsInv, HandlersKnow, Knows
  <1>5. PICK batch : batch = <<r.metric>>
    OBVIOUS
  <1>6. batch \in Job /\ DOMAIN batch = {1} /\ batch[1] = r.metric
    <2>1. PICK m \in M!MetricRow : m = r.metric
      BY <1>4 DEF MetricRun
    <2> QED
      BY <1>5, <2>1 DEF Job
  <1>7. /\ metricsQueue' \in Seq(Job)
        /\ \A m : Pending(m) => Pending(m)'
        /\ \A j \in DOMAIN batch : Pending(batch[j])'
    BY <1>2, <1>4, <1>5, <1>6, JobsAppended DEF MetricTypes
  <1>8. Pending(r.metric)'
    <2>1. PICK m : m = batch[1]
      OBVIOUS
    <2>2. Pending(m)'
      BY <1>6, <1>7, <2>1
    <2> QED
      BY <1>6, <2>1, <2>2
  <1>9. MetricTypes'
    BY <1>2, <1>4, <1>7 DEF MetricTypes
  <1>10. HandlersKnow'
    BY <1>2, <1>3, <1>4, KnownStands DEF MetricsInv, Knows
  <1>11. Passes'
    BY <1>2, <1>3, PassesStand DEF MetricsInv
  <1>12. Newest'
    <2> SUFFICES ASSUME Calm
                 PROVE  Newest'
      BY <1>2 DEF Newest, Calm, setting
    <2>1. \A m : Showing(m) => Showing(m)'
      BY <1>1, <1>2, <1>3 DEF Showing, Moves, Shows
    <2>2. \A m : Covered(m) => Covered(m)'
      BY <1>2, <1>7 DEF Covered
    <2>3. ASSUME NEW q \in Procs, pc'[q] = "broadcast"
          PROVE  Pending(run[q].metric)'
      <3>1. CASE q = p
        BY <1>3, <1>8, <3>1 DEF Moves, Pending
      <3>2. CASE q # p
        <4>1. pc[q] = "broadcast" /\ run'[q] = run[q]
          BY <1>3, <2>3, <3>2 DEF Moves
        <4>2. PICK m : m = run[q].metric
          OBVIOUS
        <4> QED
          BY <1>4, <1>7, <4>1, <4>2 DEF Newest
      <3> QED
        BY <3>1, <3>2
    <2> QED
      BY <1>2, <1>4, <2>1, <2>2, <2>3 DEF Newest
  <1> QED
    BY <1>3, <1>9, <1>10, <1>11, <1>12 DEF MetricsInv

LEMMA QueueBulkKeeps ==
    ASSUME MetricsInv, NEW p \in Procs, M!queueBulk(p)
    PROVE  MetricsInv'
  <1>1. PICK r : r = M!NoRun
    OBVIOUS
  <1>2. /\ pc[p] = "queueBulk" /\ pc' = [pc EXCEPT ![p] = "idle"] /\ UNCHANGED setting
        /\ run' = [run EXCEPT ![p] = r]
        /\ metricsQueue' = Append(metricsQueue, run[p])
        /\ UNCHANGED <<metricClock, current, metrics, rated, kpis>>
    BY <1>1 DEF M!queueBulk, M!End, M!GotoWith, M!rows, M!setting, setting
  <1>3. Frame' /\ Moves(p, "idle", r)
    BY <1>2, MovesFrame DEF MetricsInv
  <1>4. PICK batch : batch = run[p]
    OBVIOUS
  <1>5. batch \in Job /\ MetricTypes /\ Newest
    BY <1>2, <1>4 DEF MetricsInv, HandlersKnow, Knows
  <1>6. /\ metricsQueue' \in Seq(Job)
        /\ \A m : Pending(m) => Pending(m)'
    BY <1>2, <1>4, <1>5, JobsAppended DEF MetricTypes
  <1>7. MetricTypes'
    BY <1>2, <1>5, <1>6 DEF MetricTypes
  <1>8. HandlersKnow'
    BY <1>2, <1>3, KnownStands DEF MetricsInv, Knows
  <1>9. Passes'
    BY <1>2, <1>3, PassesStand DEF MetricsInv
  <1>10. Newest'
    <2> SUFFICES ASSUME Calm
                 PROVE  Newest'
      BY <1>2 DEF Newest, Calm, setting
    <2>1. \A m : Showing(m) => Showing(m)'
      BY <1>2, <1>3 DEF Showing, Moves, Shows
    <2>2. \A m : Covered(m) => Covered(m)'
      BY <1>2, <1>6 DEF Covered
    <2>3. ASSUME NEW q \in Procs, pc'[q] = "broadcast"
          PROVE  Pending(run[q].metric)'
      <3>1. pc[q] = "broadcast" /\ run'[q] = run[q]
        BY <1>3, <2>3 DEF Moves
      <3>2. PICK m : m = run[q].metric
        OBVIOUS
      <3> QED
        BY <1>5, <1>6, <3>1, <3>2 DEF Newest
    <2> QED
      BY <1>2, <1>5, <2>1, <2>2, <2>3 DEF Newest
  <1> QED
    BY <1>3, <1>7, <1>8, <1>9, <1>10 DEF MetricsInv

(* A metric is shown live, by the request and by the queue.                *)
LEMMA BroadcastKeeps ==
    ASSUME MetricsInv, NEW p \in Procs, M!broadcastMetricUpdate(p)
    PROVE  MetricsInv'
  <1>1. PICK m : m = run[p].metric
    OBVIOUS
  <1>2. /\ pc[p] = "broadcast" /\ current' = M!Shown(m, "date")
        /\ UNCHANGED <<metricClock, metrics, metricsQueue, rated, kpis>>
    BY <1>1 DEF M!broadcastMetricUpdate, M!rows
  <1>3. run[p] \in MetricRun /\ MetricTypes /\ Newest
    BY <1>2 DEF MetricsInv, HandlersKnow, Knows
  <1>4. m \in M!MetricRow
    BY <1>1, <1>3 DEF MetricRun
  <1> DEFINE Stepped(label, r) ==
               /\ pc' = [pc EXCEPT ![p] = label] /\ run' = [run EXCEPT ![p] = r]
               /\ UNCHANGED setting /\ label \in {"idle", "save"} /\ Knows(label, r)
  <1>5. PICK label, r : Stepped(label, r)
    <2>1. CASE run[p].names = <<>>
      <3>1. PICK r : r = M!NoRun
        OBVIOUS
      <3>2. M!GotoWith(p, "idle", r)
        BY <2>1, <3>1 DEF M!broadcastMetricUpdate, M!End
      <3>3. Stepped("idle", r)
        BY <3>2 DEF M!GotoWith, M!setting, setting, Knows
      <3> HIDE DEF Stepped
      <3> QED
        BY <3>3
    <2>2. CASE run[p].names # <<>>
      <3>1. PICK r : r = M!Stamped(run[p].names)
        OBVIOUS
      <3>2. M!GotoWith(p, "save", r)
        BY <2>2, <3>1 DEF M!broadcastMetricUpdate
      <3>3. run[p].names \in Seq(M!Names)
        BY <1>3 DEF MetricRun
      <3>4. r \in MetricRun
        BY <1>3, <2>2, <3>1, <3>3, StampedRun
      <3>5. Stepped("save", r)
        BY <3>2, <3>4 DEF M!GotoWith, M!setting, setting, Knows
      <3> HIDE DEF Stepped
      <3> QED
        BY <3>5
    <2> QED
      BY <2>1, <2>2
  <1>6. Frame' /\ Moves(p, label, r)
    BY <1>2, <1>5, MovesFrame DEF MetricsInv
  <1>7. MetricTypes'
    BY <1>2, <1>3, <1>4, ShownTypes DEF MetricTypes
  <1>8. HandlersKnow'
    <2>1. Knows(label, r)'
      BY <1>2, <1>5 DEF Knows, setting
    <2> QED
      BY <1>2, <1>6, <2>1, KnownStands DEF MetricsInv
  <1>9. Passes'
    BY <1>2, <1>3, <1>5, <1>6, PassesStand DEF MetricsInv
  <1>10. Newest'
    <2> SUFFICES ASSUME Calm
                 PROVE  Newest'
      BY <1>5 DEF Newest, Calm, setting
    <2>1. \A k : Showing(k) /\ k # m => Showing(k)'
      BY <1>1, <1>6 DEF Showing, Moves
    <2>2. \A k : Pending(k) => Pending(k)'
      BY <1>2 DEF Pending
    <2>3. Pending(m)
      BY <1>1, <1>2, <1>3 DEF Newest
    <2>4. ASSUME NEW k \in metrics, k.single, k.at + MetricHour >= metricClock
          PROVE  Showing(k)' \/ Covered(k)'
      <3>1. k \in M!MetricRow
        BY <1>3 DEF MetricTypes
      <3>2. Showing(k) \/ Covered(k)
        BY <1>3, <2>4 DEF Newest
      <3>3. CASE k = m \/ Covered(k)
        BY <1>2, <1>3, <1>4, <2>2, <2>3, <2>4, <3>1, <3>3, ShownCovers
      <3>4. CASE k # m /\ Showing(k)
        BY <2>1, <3>4
      <3> QED
        BY <3>2, <3>3, <3>4
    <2>5. ASSUME NEW q \in Procs, pc'[q] = "broadcast"
          PROVE  Pending(run[q].metric)'
      <3>1. pc[q] = "broadcast" /\ run'[q] = run[q]
        BY <1>5, <1>6, <2>5 DEF Moves
      <3>2. PICK k : k = run[q].metric
        OBVIOUS
      <3> QED
        BY <1>3, <2>2, <3>1, <3>2 DEF Newest
    <2> QED
      BY <1>2, <2>4, <2>5 DEF Newest
  <1> QED
    BY <1>6, <1>7, <1>8, <1>9, <1>10 DEF MetricsInv

LEMMA WorkerKeeps ==
    ASSUME MetricsInv, NEW i \in 1..2, M!handleProcessMetrics(i)
    PROVE  MetricsInv'
  <1>1. PICK m : m = Head(metricsQueue[i])
    OBVIOUS
  <1>2. /\ overlap \/ Idle
        /\ i \in DOMAIN metricsQueue
        /\ current' = M!Shown(m, "text")
        /\ metricsQueue' = IF Len(metricsQueue[i]) = 1
                           THEN SubSeq(metricsQueue, 1, i - 1)
                                    \o SubSeq(metricsQueue, i + 1, Len(metricsQueue))
                           ELSE [metricsQueue EXCEPT ![i] = Tail(@)]
        /\ UNCHANGED <<handlers, metricClock, metrics, rated, kpis>>
    BY <1>1
    DEF M!handleProcessMetrics, M!rows, M!Idle, Idle, M!handlers, M!setting,
        handlers,
                setting
  <1>3. MetricTypes /\ Newest
    BY DEF MetricsInv
  <1>4. /\ metricsQueue' \in Seq(Job)
        /\ m \in M!MetricRow
        /\ \A k : Pending(k) => Pending(k)' \/ k = m
    BY <1>1, <1>2, <1>3, JobWorkedOff DEF MetricTypes
  <1>5. Frame' /\ pc' = pc /\ run' = run /\ UNCHANGED setting
    BY <1>2, NothingMoves DEF MetricsInv, handlers
  <1>6. MetricTypes'
    BY <1>2, <1>3, <1>4, ShownTypes DEF MetricTypes
  <1>7. HandlersKnow'
    BY <1>2, <1>5 DEF MetricsInv, HandlersKnow, Knows, setting
  <1>8. Passes'
    BY <1>2, <1>5 DEF MetricsInv, Passes, Between, setting
  <1>9. Newest'
    <2> SUFFICES ASSUME Calm
                 PROVE  Newest'
      BY <1>5 DEF Newest, Calm, setting
    <2>1. \A p \in Procs : pc[p] = "idle"
      BY <1>2 DEF Calm, Idle
    <2>2. \A k : ~ Showing(k)
      BY <2>1 DEF Showing, Shows
    <2>3. ASSUME NEW k \in metrics, k.single, k.at + MetricHour >= metricClock
          PROVE  Covered(k)'
      <3>1. k \in M!MetricRow /\ Covered(k)
        BY <1>3, <2>2, <2>3 DEF MetricTypes, Newest
      <3> QED
        BY <1>2, <1>3, <1>4, <2>3, <3>1, ShownCovers
    <2>4. \A p \in Procs : pc'[p] # "broadcast"
      BY <1>5, <2>1
    <2> QED
      BY <1>2, <2>3, <2>4 DEF Newest
  <1> QED
    BY <1>5, <1>6, <1>7, <1>8, <1>9 DEF MetricsInv

(* A recorder's own row is counted; an indicator is written.               *)
LEMMA SaveOwnKeeps ==
    ASSUME MetricsInv, NEW p \in Procs, M!saveOwn(p)
    PROVE  MetricsInv'
  <1>1. PICK c : c = run[p].recorder
    OBVIOUS
  <1>2. pc[p] = "own" /\ UNCHANGED <<metricClock, current, metricsQueue, metrics, kpis>>
    BY DEF M!saveOwn
  <1>3. run[p] \in RatingRun /\ c \in Recorders /\ MetricTypes
    BY <1>1, <1>2 DEF MetricsInv, HandlersKnow, Knows, RatingRun
  <1> DEFINE Stepped(label, r) ==
               /\ pc' = [pc EXCEPT ![p] = label] /\ run' = [run EXCEPT ![p] = r]
               /\ UNCHANGED setting
               /\ \/ label = "count" /\ r \in RatingRun /\ r.recorder \in M!Rating
                  \/ label = "save" /\ r \in MetricRun
  <1>4. /\ rated' \in [M!Rating -> [total : Nat, done : Nat]]
        /\ \A x \in M!Rating : rated'[x].done <= rated'[x].total
    <2>1. CASE c \in M!Rating
      <3>1. PICK entry : entry = [total |-> rated[c].total + 1,
                                  done |-> rated[c].done + IF run[p].done THEN 1 ELSE 0]
        OBVIOUS
      <3>2. rated' = [rated EXCEPT ![c] = entry]
        BY <1>1, <2>1, <3>1 DEF M!saveOwn
      <3>3. rated[c].total \in Nat /\ rated[c].done \in Nat /\ rated[c].done <= rated[c].total
        BY <1>3, <2>1 DEF MetricTypes
      <3>4. entry \in [total : Nat, done : Nat] /\ entry.done <= entry.total
        BY <3>1, <3>3
      <3> QED
        BY <1>3, <2>1, <3>2, <3>4 DEF MetricTypes
    <2>2. CASE c \notin M!Rating
      <3>1. rated' = rated
        BY <1>1, <2>2 DEF M!saveOwn
      <3> QED
        BY <1>3, <3>1 DEF MetricTypes
    <2> QED
      BY <2>1, <2>2
  <1>5. PICK label, r : Stepped(label, r)
    <2>1. CASE c \in M!Rating
      <3>1. PICK r : r = run[p]
        OBVIOUS
      <3>2. M!Goto(p, "count")
        BY <1>1, <2>1 DEF M!saveOwn
      <3>3. /\ pc' = [pc EXCEPT ![p] = "count"] /\ run' = [run EXCEPT ![p] = r]
            /\ UNCHANGED setting
        BY <3>1, <3>2 DEF M!Goto, M!setting, setting, MetricsInv, Frame
      <3>4. Stepped("count", r)
        BY <1>1, <1>3, <2>1, <3>1, <3>3
      <3> HIDE DEF Stepped
      <3> QED
        BY <3>4
    <2>2. CASE c \notin M!Rating
      <3>1. PICK r : r = M!Stamped(M!Recorded[c])
        OBVIOUS
      <3>2. M!GotoWith(p, "save", r)
        BY <1>1, <2>2, <3>1 DEF M!saveOwn
      <3>3. r \in MetricRun
        BY <1>3, <3>1, RecordedNames, StampedRun
      <3>4. Stepped("save", r)
        BY <3>2, <3>3 DEF M!GotoWith, M!setting, setting
      <3> HIDE DEF Stepped
      <3> QED
        BY <3>4
    <2> QED
      BY <2>1, <2>2
  <1>6. Frame' /\ Moves(p, label, r)
    BY <1>2, <1>5, MovesFrame DEF MetricsInv
  <1>7. MetricTypes'
    BY <1>2, <1>3, <1>4 DEF MetricTypes
  <1>8. HandlersKnow'
    <2>1. Knows(label, r)'
      BY <1>5 DEF Knows
    <2>2. ASSUME NEW q \in Procs \ {p}
          PROVE  Knows(pc[q], run[q])'
      <3>1. pc'[q] = pc[q] /\ run'[q] = run[q] /\ overlap' = overlap
        BY <1>6 DEF Moves, setting
      <3>2. ~overlap => pc[q] = "idle"
        BY <1>2 DEF MetricsInv, Frame
      <3>3. Knows(pc[q], run[q])
        BY DEF MetricsInv, HandlersKnow
      <3> QED
        BY <3>1, <3>2, <3>3 DEF Knows
    <2>3. Knows(pc[p], run[p])'
      BY <1>6, <2>1 DEF Moves, Knows
    <2> QED
      BY <2>2, <2>3 DEF HandlersKnow
  <1>9. Passes'
    BY <1>2, <1>3, <1>5, <1>6, PassesStand DEF MetricsInv
  <1>10. Newest'
    BY <1>2, <1>5, <1>6, NewestStands DEF MetricsInv, Shows
  <1> QED
    BY <1>6, <1>7, <1>8, <1>9, <1>10 DEF MetricsInv

LEMMA KpiKeeps ==
    ASSUME MetricsInv, NEW p \in Procs, M!recordKpi(p)
    PROVE  MetricsInv'
  <1>1. PICK n : n = run[p]
    OBVIOUS
  <1>2. /\ pc[p] = "kpi" /\ kpis' = [kpis EXCEPT ![n] = @ + 1]
        /\ UNCHANGED <<metricClock, current, metricsQueue, metrics, rated>>
    BY <1>1 DEF M!recordKpi
  <1>3. n \in 1..5 /\ MetricTypes
    BY <1>1, <1>2 DEF MetricsInv, HandlersKnow, Knows
  <1> DEFINE Stepped(label, r) ==
               /\ pc' = [pc EXCEPT ![p] = label] /\ run' = [run EXCEPT ![p] = r]
               /\ UNCHANGED setting
               /\ \/ label = "idle" /\ n = 5
                  \/ label = "kpi" /\ n # 5 /\ r = n + 1
  <1>4. PICK label, r : Stepped(label, r)
    <2>1. CASE n = 5
      <3>1. PICK r : r = M!NoRun
        OBVIOUS
      <3>2. M!GotoWith(p, "idle", r)
        BY <1>1, <2>1, <3>1, KpiCount DEF M!recordKpi, M!End
      <3>3. Stepped("idle", r)
        BY <2>1, <3>2 DEF M!GotoWith, M!setting, setting
      <3> HIDE DEF Stepped
      <3> QED
        BY <3>3
    <2>2. CASE n # 5
      <3>1. M!GotoWith(p, "kpi", n + 1)
        BY <1>1, <2>2, KpiCount DEF M!recordKpi
      <3>2. Stepped("kpi", n + 1)
        BY <2>2, <3>1 DEF M!GotoWith, M!setting, setting
      <3> HIDE DEF Stepped
      <3> QED
        BY <3>2
    <2> QED
      BY <2>1, <2>2
  <1>5. Frame' /\ Moves(p, label, r)
    BY <1>2, <1>4, MovesFrame DEF MetricsInv
  <1>6. MetricTypes'
    BY <1>2, <1>3 DEF MetricTypes
  <1>7. HandlersKnow'
    <2>1. Knows(label, r)'
      BY <1>3, <1>4 DEF Knows
    <2> QED
      BY <1>2, <1>5, <2>1, KnownStands DEF MetricsInv
  <1>8. Newest'
    BY <1>2, <1>4, <1>5, NewestStands DEF MetricsInv, Shows
  <1>9. Passes'
    <2> SUFFICES ASSUME NEW i \in 1..4
                 PROVE  /\ kpis'[i] >= kpis'[i + 1] + Cardinality(Between(i)')
                        /\ ~faulty => kpis'[i] = kpis'[i + 1] + Cardinality(Between(i)')
      BY <1>4 DEF Passes, setting
    <2>1. IsFiniteSet(Between(i)) /\ Cardinality(Between(i)) \in Nat
      BY ConstantsAssumption, FS_Subset, FS_CardinalityType DEF Between
    <2>2. /\ kpis[i] \in Nat /\ kpis[i + 1] \in Nat
          /\ kpis'[i] = kpis[i] + IF i = n THEN 1 ELSE 0
          /\ kpis'[i + 1] = kpis[i + 1] + IF i + 1 = n THEN 1 ELSE 0
      BY <1>2, <1>3 DEF MetricTypes
    <2>3. /\ kpis[i] >= kpis[i + 1] + Cardinality(Between(i))
          /\ ~faulty => kpis[i] = kpis[i + 1] + Cardinality(Between(i))
      BY DEF MetricsInv, Passes
    <2>4. CASE i = n
      <3>1. Between(i)' = Between(i) \cup {p} /\ p \notin Between(i)
        BY <1>1, <1>2, <1>3, <1>4, <1>5, <2>4 DEF Between, Moves
      <3>2. Cardinality(Between(i)') = Cardinality(Between(i)) + 1
        BY <2>1, <3>1, FS_AddElement
      <3> QED
        BY <2>1, <2>2, <2>3, <2>4, <3>2
    <2>5. CASE i + 1 = n
      <3>1. Between(i)' = Between(i) \ {p} /\ p \in Between(i)
        BY <1>1, <1>2, <1>3, <1>4, <1>5, <2>5 DEF Between, Moves
      <3>2. Cardinality(Between(i)') = Cardinality(Between(i)) - 1
        BY <2>1, <3>1, FS_RemoveElement
      <3> QED
        BY <2>1, <2>2, <2>3, <2>5, <3>2
    <2>6. CASE i # n /\ i + 1 # n
      <3>1. Between(i)' = Between(i)
        BY <1>1, <1>2, <1>3, <1>4, <1>5, <2>6 DEF Between, Moves
      <3> QED
        BY <2>1, <2>2, <2>3, <2>6, <3>1
    <2> QED
      BY <2>4, <2>5, <2>6
  <1> QED
    BY <1>5, <1>6, <1>7, <1>8, <1>9 DEF MetricsInv

LEMMA MetricTickKeeps ==
    ASSUME MetricsInv, M!tick
    PROVE  MetricsInv'
  <1>1. /\ metricClock < MaxMetricClock /\ metricClock' = metricClock + 1
        /\ UNCHANGED <<handlers, current, metricsQueue, metrics, rated, kpis>>
    BY DEF M!tick, M!rows, M!handlers, M!setting, handlers, setting
  <1>2. Frame' /\ pc' = pc /\ run' = run /\ UNCHANGED setting
    BY <1>1, NothingMoves DEF MetricsInv, handlers
  <1>3. MetricTypes'
    <2>1. metricClock' \in 0..MaxMetricClock
      <3>1. MaxMetricClock \in Nat
        BY ConstantsAssumption
      <3>2. metricClock \in 0..MaxMetricClock
        BY DEF MetricsInv, MetricTypes
      <3> QED
        BY <1>1, <3>1, <3>2
    <2> QED
      BY <1>1, <2>1 DEF MetricsInv, MetricTypes
  <1>4. HandlersKnow'
    BY <1>1, <1>2 DEF MetricsInv, HandlersKnow, Knows, setting
  <1>5. Passes'
    BY <1>1, <1>2 DEF MetricsInv, Passes, Between, setting
  <1>6. Newest'
    <2>1. \A m : /\ Showing(m)' <=> Showing(m)
                 /\ Pending(m)' <=> Pending(m)
                 /\ Covered(m)' <=> Covered(m)
      BY <1>1, <1>2 DEF Showing, Pending, Covered
    <2>2. metricClock \in Nat /\ MetricHour \in Nat /\ \A m \in metrics : m.at \in Nat
      BY ConstantsAssumption DEF MetricsInv, MetricTypes, M!MetricRow
    <2>3. \A m \in metrics : m.at + MetricHour >= metricClock' => m.at + MetricHour >= metricClock
      BY <1>1, <2>2
    <2>4. ASSUME NEW q \in Procs, Calm, pc[q] = "broadcast"
          PROVE  Pending(run[q].metric)'
      <3>1. PICK m : m = run[q].metric
        OBVIOUS
      <3> QED
        BY <1>2, <2>1, <2>4, <3>1 DEF MetricsInv, Newest
    <2> QED
      BY <1>1, <1>2, <2>1, <2>3, <2>4 DEF MetricsInv, Newest, Calm, setting
  <1> QED
    BY <1>2, <1>3, <1>4, <1>5, <1>6 DEF MetricsInv

LEMMA MetricsStep ==
    ASSUME MetricsInv, M!Next
    PROVE  MetricsInv'
  <1>1. CASE \E i \in 1..2 : M!handleProcessMetrics(i)
    BY <1>1, WorkerKeeps
  <1>2. CASE M!tick
    BY <1>2, MetricTickKeeps
  <1>3. ASSUME NEW p \in Procs,
               \/ \E n \in Posted, at \in 0..MaxMetricClock : M!recordMetric(p, n, at)
               \/ \E n \in Posted, i, j \in 0..MaxMetricClock :
                      M!recordBulkMetrics(p, <<M!Metric(n, i, FALSE), M!Metric(n, j, FALSE)>>)
               \/ \E r \in Recorders, done \in BOOLEAN : M!record(p, r, done)
               \/ M!countAll(p)
               \/ M!countSuccessful(p)
               \/ M!saveRate(p)
               \/ M!calculateAutomaticKpis(p)
               \/ \E cutoff \in 0..MaxMetricClock : M!deleteOldMetrics(p, cutoff)
               \/ M!metricsFail(p)
        PROVE  MetricsInv'
    BY <1>3, HandlerKeeps
  <1> QED
    BY <1>1, <1>2, <1>3, SaveMetricKeeps, QueueMetricKeeps, BroadcastKeeps,
       SaveBulkKeeps,
       QueueBulkKeeps, SaveOwnKeeps, KpiKeeps, DeleteKeeps
    DEF M!Next

LEMMA MetricsInit ==
    ASSUME HandlersInit, M!Rest
    PROVE  MetricsInv
  <1>1. Frame /\ \A p \in Procs : pc[p] = "idle"
    BY FrameInit
  <1>2. MetricTypes
    <2>1. /\ metricClock = 0 /\ metrics = {} /\ metricsQueue = <<>>
          /\ metricsQueue \in Seq(Job)
          /\ current = [n \in M!Names |-> M!None]
      BY DEF M!Rest
    <2>2. /\ rated = [r \in M!Rating |-> [total |-> 0, done |-> 0]]
          /\ kpis = [i \in 1..5 |-> 0]
      BY KpiCount DEF M!Rest
    <2> QED
      BY <2>1, <2>2, ConstantsAssumption DEF MetricTypes
  <1>3. HandlersKnow
    BY <1>1 DEF HandlersKnow, Knows
  <1>4. Newest
    BY <1>1 DEF Newest, M!Rest
  <1>5. Passes
    <2>1. \A i \in 1..4 : Between(i) = {} /\ kpis[i] = 0 /\ kpis[i + 1] = 0
      BY <1>1, KpiCount DEF Between, M!Rest
    <2> QED
      BY <2>1, FS_EmptySet DEF Passes
  <1> QED
    BY <1>1, <1>2, <1>3, <1>4, <1>5 DEF MetricsInv

LEMMA MetricsStand ==
    ASSUME MetricsInv, UNCHANGED <<handlers, metricVars>>
    PROVE  MetricsInv'
  <1>1. UNCHANGED <<metricClock, metrics, current, metricsQueue, rated, kpis>>
    BY DEF metricVars
  <1>2. Frame' /\ pc' = pc /\ run' = run /\ UNCHANGED setting
    BY NothingMoves DEF MetricsInv, handlers
  <1>3. MetricTypes'
    BY <1>1 DEF MetricsInv, MetricTypes
  <1>4. HandlersKnow'
    BY <1>1, <1>2 DEF MetricsInv, HandlersKnow, Knows, setting
  <1>5. Passes'
    BY <1>1, <1>2 DEF MetricsInv, Passes, Between, setting
  <1>6. \A m : /\ Showing(m)' <=> Showing(m)
               /\ Pending(m)' <=> Pending(m)
               /\ Covered(m)' <=> Covered(m)
    BY <1>1, <1>2 DEF Showing, Pending, Covered
  <1>7. ASSUME NEW q \in Procs, Calm, pc[q] = "broadcast"
        PROVE  Pending(run[q].metric)'
    <2>1. PICK m : m = run[q].metric
      OBVIOUS
    <2> QED
      BY <1>2, <1>6, <1>7, <2>1 DEF MetricsInv, Newest
  <1>8. Newest'
    BY <1>1, <1>2, <1>6, <1>7 DEF MetricsInv, Newest, Calm, setting
  <1> QED
    BY <1>2, <1>3, <1>4, <1>5, <1>8 DEF MetricsInv

(* What the invariant says of metrics.                                     *)
LEMMA MetricsPromises ==
    ASSUME MetricsInv
    PROVE  M!TypeOK /\ M!RatesAreParts /\ M!KpisInOrder /\ M!LiveIsNewest
  <1>1. MetricTypes
    BY DEF MetricsInv
  <1>2. M!TypeOK
    <2>1. ASSUME NEW i \in DOMAIN metricsQueue
          PROVE  metricsQueue[i] # <<>>
      <3>1. metricsQueue[i] \in Job
        BY <1>1 DEF MetricTypes
      <3> QED
        BY <3>1 DEF Job
    <2> QED
      BY <1>1, <2>1 DEF M!TypeOK, MetricTypes
  <1>3. M!RatesAreParts
    BY DEF MetricsInv, HandlersKnow, Knows, M!RatesAreParts
  <1>4. M!KpisInOrder
    <2>1. \A i \in 1..4 : IsFiniteSet(Between(i)) /\ Cardinality(Between(i)) \in Nat
      BY ConstantsAssumption, FS_Subset, FS_CardinalityType DEF Between
    <2>2. \A i \in 1..4 : kpis[i] \in Nat /\ kpis[i + 1] \in Nat
      BY <1>1 DEF MetricTypes
    <2>3. \A i \in 1..4 : kpis[i] >= kpis[i + 1]
      BY <2>1, <2>2 DEF MetricsInv, Passes
    <2>4. ASSUME ~faulty, Idle
          PROVE  kpis[1] = kpis[5]
      <3>1. \A i \in 1..4 : Between(i) = {}
        BY <2>4 DEF Between, Idle
      <3>2. \A i \in 1..4 : kpis[i] = kpis[i + 1]
        BY <2>2, <2>4, <3>1, FS_EmptySet DEF MetricsInv, Passes
      <3> QED
        BY <3>2
    <2> QED
      BY <2>3, <2>4, KpiCount DEF M!KpisInOrder, M!Idle, Idle
  <1>5. M!LiveIsNewest
    <2> SUFFICES ASSUME Calm, Idle, metricsQueue = <<>>, NEW m \in metrics,
                        m.single, m.at + MetricHour >= metricClock
                 PROVE  current[m.name] # M!None /\ current[m.name].at >= m.at
      BY DEF M!LiveIsNewest, Calm, M!Idle, Idle
    <2>1. ~ Showing(m) /\ ~ Pending(m)
      BY DEF Showing, Shows, Idle, Pending
    <2> QED
      BY <2>1 DEF MetricsInv, Newest, Covered
  <1> QED
    BY <1>2, <1>3, <1>4, <1>5
-----------------------------------------------------------------------------
(* Evidence.                                                               *)

(* Of the row, and of every copy about to be saved.                        *)
Verified(row) == /\ row \in E!EvidenceRow
                 /\ row.isVerified => matched
                 /\ row.status = "verified" => row.isVerified

EvidenceInv == /\ Frame
               /\ matched \in BOOLEAN
               /\ evidence # E!Absent => Verified(evidence)
               /\ \A p \in Procs : pc[p] \in {"fetch", "save", "delete"} => Verified(run[p])

LEMMA EvidenceMoves ==
    ASSUME EvidenceInv, NEW p \in Procs, NEW label, NEW r,
           pc' = [pc EXCEPT ![p] = label], run' = [run EXCEPT ![p] = r], UNCHANGED setting,
           overlap \/ Idle \/ pc[p] # "idle" \/ label = "idle",
           matched' \in BOOLEAN, matched => matched',
           evidence' = evidence \/ Verified(evidence)',
           label \in {"fetch", "save", "delete"} =>
               /\ r \in E!EvidenceRow
               /\ r.isVerified => matched'
               /\ r.status = "verified" => r.isVerified
    PROVE  EvidenceInv'
  <1>1. Frame' /\ Moves(p, label, r)
    BY MovesFrame DEF EvidenceInv
  <1>2. \A row : Verified(row) => Verified(row)'
    BY DEF Verified
  <1>3. evidence' # E!Absent => Verified(evidence)'
    BY DEF EvidenceInv, Verified
  <1>4. \A q \in Procs : pc'[q] \in {"fetch", "save", "delete"} => Verified(run[q])'
    BY <1>1 DEF EvidenceInv, Moves, Verified
  <1> QED
    BY <1>1, <1>3, <1>4 DEF EvidenceInv

LEMMA EvidenceStep ==
    ASSUME EvidenceInv, E!Next
    PROVE  EvidenceInv'
  <1>1. PICK p \in Procs : \/ E!submitEvidence(p)
                           \/ E!uploadFile(p)
                           \/ E!insertEvidence(p)
                           \/ E!verifyEvidence(p)
                           \/ \E match \in BOOLEAN : E!getFile(p, match)
                           \/ E!deleteEvidence(p)
                           \/ E!saveEvidence(p)
                           \/ E!verificationFails(p)
                           \/ E!fail(p)
    BY DEF E!Next
  <1> USE DEF E!setting, setting, E!Idle, Idle
  <1>2. CASE E!submitEvidence(p)
    BY <1>2, EvidenceMoves DEF E!submitEvidence, E!Request, E!MayStart, EvidenceInv
  <1>3. CASE E!uploadFile(p)
    <2>1. run' = [run EXCEPT ![p] = run[p]]
      BY <1>3 DEF E!uploadFile, E!Goto, EvidenceInv, Frame
    <2> QED
      BY <1>3, <2>1, EvidenceMoves DEF E!uploadFile, E!Goto, EvidenceInv
  <1>4. CASE E!insertEvidence(p)
    <2>1. Verified(evidence)'
      BY <1>4 DEF E!insertEvidence, Verified, E!EvidenceRow, E!EvidenceStatus
    <2> QED
      BY <1>4, <2>1, EvidenceMoves DEF E!insertEvidence, E!End, E!GotoWith, EvidenceInv
  <1>5. CASE E!verifyEvidence(p)
    BY <1>5, EvidenceMoves
    DEF E!verifyEvidence, E!Request, E!MayStart, EvidenceInv, Verified
  <1>6. ASSUME NEW match \in BOOLEAN, E!getFile(p, match)
        PROVE  EvidenceInv'
    <2> DEFINE r == IF match
                    THEN [run[p] EXCEPT !.status = "verified", !.isVerified = TRUE]
                    ELSE [run[p] EXCEPT !.status = "rejected"]
    <2>1. pc[p] = "fetch" /\ Verified(run[p])
      BY <1>6 DEF E!getFile, EvidenceInv
    <2>2. matched' = (matched \/ match) /\ evidence' = evidence
      BY <1>6 DEF E!getFile
    <2>3. /\ r \in E!EvidenceRow
          /\ r.isVerified => matched'
          /\ r.status = "verified" => r.isVerified
      BY <2>1, <2>2 DEF Verified, E!EvidenceRow, E!EvidenceStatus
    <2>4. pc' = [pc EXCEPT ![p] = "save"] /\ run' = [run EXCEPT ![p] = r] /\ UNCHANGED setting
      BY <1>6 DEF E!getFile, E!GotoWith
    <2> QED
      BY <2>1, <2>2, <2>3, <2>4, EvidenceMoves DEF EvidenceInv
  <1>7. CASE E!deleteEvidence(p)
    <2>1. Verified(evidence) /\ Verified([evidence EXCEPT !.deleted = TRUE])
      BY <1>7 DEF E!deleteEvidence, EvidenceInv, Verified, E!EvidenceRow
    <2> QED
      BY <1>7, <2>1, EvidenceMoves
      DEF E!deleteEvidence, E!Request, E!MayStart, EvidenceInv, Verified
  <1>8. CASE E!saveEvidence(p)
    <2>1. Verified(run[p]) /\ evidence' = run[p] /\ matched' = matched
      BY <1>8 DEF E!saveEvidence, EvidenceInv
    <2>2. Verified(evidence)'
      BY <2>1 DEF Verified
    <2>3. /\ pc' = [pc EXCEPT ![p] = "idle"] /\ run' = [run EXCEPT ![p] = E!NoRun]
          /\ UNCHANGED setting
      BY <1>8 DEF E!saveEvidence, E!End, E!GotoWith
    <2> QED
      BY <2>1, <2>2, <2>3, EvidenceMoves DEF EvidenceInv
  <1>9. CASE E!verificationFails(p)
    <2>1. pc[p] \in {"fetch", "save"} /\ Verified(run[p])
      BY <1>9 DEF E!verificationFails, EvidenceInv
    <2>2. Verified([run[p] EXCEPT !.status = "rejected"])
      BY <2>1 DEF Verified, E!EvidenceRow, E!EvidenceStatus
    <2> QED
      BY <1>9, <2>1, <2>2, EvidenceMoves
      DEF E!verificationFails, E!GotoWith, EvidenceInv, Verified
  <1>10. CASE E!fail(p)
    BY <1>10, EvidenceMoves DEF E!fail, E!End, E!GotoWith, EvidenceInv
  <1> QED
    BY <1>1, <1>2, <1>3, <1>4, <1>5, <1>6, <1>7, <1>8, <1>9, <1>10

LEMMA EvidenceInit ==
    ASSUME HandlersInit, E!Rest
    PROVE  EvidenceInv
  BY FrameInit DEF E!Rest, EvidenceInv

LEMMA EvidenceStands ==
    ASSUME EvidenceInv, UNCHANGED <<handlers, evidenceVars>>
    PROVE  EvidenceInv'
  BY NothingMoves DEF EvidenceInv, handlers, evidenceVars, Verified

LEMMA EvidencePromises ==
    ASSUME EvidenceInv
    PROVE  E!TypeOK /\ E!ServedWasVerified
  BY DEF EvidenceInv, Verified, E!TypeOK, E!ServedWasVerified
-----------------------------------------------------------------------------
(* Reports.                                                                *)

Settled(row) == row \in G!ReportRow /\ (row.status = "completed" => row.data)

Generating == {"mark", "generate", "complete", "fail"}
Queued(p) == pc[p] \in Generating /\ run[p].queued

JobRow == [state : {"none", "waiting", "active", "completed", "failed"}, made : 0..Attempts]

(* The queue's job is one: it is made once, and one handler at most is at  *)
(* work on it.                                                             *)
OneJob == /\ job \in JobRow
          /\ job.state \in {"none", "waiting", "active"} => job.made < Attempts
          /\ \A p \in Procs : pc[p] = "queue" => job.state = "none"
          /\ \A p \in Procs : Queued(p) => job.state = "active"
          /\ \A p, q \in Procs : pc[p] = "queue" /\ pc[q] = "queue" => p = q
          /\ \A p, q \in Procs : Queued(p) /\ Queued(q) => p = q

(* A row marked as processing has a handler that will unmark it.           *)
Underway == ~faulty /\ report # G!Absent /\ report.status = "processing" =>
    \E p \in Procs : pc[p] \in Generating \ {"mark"}

ReportsInv ==
    /\ Frame
    /\ OneJob
    /\ Underway
    /\ report # G!Absent => Settled(report)
    /\ \A p \in Procs : pc[p] \in Generating => Settled(run[p].copy) /\ run[p].queued \in BOOLEAN

(* A handler goes on or ends, by what becomes of the row and of the job.   *)
LEMMA ReportsMoves ==
    ASSUME ReportsInv, NEW p \in Procs, NEW label, NEW r,
           pc' = [pc EXCEPT ![p] = label], run' = [run EXCEPT ![p] = r], UNCHANGED setting,
           overlap \/ Idle \/ pc[p] # "idle" \/ label = "idle",
           label \in Generating => Settled(r.copy) /\ r.queued \in BOOLEAN,
           report' # G!Absent => Settled(report'),
           OneJob',
           \/ report' # G!Absent /\ report'.status = "processing" => label \in Generating \ {"mark"}
           \/ report' = report /\ (faulty \/ pc[p] \notin Generating \ {"mark"})
    PROVE  ReportsInv'
  <1>1. Frame' /\ Moves(p, label, r)
    BY MovesFrame DEF ReportsInv
  <1>2. \A q \in Procs : pc'[q] \in Generating => Settled(run'[q].copy) /\ run'[q].queued \in BOOLEAN
    BY <1>1 DEF ReportsInv, Moves
  <1>3. Underway'
    <2>1. faulty' = faulty
      BY DEF setting
    <2>2. CASE report' # G!Absent /\ report'.status = "processing" => label \in Generating \ {"mark"}
      BY <1>1, <2>1, <2>2 DEF Underway, Moves
    <2>3. CASE report' = report /\ (faulty \/ pc[p] \notin Generating \ {"mark"})
      BY <1>1, <2>1, <2>3 DEF ReportsInv, Underway, Moves
    <2> QED
      BY <2>2, <2>3
  <1>4. report' # G!Absent => Settled(report)'
    BY DEF Settled
  <1>5. \A q \in Procs : pc'[q] \in Generating => Settled(run[q].copy)' /\ run'[q].queued \in BOOLEAN
    BY <1>2 DEF Settled
  <1> QED
    BY <1>1, <1>3, <1>4, <1>5 DEF ReportsInv

LEMMA JobsRest ==
    ASSUME ReportsInv, NEW p \in Procs, NEW label, NEW r, Moves(p, label, r),
           job' = job,
           label = "queue" => Idle /\ job.state = "none",
           label \in Generating /\ r.queued => Queued(p)
    PROVE  OneJob'
  BY DEF ReportsInv, OneJob, Moves, Queued, Idle

LEMMA JobEnds ==
    ASSUME ReportsInv, NEW p \in Procs, NEW label, NEW r, Moves(p, label, r),
           Queued(p), label \notin Generating \cup {"queue"},
           job' = [job EXCEPT !.state = "completed"] \/ G!Rethrow
    PROVE  OneJob'
  <1>1. job.state = "active" /\ job.made + 1 \in 1..Attempts
    BY ConstantsAssumption DEF ReportsInv, OneJob, JobRow
  <1>2. /\ job' \in JobRow
        /\ job'.state \in {"waiting", "active"} => job'.made < Attempts
        /\ job'.state # "none"
    BY <1>1, ConstantsAssumption DEF ReportsInv, OneJob, JobRow, G!Rethrow
  <1>3. \A q \in Procs : ~ Queued(q)'
    BY DEF ReportsInv, OneJob, Moves, Queued
  <1>4. \A q \in Procs : pc'[q] # "queue"
    BY <1>1 DEF ReportsInv, OneJob, Moves, Queued, Generating
  <1> QED
    BY <1>2, <1>3, <1>4 DEF OneJob

LEMMA ReportsStep ==
    ASSUME ReportsInv, G!Next
    PROVE  ReportsInv'
  <1>1. PICK p \in Procs : \/ G!createReport(p)
                           \/ G!queueReport(p)
                           \/ G!handleGenerateReport(p)
                           \/ G!regenerateReport(p)
                           \/ G!markProcessing(p)
                           \/ \E ok \in BOOLEAN : G!generate(p, ok)
                           \/ G!complete(p)
                           \/ G!failReport(p)
                           \/ G!deleteReport(p)
                           \/ G!answer(p)
                           \/ G!reportFails(p)
    BY DEF G!Next
  <1> DEFINE Goes(label, r) == /\ pc' = [pc EXCEPT ![p] = label] /\ run' = [run EXCEPT ![p] = r]
                               /\ UNCHANGED setting
                               /\ overlap \/ Idle \/ pc[p] # "idle" \/ label = "idle"
  <1>2. \A label, r : Goes(label, r) => Moves(p, label, r)
    BY MovesFrame DEF ReportsInv
  <1>3. \A label, r : /\ pc[p] # "idle" \/ label = "idle"
                      /\ G!GotoWith(p, label, r) \/ (G!Goto(p, label) /\ r = run[p])
                      => Goes(label, r)
    <2>1. run = [run EXCEPT ![p] = run[p]]
      BY DEF ReportsInv, Frame
    <2> QED
      BY <2>1 DEF G!GotoWith, G!Goto, G!setting, setting
  <1>4. \A label, r : G!Request(p, label, r) => Goes(label, r) /\ pc[p] = "idle"
    BY DEF G!Request, G!MayStart, G!Idle, Idle, G!setting, setting
  <1> HIDE DEF Goes
  <1>5. \A label, r : Goes(label, r) => /\ pc' = [pc EXCEPT ![p] = label]
                                        /\ run' = [run EXCEPT ![p] = r] /\ UNCHANGED setting
                                        /\ overlap \/ Idle \/ pc[p] # "idle" \/ label = "idle"
    BY DEF Goes
  <1>6. CASE G!createReport(p)
    <2>1. Goes("queue", G!NoRun) /\ Idle /\ job' = job /\ job.state = "none"
      BY <1>4, <1>6 DEF G!createReport, G!Idle, Idle
    <2>2. Settled(report') /\ report'.status = "pending"
      BY <1>6 DEF G!createReport, Settled, G!ReportRow, G!ReportStatus
    <2>3. OneJob'
      BY <1>2, <2>1, JobsRest DEF Generating
    <2> QED
      BY <1>5, <2>1, <2>2, <2>3, ReportsMoves DEF Generating
  <1>7. CASE G!queueReport(p)
    <2>1. Goes("idle", G!NoRun) /\ pc[p] = "queue" /\ report' = report
      BY <1>3, <1>7 DEF G!queueReport, G!End
    <2>2. job' = [job EXCEPT !.state = "waiting"] /\ job.state = "none"
      BY <1>7 DEF G!queueReport, ReportsInv, OneJob
    <2>3. OneJob'
      <3>1. job' \in JobRow /\ job'.state = "waiting" /\ job'.made < Attempts
        BY <2>2 DEF ReportsInv, OneJob, JobRow
      <3>2. \A q \in Procs : pc'[q] # "queue" /\ ~ Queued(q)'
        BY <1>2, <2>1, <2>2 DEF ReportsInv, OneJob, Moves, Queued, Generating
      <3> QED
        BY <3>1, <3>2 DEF OneJob
    <2> QED
      BY <1>5, <2>1, <2>3, ReportsMoves DEF Generating, ReportsInv
  <1>8. CASE G!handleGenerateReport(p)
    <2>1. report' = report /\ job.state = "waiting" /\ pc[p] = "idle"
      BY <1>8 DEF G!handleGenerateReport
    <2>2. /\ \A q \in Procs : pc[q] # "queue" /\ ~ Queued(q)
          /\ job.made < Attempts
      BY <2>1 DEF ReportsInv, OneJob
    <2>3. CASE report # G!Absent
      <3> DEFINE r == G!Generation(TRUE)
      <3>1. Goes("mark", r) /\ job' = [job EXCEPT !.state = "active"]
        BY <1>8, <2>3
        DEF G!handleGenerateReport, G!Exists, G!GotoWith, Goes, G!Idle, Idle,
            G!setting, setting
      <3>2. Settled(r.copy) /\ r.queued \in BOOLEAN
        BY <2>3 DEF G!Generation, ReportsInv
      <3> HIDE DEF r
      <3>4. report' # G!Absent => Settled(report')
        BY <2>1 DEF ReportsInv
      <3>3. OneJob'
        <4>1. job' \in JobRow /\ job'.state = "active" /\ job'.made < Attempts
          BY <2>2, <3>1 DEF ReportsInv, OneJob, JobRow
        <4>2. \A q \in Procs : pc'[q] # "queue" /\ (Queued(q)' => q = p)
          BY <1>2, <2>2, <3>1 DEF Moves, Queued, Generating
        <4> QED
          BY <4>1, <4>2 DEF OneJob
      <3> QED
        BY <1>5, <2>1, <3>1, <3>2, <3>3, <3>4, ReportsMoves DEF Generating
    <2>4. CASE report = G!Absent
      <3>1. G!Rethrow /\ UNCHANGED handlers
        BY <1>8, <2>4
        DEF G!handleGenerateReport, G!Exists, G!handlers, G!setting, handlers,
            setting
      <3>2. Frame' /\ pc' = pc /\ run' = run /\ faulty' = faulty
        BY <3>1, NothingMoves DEF ReportsInv, handlers, setting
      <3>3. /\ job' \in JobRow /\ job'.state \in {"waiting", "failed"}
            /\ job'.state = "waiting" => job'.made < Attempts
        BY <2>1, <2>2, <3>1, ConstantsAssumption
        DEF G!Rethrow, ReportsInv, OneJob, JobRow
      <3>4. OneJob'
        BY <2>2, <3>2, <3>3 DEF OneJob, Queued
      <3> QED
        BY <2>1, <2>4, <3>2, <3>4 DEF ReportsInv, Underway, Settled
    <2> QED
      BY <2>3, <2>4
  <1>9. CASE G!regenerateReport(p)
    <2> DEFINE r == G!Generation(FALSE)
    <2>1. Goes("mark", r) /\ pc[p] = "idle" /\ job' = job /\ report' = report /\ report # G!Absent
      BY <1>4, <1>9 DEF G!regenerateReport, G!Exists
    <2>2. Settled(r.copy) /\ r.queued \in BOOLEAN /\ ~ r.queued
      BY <2>1 DEF G!Generation, ReportsInv
    <2> HIDE DEF r
    <2>3. OneJob'
      BY <1>2, <2>1, <2>2, JobsRest
    <2>4. report' # G!Absent => Settled(report')
      BY <2>1 DEF ReportsInv
    <2> QED
      BY <1>5, <2>1, <2>2, <2>3, <2>4, ReportsMoves DEF Generating
  <1>10. CASE G!markProcessing(p)
    <2>1. Goes("generate", run[p]) /\ pc[p] = "mark" /\ job' = job
      BY <1>3, <1>10 DEF G!markProcessing
    <2>2. report' # G!Absent => Settled(report')
      BY <1>10
      DEF G!markProcessing, G!Exists, ReportsInv, Settled, G!ReportRow,
          G!ReportStatus
    <2>3. OneJob'
      BY <1>2, <2>1, JobsRest DEF Queued, Generating
    <2> QED
      BY <1>5, <2>1, <2>2, <2>3, ReportsMoves DEF Generating, ReportsInv
  <1>11. ASSUME NEW ok \in BOOLEAN, G!generate(p, ok)
         PROVE  ReportsInv'
    <2>1. PICK label \in {"complete", "fail"} : Goes(label, run[p])
      <3>1. /\ ok => Goes("complete", run[p])
            /\ ~ok => Goes("fail", run[p])
        BY <1>3, <1>11 DEF G!generate
      <3> QED
        BY <3>1
    <2>2. pc[p] = "generate" /\ job' = job /\ report' = report
      BY <1>11 DEF G!generate
    <2>3. OneJob'
      BY <1>2, <2>1, <2>2, JobsRest DEF Queued, Generating
    <2> QED
      BY <1>5, <2>1, <2>2, <2>3, ReportsMoves DEF Generating, ReportsInv
  <1>12. CASE G!complete(p) \/ G!failReport(p)
    <2>1. Goes("idle", G!NoRun) /\ pc[p] \in {"complete", "fail"}
      BY <1>3, <1>12 DEF G!complete, G!failReport, G!End
    <2>2. Settled(report') /\ report'.status # "processing"
      <3>1. CASE G!complete(p)
        BY <3>1 DEF G!complete, Settled, G!ReportRow, G!ReportStatus
      <3>2. CASE G!failReport(p)
        <4>1. Settled(run[p].copy) /\ report' = [run[p].copy EXCEPT !.status = "failed"]
          BY <3>2 DEF G!failReport, ReportsInv, Generating
        <4> QED
          BY <4>1 DEF Settled, G!ReportRow, G!ReportStatus
      <3> QED
        BY <1>12, <3>1, <3>2
    <2>3. IF run[p].queued THEN job' = [job EXCEPT !.state = "completed"] \/ G!Rethrow ELSE job' = job
      BY <1>12 DEF G!complete, G!failReport
    <2>4. OneJob'
      <3>1. CASE run[p].queued
        BY <1>2, <2>1, <2>3, <3>1, JobEnds DEF Queued, Generating
      <3>2. CASE ~run[p].queued
        BY <1>2, <2>1, <2>3, <3>2, JobsRest DEF Generating
      <3> QED
        BY <3>1, <3>2
    <2> QED
      BY <1>5, <2>1, <2>2, <2>4, ReportsMoves DEF Generating
  <1>13. CASE G!deleteReport(p)
    <2>1. Goes("answer", G!NoRun) /\ job' = job /\ report' = G!Absent
      BY <1>4, <1>13 DEF G!deleteReport
    <2>2. OneJob'
      BY <1>2, <2>1, JobsRest DEF Generating
    <2> QED
      BY <1>5, <2>1, <2>2, ReportsMoves DEF Generating
  <1>14. CASE G!answer(p)
    <2>1. Goes("idle", G!NoRun) /\ pc[p] = "answer" /\ job' = job /\ report' = report
      BY <1>3, <1>14 DEF G!answer, G!End
    <2>2. OneJob'
      BY <1>2, <2>1, JobsRest DEF Generating
    <2> QED
      BY <1>5, <2>1, <2>2, ReportsMoves DEF Generating, ReportsInv
  <1>15. CASE G!reportFails(p)
    <2>1. faulty /\ report' = report
      BY <1>15 DEF G!reportFails
    <2>2. CASE pc[p] \in {"mark", "complete"}
      <3>1. Goes("fail", run[p]) /\ job' = job
        BY <1>3, <1>15, <2>2 DEF G!reportFails
      <3>2. OneJob'
        BY <1>2, <2>2, <3>1, JobsRest DEF Queued, Generating
      <3> QED
        BY <1>5, <2>1, <2>2, <3>1, <3>2, ReportsMoves DEF Generating, ReportsInv
    <2>3. CASE pc[p] \in {"queue", "fail"}
      <3>1. Goes("idle", G!NoRun)
        BY <1>3, <1>15, <2>3 DEF G!reportFails, G!End
      <3>2. CASE Queued(p)
        <4>1. OneJob'
          BY <1>2, <1>15, <2>3, <3>1, <3>2, JobEnds
          DEF G!reportFails, Queued, Generating
        <4> QED
          BY <1>5, <2>1, <2>3, <3>1, <4>1, ReportsMoves DEF Generating, ReportsInv
      <3>3. CASE ~Queued(p)
        <4>1. job' = job
          BY <1>15, <2>3, <3>3 DEF G!reportFails, Queued, Generating
        <4>2. OneJob'
          BY <1>2, <3>1, <4>1, JobsRest DEF Generating
        <4> QED
          BY <1>5, <2>1, <2>3, <3>1, <4>2, ReportsMoves DEF Generating, ReportsInv
      <3> QED
        BY <3>2, <3>3
    <2> QED
      BY <1>15, <2>2, <2>3 DEF G!reportFails
  <1> QED
    BY <1>1, <1>6, <1>7, <1>8, <1>9, <1>10, <1>11, <1>12, <1>13, <1>14, <1>15

LEMMA ReportsInit ==
    ASSUME HandlersInit, G!Rest
    PROVE  ReportsInv
  <1>1. Frame /\ \A p \in Procs : pc[p] = "idle"
    BY FrameInit
  <1> QED
    BY <1>1, ConstantsAssumption
    DEF G!Rest, ReportsInv, OneJob, Underway, Queued, Generating, JobRow

LEMMA ReportsStand ==
    ASSUME ReportsInv, UNCHANGED <<handlers, reportVars>>
    PROVE  ReportsInv'
  <1>1. Frame' /\ UNCHANGED <<pc, run, faulty, report, job>>
    BY NothingMoves DEF ReportsInv, handlers, setting, reportVars
  <1>2. OneJob' /\ Underway'
    BY <1>1 DEF ReportsInv, OneJob, Underway, Queued
  <1> QED
    BY <1>1, <1>2 DEF ReportsInv, Settled

LEMMA ReportsPromises ==
    ASSUME ReportsInv
    PROVE  G!TypeOK /\ G!ReportSettles
  <1>1. G!TypeOK
    BY DEF ReportsInv, OneJob, JobRow, Settled, G!TypeOK
  <1>2. G!ReportSettles
    BY DEF ReportsInv, Underway, Settled, Generating, G!ReportSettles, G!Exists, G!Idle
  <1> QED
    BY <1>1, <1>2
-----------------------------------------------------------------------------
(* Integrations.                                                           *)

(* Handlers whose test may still count an error, and those in flight.      *)
Testing == {p \in Procs : pc[p] \in {"find", "test"}}
Active == {p \in Procs : pc[p] # "idle"}

(* A count of errors is made of tests that were asked for and are over.    *)
Tested(n) == n \in Nat /\ n + Cardinality(Testing) <= requests

IntegrationRow == [status : {"pending", "active", "error"}, errorCount : Nat, lastError : BOOLEAN]

ErrorsCounted(row) ==
    /\ row \in IntegrationRow
    /\ row.errorCount > 0 => row.lastError /\ row.status = "error"
    /\ row.status = "active" => row.errorCount = 0

IntegrationTask == [copy : IntegrationRow, creating : BOOLEAN, ok : BOOLEAN]

Holding(label, r) ==
    label # "idle" => /\ r \in IntegrationTask
                      /\ ErrorsCounted(r.copy)
                      /\ label = "saveTest" /\ r.ok => r.copy.errorCount = 0

IntegrationsInv ==
    /\ Frame
    /\ requests \in 0..MaxRequests + MaxDisturbed
    /\ requests <= IF overlap \/ faulty THEN MaxDisturbed ELSE MaxRequests
    /\ Cardinality(Active) <= requests
    /\ integration # I!Absent => ErrorsCounted(integration) /\ Tested(integration.errorCount)
    /\ \A p \in Procs : Holding(pc[p], run[p])
    /\ \A p \in Procs : pc[p] # "idle" => Tested(run[p].copy.errorCount)

LEMMA HandlersCounted ==
    /\ IsFiniteSet(Testing) /\ Cardinality(Testing) \in Nat
    /\ IsFiniteSet(Active) /\ Cardinality(Active) \in Nat
    /\ IsFiniteSet(Testing)' /\ Cardinality(Testing)' \in Nat
    /\ IsFiniteSet(Active)' /\ Cardinality(Active)' \in Nat
  <1>1. /\ Testing \subseteq Procs /\ Active \subseteq Procs
        /\ Testing' \subseteq Procs /\ Active' \subseteq Procs
    BY DEF Testing, Active
  <1> QED
    BY <1>1, ConstantsAssumption, FS_Subset, FS_CardinalityType

LEMMA OneMore ==
    ASSUME NEW Z, IsFiniteSet(Z), NEW z
    PROVE  IsFiniteSet(Z \cup {z}) /\ Cardinality(Z \cup {z}) <= Cardinality(Z) + 1
  <1>1. Cardinality(Z) \in Nat
    BY FS_CardinalityType
  <1>2. /\ IsFiniteSet(Z \cup {z})
        /\ Cardinality(Z \cup {z}) = IF z \in Z THEN Cardinality(Z) ELSE Cardinality(Z) + 1
    BY FS_AddElement
  <1> QED
    BY <1>1, <1>2

(* Whatever was tested stays so; a test that is over makes room for one    *)
(* error more.                                                             *)
LEMMA TestedStands ==
    ASSUME IntegrationsInv, NEW p \in Procs, NEW label, NEW r, Moves(p, label, r),
           \/ requests' = requests + 1
           \/ requests' = requests /\ pc[p] # "idle" /\ (label = "test" => pc[p] \in {"find", "test"})
              /\ label # "find"
    PROVE  /\ Cardinality(Active)' <= requests'
           /\ \A n : Tested(n) => Tested(n)'
           /\ pc[p] = "test" /\ label \notin {"find", "test"} => \A n : Tested(n) => Tested(n + 1)'
  <1>1. requests \in Nat /\ requests' \in Nat
    BY DEF IntegrationsInv
  <1>2. Cardinality(Active)' <= requests'
    <2>1. CASE requests' = requests + 1
      <3>1. Active' \subseteq Active \cup {p}
        BY DEF Active, Moves
      <3>2. IsFiniteSet(Active \cup {p}) /\ Cardinality(Active \cup {p}) <= Cardinality(Active) + 1
        BY HandlersCounted, OneMore
      <3>3. Cardinality(Active') <= Cardinality(Active \cup {p})
        BY <3>1, <3>2, FS_Subset
      <3> QED
        BY <1>1, <2>1, <3>2, <3>3, HandlersCounted, FS_CardinalityType
        DEF IntegrationsInv
    <2>2. CASE requests' = requests /\ pc[p] # "idle"
      <3>1. Active' \subseteq Active
        BY <2>2 DEF Active, Moves
      <3>2. Cardinality(Active') <= Cardinality(Active)
        BY <3>1, HandlersCounted, FS_Subset
      <3> QED
        BY <1>1, <2>2, <3>2, HandlersCounted DEF IntegrationsInv
    <2> QED
      BY <2>1, <2>2
  <1>3. Cardinality(Testing') - requests' <= Cardinality(Testing) - requests
    <2>1. CASE requests' = requests + 1
      <3>1. Testing' \subseteq Testing \cup {p}
        BY DEF Testing, Moves
      <3>2. IsFiniteSet(Testing \cup {p}) /\ Cardinality(Testing \cup {p}) <= Cardinality(Testing) + 1
        BY HandlersCounted, OneMore
      <3>3. Cardinality(Testing') <= Cardinality(Testing \cup {p})
        BY <3>1, <3>2, FS_Subset
      <3> QED
        BY <1>1, <2>1, <3>2, <3>3, HandlersCounted, FS_CardinalityType
    <2>2. CASE requests' = requests /\ label # "find" /\ (label = "test" => pc[p] \in {"find", "test"})
      <3>1. Testing' \subseteq Testing
        BY <2>2 DEF Testing, Moves
      <3>2. Cardinality(Testing') <= Cardinality(Testing)
        BY <3>1, HandlersCounted, FS_Subset
      <3> QED
        BY <1>1, <2>2, <3>2, HandlersCounted
    <2> QED
      BY <2>1, <2>2
  <1>4. \A n : Tested(n) => Tested(n)'
    BY <1>1, <1>3, HandlersCounted DEF Tested
  <1>5. ASSUME pc[p] = "test", label \notin {"find", "test"}, NEW n, Tested(n)
        PROVE  Tested(n + 1)'
    <2>1. Testing' = Testing \ {p} /\ p \in Testing
      BY <1>5 DEF Testing, Moves
    <2>2. Cardinality(Testing') = Cardinality(Testing) - 1
      BY <2>1, HandlersCounted, FS_RemoveElement
    <2>3. requests' >= requests
      BY <1>1
    <2> QED
      BY <1>1, <1>5, <2>2, <2>3, HandlersCounted DEF Tested
  <1> QED
    BY <1>2, <1>4, <1>5

LEMMA IntegrationMoves ==
    ASSUME IntegrationsInv, NEW p \in Procs, NEW label, NEW r,
           Moves(p, label, r), Frame',
           \/ I!Request(p, label, r)
           \/ requests' = requests /\ pc[p] # "idle" /\ (label = "test" => pc[p] \in {"find", "test"})
              /\ label # "find",
           label # "idle" => Holding(label, r) /\ Tested(r.copy.errorCount)',
           \/ integration' \in {integration, I!Absent}
           \/ ErrorsCounted(integration') /\ Tested(integration'.errorCount)
    PROVE  IntegrationsInv'
  <1>1. /\ requests' = requests + 1 \/ requests' = requests
        /\ requests' \in 0..MaxRequests + MaxDisturbed
        /\ requests' <= IF overlap' \/ faulty' THEN MaxDisturbed ELSE MaxRequests
    BY ConstantsAssumption DEF IntegrationsInv, Moves, setting, I!Request, I!MayStart
  <1>2. Cardinality(Active)' <= requests' /\ \A n : Tested(n) => Tested(n)'
    BY TestedStands DEF I!Request
  <1>3. integration' # I!Absent => ErrorsCounted(integration)' /\ Tested(integration.errorCount)'
    <2>1. PICK n : n = IF integration' = integration THEN integration.errorCount
                 ELSE integration'.errorCount
      OBVIOUS
    <2>2. integration' # I!Absent
            => n = integration'.errorCount /\ Tested(n) /\ ErrorsCounted(integration')
      BY <2>1 DEF IntegrationsInv
    <2>3. integration' # I!Absent => Tested(n)'
      BY <1>2, <2>2
    <2> QED
      BY <2>2, <2>3 DEF ErrorsCounted, Tested
  <1>4. \A q \in Procs : Holding(pc[q], run[q])'
    BY DEF IntegrationsInv, Moves, Holding, ErrorsCounted
  <1>5. ASSUME NEW q \in Procs, pc'[q] # "idle"
        PROVE  Tested(run[q].copy.errorCount)'
    <2>1. CASE q = p
      BY <1>5, <2>1 DEF Moves, Tested
    <2>2. CASE q # p
      <3>1. pc'[q] = pc[q] /\ run'[q] = run[q]
        BY <2>2 DEF Moves
      <3>2. PICK n : n = run[q].copy.errorCount
        OBVIOUS
      <3>3. Tested(n)'
        BY <1>2, <1>5, <3>1, <3>2 DEF IntegrationsInv
      <3> QED
        BY <3>1, <3>2, <3>3 DEF Tested
    <2> QED
      BY <2>1, <2>2
  <1> QED
    BY <1>1, <1>2, <1>3, <1>4, <1>5 DEF IntegrationsInv

LEMMA ErrorAdded ==
    ASSUME NEW copy, ErrorsCounted(copy)
    PROVE  /\ ErrorsCounted(I!WithError(copy))
           /\ I!WithError(copy).errorCount = copy.errorCount + 1
           /\ ErrorsCounted(I!WithoutError(copy))
           /\ I!WithoutError(copy).errorCount = 0
  <1>1. copy \in IntegrationRow /\ copy.errorCount + 1 \in Nat \ {0}
    BY DEF ErrorsCounted, IntegrationRow
  <1>2. /\ I!WithError(copy) \in IntegrationRow /\ I!WithoutError(copy) \in IntegrationRow
        /\ I!WithError(copy).errorCount = copy.errorCount + 1
        /\ I!WithError(copy).status = "error" /\ I!WithError(copy).lastError
        /\ I!WithoutError(copy).errorCount = 0
    BY <1>1 DEF IntegrationRow, I!WithError, I!WithoutError
  <1> QED
    BY <1>1, <1>2 DEF ErrorsCounted

LEMMA IntegrationAsks ==
    ASSUME IntegrationsInv, NEW p \in Procs,
           \/ I!create(p)
           \/ I!testIntegration(p)
           \/ I!update(p)
           \/ I!remove(p)
    PROVE  IntegrationsInv'
  <1> DEFINE AsksWith(label, copy, creating) ==
          /\ I!Request(p, label, I!Held(copy, creating)) /\ creating \in BOOLEAN
          /\ label \notin {"idle", "saveTest"}
          /\ ErrorsCounted(copy) /\ Tested(copy.errorCount)
          /\ integration' \in {integration, copy}
  <1>1. ErrorsCounted(I!Inserted)
    BY DEF I!Inserted, ErrorsCounted, IntegrationRow
  <1>2. PICK label, copy, creating : AsksWith(label, copy, creating)
    <2>1. CASE I!create(p)
      <3>1. Tested(0)
        <4>1. Testing = {}
          BY <2>1 DEF I!create, I!Idle, Testing
        <4> QED
          BY <4>1, FS_EmptySet DEF Tested, IntegrationsInv
      <3>2. AsksWith("find", I!Inserted, TRUE)
        BY <1>1, <2>1, <3>1 DEF I!create, I!Inserted
      <3> HIDE DEF AsksWith
      <3> QED
        BY <3>2
    <2>2. CASE I!testIntegration(p) \/ I!update(p) \/ I!remove(p)
      <3>1. ErrorsCounted(integration) /\ Tested(integration.errorCount) /\ integration' = integration
        BY <2>2 DEF I!testIntegration, I!update, I!remove, I!Exists, IntegrationsInv
      <3>2. \/ AsksWith("test", integration, FALSE)
            \/ AsksWith("save", integration, FALSE)
            \/ AsksWith("remove", integration, FALSE)
        BY <2>2, <3>1 DEF I!testIntegration, I!update, I!remove
      <3> HIDE DEF AsksWith
      <3> QED
        BY <3>2
    <2> QED
      BY <2>1, <2>2
  <1> DEFINE r == I!Held(copy, creating)
  <1>3. /\ r \in IntegrationTask /\ r.copy = copy
    BY <1>2 DEF I!Held, IntegrationTask, ErrorsCounted
  <1>4. Holding(label, r)
    BY <1>2, <1>3 DEF Holding
  <1>5. Moves(p, label, r) /\ Frame' /\ requests' = requests + 1
    BY <1>2, MovesFrame
    DEF I!Request, I!MayStart, I!Idle, Idle, I!setting, setting, IntegrationsInv
  <1>6. Tested(copy.errorCount)'
    <2>1. PICK n : n = copy.errorCount
      OBVIOUS
    <2>2. Tested(n)'
      BY <1>2, <1>5, <2>1, TestedStands
    <2> QED
      BY <2>1, <2>2 DEF Tested
  <1> HIDE DEF r
  <1>7. Tested(r.copy.errorCount)'
    BY <1>3, <1>6 DEF Tested
  <1>8. I!Request(p, label, r)
    BY <1>2 DEF r
  <1>9. integration' = integration \/ (ErrorsCounted(integration') /\ Tested(integration'.errorCount))
    BY <1>2
  <1> QED
    BY <1>4, <1>5, <1>7, <1>8, <1>9, IntegrationMoves

LEMMA IntegrationGoesOn ==
    ASSUME IntegrationsInv, NEW p \in Procs,
           \/ I!findOne(p)
           \/ \E ok \in BOOLEAN : I!testConnection(p, ok)
           \/ I!saveTest(p)
           \/ I!finish(p)
           \/ I!saveUpdate(p)
           \/ I!removeRow(p)
           \/ I!callFails(p)
    PROVE  IntegrationsInv'
  <1> DEFINE Goes(label, r) ==
          /\ pc' = [pc EXCEPT ![p] = label] /\ run' = [run EXCEPT ![p] = r]
          /\ UNCHANGED <<setting, requests>> /\ pc[p] # "idle"
          /\ label # "find" /\ (label = "test" => pc[p] \in {"find", "test"})
  <1>1. ASSUME NEW label, NEW r, Goes(label, r)
        PROVE  /\ Moves(p, label, r) /\ Frame'
               /\ \A n : Tested(n) => Tested(n)'
               /\ pc[p] = "test" /\ label # "test" => \A n : Tested(n) => Tested(n + 1)'
    <2>1. Moves(p, label, r) /\ Frame'
      BY <1>1, MovesFrame DEF IntegrationsInv
    <2> QED
      BY <1>1, <2>1, TestedStands
  <1>2. ASSUME NEW label, NEW r, Goes(label, r),
               label # "idle" => Holding(label, r) /\ Tested(r.copy.errorCount)',
               \/ integration' \in {integration, I!Absent}
               \/ ErrorsCounted(integration') /\ Tested(integration'.errorCount)
        PROVE  IntegrationsInv'
    BY <1>1, <1>2, IntegrationMoves
  <1>3. \A label, r : /\ pc[p] # "idle" /\ label # "find"
                      /\ label = "test" => pc[p] \in {"find", "test"}
                      /\ I!GotoWith(p, label, r) \/ (I!Goto(p, label) /\ r = run[p])
                      => Goes(label, r)
    <2>1. run = [run EXCEPT ![p] = run[p]]
      BY DEF IntegrationsInv, Frame
    <2> QED
      BY <2>1 DEF I!GotoWith, I!Goto, I!setting, setting
  <1> HIDE DEF Goes
  <1>4. pc[p] # "idle" /\ Holding(pc[p], run[p]) /\ Tested(run[p].copy.errorCount)
    BY
    DEF IntegrationsInv, I!findOne, I!testConnection, I!saveTest, I!finish,
        I!saveUpdate,
           I!removeRow, I!callFails
  <1>5. run[p] \in IntegrationTask /\ ErrorsCounted(run[p].copy)
    BY <1>4 DEF Holding
  <1>6. PICK c : c = run[p].copy
    OBVIOUS
  <1>7. PICK n : n = c.errorCount /\ Tested(n) /\ n \in Nat
    BY <1>4, <1>6 DEF Tested
  <1>8. ASSUME NEW label, NEW r, Goes(label, r), label # "saveTest",
               r \in IntegrationTask,
               r.copy = c,
               \/ integration' \in {integration, I!Absent}
               \/ ErrorsCounted(integration') /\ Tested(integration'.errorCount)
        PROVE  IntegrationsInv'
    <2>1. Holding(label, r)
      BY <1>5, <1>6, <1>8 DEF Holding
    <2>2. Tested(n)' /\ n = r.copy.errorCount
      BY <1>1, <1>6, <1>7, <1>8
    <2>3. Tested(r.copy.errorCount)'
      BY <2>2 DEF Tested
    <2> QED
      BY <1>2, <1>8, <2>1, <2>3
  <1>9. ASSUME I!GotoWith(p, "idle", I!NoRun) \/ I!Goto(p, "finish"),
               \/ integration' \in {integration, I!Absent}
               \/ ErrorsCounted(integration') /\ Tested(integration'.errorCount)
        PROVE  IntegrationsInv'
    <2>1. Goes("idle", I!NoRun) \/ Goes("finish", run[p])
      BY <1>3, <1>4, <1>9
    <2> QED
      BY <1>2, <1>5, <1>6, <1>8, <1>9, <2>1
  <1>10. CASE I!findOne(p)
    <2>1. CASE integration # I!Absent
      <3>0. PICK r : r = [run[p] EXCEPT !.copy = integration]
        OBVIOUS
      <3>1. Goes("test", r) /\ integration' = integration
        BY <1>3, <1>4, <1>10, <2>1, <3>0 DEF I!findOne, I!Exists
      <3>2. ErrorsCounted(integration) /\ Tested(integration.errorCount)
        BY <2>1 DEF IntegrationsInv
      <3>3. r \in IntegrationTask /\ r.copy = integration
        BY <1>5, <3>0, <3>2 DEF IntegrationTask, ErrorsCounted
      <3>4. PICK m : m = integration.errorCount
        OBVIOUS
      <3>5. Tested(m)' /\ m = r.copy.errorCount
        BY <1>1, <3>1, <3>2, <3>3, <3>4
      <3>6. Holding("test", r) /\ Tested(r.copy.errorCount)'
        BY <3>2, <3>3, <3>5 DEF Holding, Tested
      <3> QED
        BY <1>2, <3>1, <3>6
    <2>2. CASE integration = I!Absent
      <3> DEFINE r == [run[p] EXCEPT !.ok = FALSE]
      <3>1. Goes("finish", r) /\ integration' = integration
        BY <1>3, <1>4, <1>10, <2>2 DEF I!findOne, I!Exists
      <3>2. r \in IntegrationTask /\ r.copy = c
        BY <1>5, <1>6 DEF IntegrationTask
      <3> QED
        BY <1>8, <3>1, <3>2
    <2> QED
      BY <2>1, <2>2
  <1>11. ASSUME NEW ok \in BOOLEAN, I!testConnection(p, ok)
         PROVE  IntegrationsInv'
    <2>00. PICK d : d = IF ok THEN I!WithoutError(c) ELSE I!WithError(c)
      OBVIOUS
    <2>0. PICK r : r = [run[p] EXCEPT !.ok = ok, !.copy = d]
      OBVIOUS
    <2>1. pc[p] = "test" /\ integration' = integration /\ I!GotoWith(p, "saveTest", r)
      BY <1>6, <1>11, <2>00, <2>0 DEF I!testConnection
    <2>2. Goes("saveTest", r)
      BY <1>3, <2>1
    <2>3. ErrorsCounted(d) /\ d.errorCount = IF ok THEN 0 ELSE n + 1
      BY <1>5, <1>6, <1>7, <2>00, ErrorAdded
    <2>4. r \in IntegrationTask /\ r.copy = d /\ r.ok = ok
      BY <1>5, <1>11, <2>0, <2>3 DEF IntegrationTask, ErrorsCounted
    <2>5. PICK m : m = (IF ok THEN 0 ELSE n + 1)
      OBVIOUS
    <2>6. Tested(r.copy.errorCount)'
      <3>1. m = r.copy.errorCount
        BY <2>3, <2>4, <2>5
      <3>2. Tested(m)'
        <4>1. CASE ok
          <5>1. m = 0 /\ Tested(m)
            BY <1>7, <2>5, <4>1, HandlersCounted DEF Tested, IntegrationsInv
          <5> QED
            BY <1>1, <2>2, <5>1
        <4>2. CASE ~ok
          BY <1>1, <1>7, <2>1, <2>2, <2>5, <4>2
        <4> QED
          BY <4>1, <4>2
      <3> QED
        BY <3>1, <3>2 DEF Tested
    <2>7. Holding("saveTest", r)
      BY <2>3, <2>4 DEF Holding
    <2> QED
      BY <1>2, <2>1, <2>2, <2>6, <2>7
  <1>12. CASE I!saveTest(p) \/ I!saveUpdate(p)
    BY <1>4, <1>5, <1>9, <1>12 DEF I!saveTest, I!saveUpdate, I!Ended, I!End
  <1>13. CASE I!finish(p)
    <2>1. /\ ErrorsCounted(integration') /\ integration'.errorCount = 0
      <3>1. run[p].ok \in BOOLEAN /\ (integration # I!Absent => integration.lastError \in BOOLEAN)
        BY <1>5 DEF IntegrationsInv, ErrorsCounted, IntegrationRow, IntegrationTask
      <3>2. integration' = [status |-> IF run[p].ok THEN "active" ELSE "error", errorCount |-> 0,
                            lastError |-> ~run[p].ok
                              \/ (integration # I!Absent /\ integration.lastError)]
        BY <1>13 DEF I!finish, I!Inserted, I!Exists
      <3> QED
        BY <3>1, <3>2 DEF ErrorsCounted, IntegrationRow
    <2>2. Tested(0)
      BY <1>7, HandlersCounted DEF Tested, IntegrationsInv
    <2> QED
      BY <1>9, <1>13, <2>1, <2>2 DEF I!finish, I!End
  <1>14. CASE I!removeRow(p)
    BY <1>9, <1>14 DEF I!removeRow, I!End
  <1>15. CASE I!callFails(p)
    <2>1. integration' = integration
      BY <1>15 DEF I!callFails
    <2>2. CASE pc[p] = "saveTest" /\ run[p].ok
      <3> DEFINE d == I!WithError(c)
      <3>0. PICK r : r = [run[p] EXCEPT !.ok = FALSE, !.copy = d]
        OBVIOUS
      <3>1. Goes("saveTest", r)
        BY <1>3, <1>4, <1>6, <1>15, <2>2, <3>0 DEF I!callFails
      <3>2. ErrorsCounted(d) /\ d.errorCount = 1
        BY <1>4, <1>5, <1>6, <2>2, ErrorAdded DEF Holding
      <3> HIDE DEF d
      <3>3. r \in IntegrationTask /\ r.copy = d /\ r.ok = FALSE
        BY <1>5, <3>0, <3>2 DEF IntegrationTask, ErrorsCounted
      <3>4. PICK m : m = 1 /\ Tested(m)
        <4>1. Testing \subseteq Active \ {p} /\ p \in Active
          BY <2>2 DEF Testing, Active
        <4>2. /\ IsFiniteSet(Active \ {p}) /\ Cardinality(Active \ {p}) = Cardinality(Active) - 1
          BY <4>1, HandlersCounted, FS_RemoveElement
        <4>3. Cardinality(Testing) <= Cardinality(Active) - 1
          BY <4>1, <4>2, FS_Subset
        <4> QED
          BY <4>3, HandlersCounted DEF Tested, IntegrationsInv
      <3>5. Tested(m)'
        BY <1>1, <3>1, <3>4
      <3>6. Tested(r.copy.errorCount)'
        BY <3>2, <3>3, <3>4, <3>5 DEF Tested
      <3>7. Holding("saveTest", r)
        BY <3>2, <3>3 DEF Holding
      <3> QED
        BY <1>2, <2>1, <3>1, <3>6, <3>7
    <2>3. CASE pc[p] = "find"
      <3> DEFINE r == [run[p] EXCEPT !.ok = FALSE]
      <3>1. Goes("finish", r)
        BY <1>3, <1>4, <1>15, <2>3 DEF I!callFails
      <3>2. r \in IntegrationTask /\ r.copy = c
        BY <1>5, <1>6 DEF IntegrationTask
      <3> QED
        BY <1>8, <2>1, <3>1, <3>2
    <2>4. CASE \/ pc[p] = "saveTest" /\ ~run[p].ok
               \/ pc[p] \in {"finish", "save", "remove"}
      BY <1>9, <1>15, <2>1, <2>4 DEF I!callFails, I!Ended, I!End
    <2> QED
      BY <1>15, <2>2, <2>3, <2>4 DEF I!callFails
  <1> QED
    BY <1>10, <1>11, <1>12, <1>13, <1>14, <1>15

LEMMA IntegrationsStep ==
    ASSUME IntegrationsInv, I!Next
    PROVE  IntegrationsInv'
  BY IntegrationAsks, IntegrationGoesOn DEF I!Next

LEMMA IntegrationsInit ==
    ASSUME HandlersInit, I!Rest
    PROVE  IntegrationsInv
  <1>1. Frame /\ \A p \in Procs : pc[p] = "idle"
    BY FrameInit
  <1>2. requests = 0 /\ Active = {} /\ Cardinality(Active) = 0
    BY <1>1, FS_EmptySet DEF HandlersInit, Active
  <1> QED
    BY <1>1, <1>2, ConstantsAssumption
    DEF HandlersInit, I!Rest, IntegrationsInv, Holding

LEMMA IntegrationsStand ==
    ASSUME IntegrationsInv, UNCHANGED <<handlers, integration>>
    PROVE  IntegrationsInv'
  <1>1. Frame' /\ UNCHANGED <<pc, run, overlap, faulty, requests, integration>>
    BY NothingMoves DEF IntegrationsInv, handlers, setting
  <1> QED
    BY <1>1 DEF IntegrationsInv, Active, Tested, Testing, Holding, ErrorsCounted

LEMMA IntegrationsPromises ==
    ASSUME IntegrationsInv
    PROVE  I!TypeOK /\ I!ErrorsAgree
  <1>1. integration # I!Absent => integration.errorCount \in 0..MaxRequests + MaxDisturbed
    <2>1. Cardinality(Testing) \in Nat /\ {MaxRequests, MaxDisturbed} \subseteq Nat
      BY HandlersCounted, ConstantsAssumption
    <2> QED
      BY <2>1 DEF IntegrationsInv, Tested
  <1> QED
    BY <1>1
    DEF IntegrationsInv, ErrorsCounted, IntegrationRow, I!TypeOK, I!ErrorsAgree,
        I!Exists
-----------------------------------------------------------------------------
(* Users' records.                                                         *)

(* What a row holds after n requests.                                      *)
RowOf(t, n) == [P!Columns[t] -> SUBSET (1..n)]

(* What a request knowing r makes of a row.                                *)
NewRow(row, r) ==
    P!Changed(row, r.table, r.columns,
              (IF r.adds /\ row # P!Absent THEN UNION {row[c] : c \in r.columns} ELSE {}) \cup {r.by})

(* A save holds a copy of the row of its table; where handlers do not      *)
(* overlap, one made of the row as it still is.                            *)
Saving(r, n) == r.table \in P!Tables /\ r.copy \in RowOf(r.table, n)

ProfilesInv ==
    /\ Frame
    /\ requests \in Nat
    /\ account \in BOOLEAN
    /\ records = [t \in P!Tables |-> records[t]] /\ toldRecords = [t \in P!Tables |-> toldRecords[t]]
    /\ \A t \in P!Tables : records[t] = P!Absent \/ records[t] \in RowOf(t, requests)
    /\ \A p \in Procs : pc[p] = "register" => run[p] \in 1..requests
    /\ \A p \in Procs : pc[p] = "save" =>
           /\ Saving(run[p], requests)
           /\ ~overlap => run[p].copy = NewRow(records[run[p].table], run[p])
    /\ P!RecordsStand

LEMMA TablesAre ==
    /\ P!Tables = {"profile", "kyc", "preference"}
    /\ P!Columns["profile"] = {"name", "picture"}
    /\ P!Columns["kyc"] = {"status", "documents"}
    /\ P!Columns["preference"] = {"preferences", "privacy"}
  BY DEF P!Tables, P!Columns, P!ProfileColumns, P!KycColumns, P!PreferenceColumns

LEMMA ChangedRow ==
    ASSUME NEW t \in P!Tables, NEW row, NEW columns, NEW content
    PROVE  /\ P!Changed(row, t, columns, content) # P!Absent
           /\ \A n \in Nat : (content \subseteq 1..n /\ (row = P!Absent \/ row \in RowOf(t, n)))
                           => P!Changed(row, t, columns, content) \in RowOf(t, n)
           /\ \A f, n : f \in RowOf(t, n) => f # P!Absent
  <1>1. P!Columns[t] # {}
    BY TablesAre
  <1>2. DOMAIN P!Changed(row, t, columns, content) # {}
    BY <1>1 DEF P!Changed
  <1>3. \A f, n : f \in RowOf(t, n) => DOMAIN f # {}
    BY <1>1 DEF RowOf
  <1>4. DOMAIN P!Absent = {}
    BY DEF P!Absent
  <1>5. ASSUME NEW n \in Nat, content \subseteq 1..n,
               row = P!Absent \/ row \in RowOf(t, n)
        PROVE  P!Changed(row, t, columns, content) \in RowOf(t, n)
    BY <1>5 DEF P!Changed, RowOf
  <1> QED
    BY <1>2, <1>3, <1>4, <1>5

LEMMA ProfileMoves ==
    ASSUME ProfilesInv, NEW p \in Procs, NEW label, NEW r, Moves(p, label, r), Frame',
           label = "register" => r \in 1..requests',
           label = "save" => Saving(r, requests')
             /\ (~overlap => r.copy = NewRow(records'[r.table], r)),
           requests' \in Nat, requests' >= requests,
           pc[p] = "idle" => UNCHANGED records,
           account' \in BOOLEAN,
           records' = [t \in P!Tables |-> records'[t]],
             toldRecords' = [t \in P!Tables |-> toldRecords'[t]],
           \A t \in P!Tables : records'[t] = P!Absent \/ records'[t] \in RowOf(t, requests),
           P!RecordsStand'
    PROVE  ProfilesInv'
  <1>1. 1..requests \subseteq 1..requests'
    BY DEF ProfilesInv
  <1>2. \A t : RowOf(t, requests) \subseteq RowOf(t, requests')
    BY <1>1 DEF RowOf
  <1>3. \A t \in P!Tables : records'[t] = P!Absent \/ records'[t] \in RowOf(t, requests')
    BY <1>2
  <1>4. \A q \in Procs : pc'[q] = "register" => run'[q] \in 1..requests'
    BY <1>1 DEF ProfilesInv, Moves
  <1>5. ASSUME NEW q \in Procs, pc'[q] = "save"
        PROVE  /\ Saving(run'[q], requests')
               /\ ~overlap' => run'[q].copy = NewRow(records'[run'[q].table], run'[q])
    <2>1. overlap' = overlap
      BY DEF Moves, setting
    <2>2. CASE q = p
      BY <1>5, <2>1, <2>2 DEF Moves
    <2>3. CASE q # p
      <3>1. pc[q] = "save" /\ run'[q] = run[q]
        BY <1>5, <2>3 DEF Moves
      <3>2. Saving(run'[q], requests')
        BY <1>2, <3>1 DEF ProfilesInv, Saving
      <3>3. ~overlap => records' = records
        BY <2>3, <3>1 DEF ProfilesInv, Frame
      <3> QED
        BY <2>1, <3>1, <3>2, <3>3 DEF ProfilesInv
    <2> QED
      BY <2>2, <2>3
  <1> QED
    BY <1>3, <1>4, <1>5 DEF ProfilesInv

(* A row is saved: the change is added to what was reported of it.         *)
LEMMA RowSaved ==
    ASSUME ProfilesInv, NEW t \in P!Tables, NEW row \in RowOf(t, requests),
           row # P!Absent,
           NEW toldRow, toldRow # P!Absent, ~overlap => toldRow = row,
           records' = [records EXCEPT ![t] = row], toldRecords' = [toldRecords EXCEPT ![t] = toldRow],
           overlap' = overlap
    PROVE  /\ records' = [s \in P!Tables |-> records'[s]]
                /\ toldRecords' = [s \in P!Tables |-> toldRecords'[s]]
           /\ \A s \in P!Tables : records'[s] = P!Absent \/ records'[s] \in RowOf(s, requests)
           /\ ~overlap' => records' = toldRecords'
           /\ \A s \in P!Tables : (records'[s] = P!Absent) = (toldRecords'[s] = P!Absent)
           /\ t = "profile" \/ records'.profile = records.profile
           /\ t = "profile" => records'.profile # P!Absent
  BY TablesAre DEF ProfilesInv, P!RecordsStand

LEMMA ProfilesStep ==
    ASSUME ProfilesInv, P!Next
    PROVE  ProfilesInv'
  <1>1. PICK p \in Procs : \/ P!register(p)
                           \/ P!createProfile(p)
                           \/ \E column \in P!ProfileColumns : P!updateProfile(p, column)
                           \/ P!submitKyc(p)
                           \/ P!addKycDocument(p)
                           \/ \E column \in P!PreferenceColumns : P!updatePreference(p, column)
                           \/ P!save(p)
                           \/ P!fail(p)
    BY DEF P!Next
  <1> DEFINE Goes(label, r) == /\ pc' = [pc EXCEPT ![p] = label] /\ run' = [run EXCEPT ![p] = r]
                               /\ UNCHANGED setting
                               /\ overlap \/ Idle \/ pc[p] # "idle" \/ label = "idle"
  <1>2. \A label, r : Goes(label, r) => Moves(p, label, r) /\ Frame'
    BY MovesFrame DEF ProfilesInv
  <1>3. \A label, r : P!GotoWith(p, label, r) /\ pc[p] # "idle"
          => Goes(label, r) /\ requests' = requests
    BY DEF P!GotoWith, P!setting, setting
  <1>4. \A label, r : P!Request(p, label, r)
          => Goes(label, r) /\ pc[p] = "idle" /\ requests' = requests + 1
    BY DEF P!Request, P!MayStart, P!Idle, Idle, P!setting, setting
  <1> HIDE DEF Goes
  <1>5. \A t : RowOf(t, requests) \subseteq RowOf(t, requests + 1)
    BY DEF ProfilesInv, RowOf
  <1>6. ASSUME UNCHANGED <<records, toldRecords>>, UNCHANGED setting,
               account' /\ records.profile = P!Absent =>
                   faulty \/ \E q \in Procs : pc'[q] = "register"
        PROVE  /\ P!RecordsStand'
               /\ records' = [t \in P!Tables |-> records'[t]]
                    /\ toldRecords' = [t \in P!Tables |-> toldRecords'[t]]
               /\ \A t \in P!Tables : records'[t] = P!Absent \/ records'[t] \in RowOf(t, requests)
    BY <1>6 DEF ProfilesInv, P!RecordsStand, setting
  <1>7. CASE P!register(p)
    <2>1. UNCHANGED <<records, toldRecords>> /\ account' = TRUE
      BY <1>7 DEF P!register
    <2>2. CASE account
      <3>1. Goes("idle", P!NoRun) /\ requests' = requests + 1 /\ pc[p] = "idle"
        BY <1>4, <1>7, <2>2 DEF P!register
      <3>2. records.profile = P!Absent => faulty \/ \E q \in Procs : pc'[q] = "register"
        BY <1>2, <2>2, <3>1 DEF ProfilesInv, P!RecordsStand, Moves
      <3> QED
        BY <1>2, <1>6, <2>1, <3>1, <3>2, ProfileMoves DEF ProfilesInv, Moves
    <2>3. CASE ~account
      <3>1. Goes("register", requests + 1) /\ requests' = requests + 1 /\ pc[p] = "idle"
        BY <1>4, <1>7, <2>3 DEF P!register
      <3>2. pc'[p] = "register" /\ requests + 1 \in 1..requests'
        BY <1>2, <3>1 DEF Moves, ProfilesInv
      <3> QED
        BY <1>2, <1>6, <2>1, <3>1, <3>2, ProfileMoves DEF ProfilesInv, Moves
    <2> QED
      BY <2>2, <2>3
  <1>8. CASE P!createProfile(p)
    <2>1. PICK row : row = P!Changed(P!Absent, "profile", {"name"}, {run[p]})
      OBVIOUS
    <2>2. row \in RowOf("profile", requests) /\ row # P!Absent
      <3>1. {run[p]} \subseteq 1..requests
        BY <1>8 DEF P!createProfile, ProfilesInv
      <3> QED
        BY <2>1, <3>1, ChangedRow, TablesAre DEF ProfilesInv
    <2>3. /\ Goes("idle", P!NoRun) /\ requests' = requests /\ pc[p] = "register" /\ account' = account
          /\ records' = [records EXCEPT !["profile"] = row]
      BY <1>3, <1>8, <2>1 DEF P!createProfile, P!End
    <2>4. records'.profile = row
      BY <2>3, TablesAre DEF ProfilesInv
    <2>5. toldRecords' = [toldRecords EXCEPT !["profile"] = row]
      BY <1>8, <2>4 DEF P!createProfile
    <2>6. overlap' = overlap /\ "profile" \in P!Tables
      BY <1>2, <2>3, TablesAre DEF Moves, setting
    <2>7. /\ records' = [s \in P!Tables |-> records'[s]]
               /\ toldRecords' = [s \in P!Tables |-> toldRecords'[s]]
          /\ \A s \in P!Tables : records'[s] = P!Absent \/ records'[s] \in RowOf(s, requests)
          /\ P!RecordsStand'
      BY <2>2, <2>3, <2>5, <2>6, RowSaved DEF P!RecordsStand
    <2>8. /\ account' \in BOOLEAN /\ requests' \in Nat /\ requests' >= requests
          /\ Moves(p, "idle", P!NoRun) /\ Frame' /\ pc[p] # "idle"
      BY <1>2, <2>3 DEF ProfilesInv
    <2> QED
      BY <2>7, <2>8, ProfileMoves
  <1>9. ASSUME NEW t \in P!Tables, NEW columns \in SUBSET P!Columns[t],
               NEW adds \in BOOLEAN,
               P!Change(p, t, columns, adds)
        PROVE  ProfilesInv'
    <2>1. PICK old : old = IF adds /\ records[t] # P!Absent
                 THEN UNION {records[t][c] : c \in columns} ELSE {}
      OBVIOUS
    <2>2. PICK r : r = [table |-> t, columns |-> columns, adds |-> adds, by |-> requests + 1,
                        new |-> records[t] = P!Absent,
                        copy |-> P!Changed(records[t], t, columns, old \cup {requests + 1})]
      OBVIOUS
    <2>3. /\ Goes("save", r) /\ requests' = requests + 1 /\ pc[p] = "idle"
          /\ account /\ UNCHANGED <<account, records, toldRecords>>
      BY <1>4, <1>9, <2>1, <2>2 DEF P!Change
    <2>4. r.copy = NewRow(records[r.table], r)
      BY <2>1, <2>2 DEF NewRow
    <2>5. Saving(r, requests + 1)
      <3>1. records[t] = P!Absent \/ records[t] \in RowOf(t, requests + 1)
        BY <1>5 DEF ProfilesInv
      <3>2. old \subseteq 1..requests + 1
        BY <2>1, <3>1 DEF RowOf
      <3>3. r.copy \in RowOf(t, requests + 1)
        BY <2>2, <3>1, <3>2, ChangedRow DEF ProfilesInv
      <3> QED
        BY <2>2, <3>3 DEF Saving
    <2>6. records.profile = P!Absent => faulty \/ \E q \in Procs : pc'[q] = "register"
      BY <1>2, <2>3 DEF ProfilesInv, P!RecordsStand, Moves
    <2>7. /\ account' \in BOOLEAN /\ requests' \in Nat /\ requests' >= requests
          /\ Moves(p, "save", r) /\ Frame' /\ UNCHANGED setting
          /\ Saving(r, requests') /\ r.copy = NewRow(records'[r.table], r)
      BY <1>2, <2>3, <2>4, <2>5 DEF ProfilesInv, Moves
    <2> QED
      BY <1>6, <2>3, <2>6, <2>7, ProfileMoves
  <1>10. CASE \/ \E column \in P!ProfileColumns : P!updateProfile(p, column)
              \/ P!submitKyc(p)
              \/ P!addKycDocument(p)
              \/ \E column \in P!PreferenceColumns : P!updatePreference(p, column)
    <2>1. \/ \E column \in P!ProfileColumns : P!Change(p, "profile", {column}, FALSE)
          \/ P!Change(p, "kyc", P!KycColumns, FALSE)
          \/ P!Change(p, "kyc", {"documents"}, TRUE)
          \/ \E column \in P!PreferenceColumns : P!Change(p, "preference", {column}, FALSE)
      BY <1>10 DEF P!updateProfile, P!submitKyc, P!addKycDocument, P!updatePreference
    <2> QED
      BY <1>9, <2>1, TablesAre DEF P!ProfileColumns, P!KycColumns, P!PreferenceColumns
  <1>11. CASE P!save(p)
    <2>1. PICK r : r = run[p]
      OBVIOUS
    <2>2. /\ Goes("idle", P!NoRun) /\ requests' = requests /\ pc[p] = "save" /\ account' = account
      BY <1>3, <1>11 DEF P!save, P!End
    <2>3. /\ Saving(r, requests) /\ r.copy \in RowOf(r.table, requests)
          /\ ~overlap => r.copy = NewRow(records[r.table], r)
      BY <2>1, <2>2 DEF ProfilesInv, Saving
    <2>4. overlap' = overlap /\ UNCHANGED setting /\ \A q \in Procs : pc[q] = "register"
            => pc'[q] = "register"
      BY <1>2, <2>2 DEF Moves, setting
    <2>5. CASE UNCHANGED <<records, toldRecords>>
      <3>1. account' /\ records.profile = P!Absent => faulty \/ \E q \in Procs : pc'[q] = "register"
        BY <2>2, <2>4 DEF ProfilesInv, P!RecordsStand
      <3> QED
        BY <1>2, <1>6, <2>2, <2>4, <2>5, <3>1, ProfileMoves DEF ProfilesInv
    <2>6. CASE ~UNCHANGED <<records, toldRecords>>
      <3>1. PICK t : t = r.table /\ t \in P!Tables
        BY <2>3 DEF Saving
      <3>2. PICK toldRow : toldRow = NewRow(toldRecords[t], r)
        OBVIOUS
      <3>3. records' = [records EXCEPT ![t] = r.copy]
              /\ toldRecords' = [toldRecords EXCEPT ![t] = toldRow]
        BY <1>11, <2>1, <2>6, <3>1, <3>2 DEF P!save, NewRow, ProfilesInv
      <3>4. r.copy # P!Absent /\ toldRow # P!Absent
        BY <2>3, <3>1, <3>2, ChangedRow DEF NewRow
      <3>5. ~overlap => toldRow = r.copy
        BY <2>3, <3>1, <3>2 DEF ProfilesInv, P!RecordsStand
      <3>6. /\ records' = [s \in P!Tables |-> records'[s]]
                 /\ toldRecords' = [s \in P!Tables |-> toldRecords'[s]]
            /\ \A s \in P!Tables : records'[s] = P!Absent \/ records'[s] \in RowOf(s, requests)
            /\ ~overlap' => records' = toldRecords'
            /\ \A s \in P!Tables : (records'[s] = P!Absent) = (toldRecords'[s] = P!Absent)
            /\ records.profile # P!Absent => records'.profile # P!Absent
        BY <2>3, <2>4, <3>1, <3>3, <3>4, <3>5, RowSaved
      <3>7. P!RecordsStand'
        BY <2>2, <2>4, <3>6 DEF ProfilesInv, P!RecordsStand, setting
      <3> QED
        BY <1>2, <2>2, <3>6, <3>7, ProfileMoves DEF ProfilesInv
    <2> QED
      BY <2>5, <2>6
  <1>12. CASE P!fail(p)
    <2>1. /\ Goes("idle", P!NoRun) /\ requests' = requests /\ pc[p] \in {"register", "save"} /\ faulty
          /\ UNCHANGED <<account, records, toldRecords>>
      BY <1>3, <1>12 DEF P!fail, P!End
    <2> QED
      BY <1>2, <1>6, <2>1, ProfileMoves DEF ProfilesInv, Moves
  <1> QED
    BY <1>1, <1>7, <1>8, <1>10, <1>11, <1>12

LEMMA ProfilesInit ==
    ASSUME HandlersInit, P!Rest
    PROVE  ProfilesInv
  <1>1. Frame /\ \A p \in Procs : pc[p] = "idle"
    BY FrameInit
  <1> QED
    BY <1>1 DEF HandlersInit, P!Rest, ProfilesInv, P!RecordsStand

LEMMA ProfilesStand ==
    ASSUME ProfilesInv, UNCHANGED <<handlers, profileVars>>
    PROVE  ProfilesInv'
  <1>1. Frame' /\ UNCHANGED <<pc, run, overlap, faulty, requests, account, records, toldRecords>>
    BY NothingMoves DEF ProfilesInv, handlers, setting, profileVars
  <1>2. \A p \in Procs : pc'[p] = "save" =>
             /\ Saving(run'[p], requests')
             /\ ~overlap' => run'[p].copy = NewRow(records'[run'[p].table], run'[p])
    BY <1>1 DEF ProfilesInv
  <1>3. P!RecordsStand'
    BY <1>1 DEF ProfilesInv, P!RecordsStand
  <1>4. \A t \in P!Tables : records'[t] = P!Absent \/ records'[t] \in RowOf(t, requests')
    BY <1>1 DEF ProfilesInv
  <1> QED
    BY <1>1, <1>2, <1>3, <1>4 DEF ProfilesInv

LEMMA ProfilesPromises ==
    ASSUME ProfilesInv
    PROVE  P!TypeOK /\ P!RecordsStand
  BY DEF ProfilesInv, RowOf, P!TypeOK
-----------------------------------------------------------------------------
(* The contract of an escrow.                                              *)

MetadataRow == [note : {"first", "second"}, contract : 0..2]
EscrowRow == [status : {"open", "closed"}, simple : BOOLEAN, named : BOOLEAN, metadata : MetadataRow]

Deploying(p) == pc[p] \in {"created", "deploy", "record"}

(* One deployment is waiting or under way, and one more once it was run    *)
(* again.                                                                  *)
OneDeployment ==
    /\ deployments \in {0, 1} /\ contracts \in {0, 1, 2} /\ stalled \in BOOLEAN
    /\ stalled => faulty
    /\ \A p, q \in Procs : Deploying(p) /\ Deploying(q) => p = q
    /\ deployments = 1 => \A p \in Procs : ~Deploying(p)
    /\ ~stalled => contracts # 2
    /\ contracts = 2 \/ (contracts = 1 /\ ~stalled) =>
           deployments = 0 /\ \A p \in Procs : pc[p] \notin {"created", "deploy"}
    /\ \A p \in Procs : pc[p] = "created" => contracts = 0 /\ ~stalled /\ deployments = 0
    /\ C!Exists /\ escrow.simple => /\ deployments = 0 /\ contracts = 0 /\ ~stalled
                                    /\ \A p \in Procs : pc[p] \notin {"deploy", "record"}
    /\ ~C!Exists => /\ deployments = 0 /\ contracts = 0 /\ ~stalled
                    /\ \A p \in Procs : pc[p] = "idle"

(* A copy is one of this escrow's, and names no contract yet to come.      *)
CopyOf(row, copy, n) ==
    /\ copy \in EscrowRow /\ copy.metadata.contract <= n
    /\ copy.simple = row.simple /\ copy.named = row.named

EscrowRows ==
    /\ C!Exists => CopyOf(escrow, escrow, contracts)
    /\ \A p \in Procs : pc[p] = "save" => CopyOf(escrow, run[p].copy, contracts)
    /\ \A p \in Procs : pc[p] \in {"deploy", "record"} =>
           run[p] \in [metadata : MetadataRow] /\ run[p].metadata.contract <= contracts

Names(row, n) ==
    \/ row.metadata.contract = n
    \/ row.status = "closed" /\ row.metadata.contract = 0

(* Where handlers do not overlap, none fails and no other metadata were    *)
(* written, the row names what was deployed, or will once the handler at   *)
(* work has saved it.                                                      *)
EscrowKept == C!Exists /\ ~overlap /\ ~faulty /\ ~replaced =>
    /\ (\A p \in Procs : pc[p] \notin {"record", "save"}) => Names(escrow, contracts)
    /\ \A p \in Procs : pc[p] = "save" => Names(run[p].copy, contracts)
    /\ \A p \in Procs : pc[p] = "record" =>
           run[p].metadata.contract = contracts /\ escrow.metadata.contract = 0

Paying == {p \in Procs : pc[p] \in {"mark", "call"}}

PaymentsMade ==
    /\ payment \in {"pending", "processing", "completed", "failed"}
    /\ calledContract \in Nat /\ calledContract + Cardinality(Paying) <= requests
    /\ ~C!Exists => payment = "pending" /\ calledContract = 0
    /\ calledContract > 0 => escrow.named
    /\ \A p \in Procs : pc[p] = "mark" => run[p].named = escrow.named
    /\ \A p \in Procs : pc[p] = "call" => escrow.named /\ payment # "pending"
    /\ \A p \in Procs : pc[p] = "complete" /\ escrow.named => calledContract > 0
    /\ payment = "completed" /\ escrow.named => calledContract > 0
    /\ ~overlap => /\ calledContract <= 1
                   /\ payment = "pending" \/ Paying # {} => calledContract = 0

ContractsInv ==
    /\ Frame
    /\ requests \in 0..MaxRequests
    /\ replaced \in BOOLEAN
    /\ C!Exists => escrow \in EscrowRow
    /\ OneDeployment
    /\ EscrowRows
    /\ EscrowKept
    /\ PaymentsMade

LEMMA SomeProcs ==
    ASSUME NEW Z, Z \subseteq Procs
    PROVE  IsFiniteSet(Z) /\ Cardinality(Z) \in Nat
  BY ConstantsAssumption, FS_Subset, FS_CardinalityType

LEMMA PayingMoves ==
    ASSUME NEW p \in Procs, NEW label, NEW r, Moves(p, label, r)
    PROVE  /\ Cardinality(Paying) \in Nat /\ Cardinality(Paying)' \in Nat
           /\ Cardinality(Paying)' <= Cardinality(Paying) + 1
           /\ label \notin {"mark", "call"} \/ pc[p] \in {"mark", "call"} =>
                  Cardinality(Paying)' <= Cardinality(Paying) /\ (Paying = {} => Paying' = {})
           /\ label \notin {"mark", "call"} /\ pc[p] \in {"mark", "call"} =>
                  Cardinality(Paying)' = Cardinality(Paying) - 1
  <1>1. /\ IsFiniteSet(Paying) /\ Cardinality(Paying) \in Nat
        /\ IsFiniteSet(Paying') /\ Cardinality(Paying') \in Nat
    <2>1. Paying \subseteq Procs /\ Paying' \subseteq Procs
      BY DEF Paying
    <2> QED
      BY <2>1, SomeProcs
  <1>2. Cardinality(Paying') <= Cardinality(Paying) + 1
    <2>1. Paying' \subseteq Paying \cup {p}
      BY DEF Paying, Moves
    <2>2. IsFiniteSet(Paying \cup {p}) /\ Cardinality(Paying \cup {p}) <= Cardinality(Paying) + 1
      BY <1>1, OneMore
    <2>3. Cardinality(Paying') <= Cardinality(Paying \cup {p}) /\ Cardinality(Paying \cup {p}) \in Nat
      BY <2>1, <2>2, FS_Subset, FS_CardinalityType
    <2> QED
      BY <1>1, <2>2, <2>3
  <1>3. ASSUME label \notin {"mark", "call"} \/ pc[p] \in {"mark", "call"}
        PROVE  Cardinality(Paying') <= Cardinality(Paying) /\ (Paying = {} => Paying' = {})
    <2>1. Paying' \subseteq Paying
      BY <1>3 DEF Paying, Moves
    <2> QED
      BY <1>1, <2>1, FS_Subset
  <1>4. ASSUME label \notin {"mark", "call"}, pc[p] \in {"mark", "call"}
        PROVE  Cardinality(Paying') = Cardinality(Paying) - 1
    <2>1. Paying' = Paying \ {p} /\ p \in Paying
      BY <1>4 DEF Paying, Moves
    <2> QED
      BY <1>1, <2>1, FS_RemoveElement
  <1> QED
    BY <1>1, <1>2, <1>3, <1>4

LEMMA DeploymentRests ==
    ASSUME ContractsInv, NEW p \in Procs, NEW label, NEW r, Moves(p, label, r),
           UNCHANGED <<deployments, stalled, contracts>>, ~Deploying(p)', C!Exists, C!Exists',
           escrow'.simple = escrow.simple
    PROVE  OneDeployment'
  <1>1. faulty' = faulty /\ \A q \in Procs \ {p} : Deploying(q)' = Deploying(q)
    BY DEF Moves, setting, Deploying
  <1> QED
    BY <1>1 DEF ContractsInv, OneDeployment, Moves, Deploying

(* The row stays as it is, and a copy in a handler's hands comes to nothing*)
(* only where a call failed.                                               *)
LEMMA RowsRest ==
    ASSUME ContractsInv, NEW p \in Procs, NEW label, NEW r, Moves(p, label, r),
           UNCHANGED <<escrow, contracts, replaced>>, C!Exists,
           label \notin {"save", "record"}, pc[p] \notin {"save", "record"} \/ faulty,
           label = "deploy" => r \in [metadata : MetadataRow] /\ r.metadata.contract <= contracts
    PROVE  EscrowRows' /\ EscrowKept'
  <1>1. overlap' = overlap /\ faulty' = faulty
    BY DEF Moves, setting
  <1>2. EscrowRows'
    BY DEF ContractsInv, EscrowRows, Moves, C!Exists
  <1>3. EscrowKept'
    BY <1>1 DEF ContractsInv, EscrowKept, Moves, C!Exists
  <1> QED
    BY <1>2, <1>3

(* The row is saved, or a copy of it made to be.                           *)
LEMMA CopyTaken ==
    ASSUME ContractsInv, NEW p \in Procs, NEW r, Moves(p, "save", r), Frame',
           UNCHANGED <<escrow, contracts>>, C!Exists, replaced' \in BOOLEAN, replaced => replaced',
           CopyOf(escrow, r.copy, contracts),
           ~overlap /\ ~faulty /\ ~replaced' => Names(r.copy, contracts)
    PROVE  EscrowRows' /\ EscrowKept'
  <1>1. overlap' = overlap /\ faulty' = faulty
    BY DEF Moves, setting
  <1>2. EscrowRows'
    BY DEF ContractsInv, EscrowRows, Moves, C!Exists
  <1>3. ASSUME ~overlap, ~faulty, ~replaced'
        PROVE  /\ \E q \in Procs : pc'[q] = "save"
               /\ \A q \in Procs : pc'[q] = "save" => q = p
               /\ \A q \in Procs : pc'[q] # "record"
    BY <1>1, <1>3 DEF Frame, Moves
  <1>4. EscrowKept'
    BY <1>1, <1>3 DEF EscrowKept, Moves
  <1> QED
    BY <1>2, <1>4

LEMMA PaymentsRest ==
    ASSUME ContractsInv, NEW p \in Procs, NEW label, NEW r, Moves(p, label, r),
           UNCHANGED calledContract, C!Exists, C!Exists', escrow'.named = escrow.named,
           requests' \in Nat, requests' >= requests, label \notin {"mark", "call", "complete"},
           payment' \in {payment, "failed"} \/ (payment' = "completed" /\ pc[p] = "complete")
    PROVE  PaymentsMade'
  <1>1. Cardinality(Paying)' <= Cardinality(Paying) /\ (Paying = {} => Paying' = {})
    BY PayingMoves
  <1>2. calledContract' + Cardinality(Paying)' <= requests'
    BY <1>1, PayingMoves DEF ContractsInv, PaymentsMade
  <1>3. overlap' = overlap
    BY DEF Moves, setting
  <1> QED
    BY <1>1, <1>2, <1>3 DEF ContractsInv, PaymentsMade, Moves

LEMMA ContractsStep ==
    ASSUME ContractsInv, C!Next
    PROVE  ContractsInv'
  <1>1. PICK p \in Procs : \/ \E simple, named \in BOOLEAN : C!createEscrow(p, simple, named)
                           \/ C!queueDeployment(p)
                           \/ C!handleDeploySmartContract(p)
                           \/ C!deployEscrowContract(p)
                           \/ C!recordContract(p)
                           \/ \E whole \in BOOLEAN : C!updateEscrow(p, whole)
                           \/ C!closeEscrow(p)
                           \/ C!saveEscrow(p)
                           \/ C!processTransaction(p)
                           \/ C!markProcessing(p)
                           \/ C!callContract(p)
                           \/ C!markCompleted(p)
                           \/ C!logAction(p)
                           \/ C!paymentFails(p)
                           \/ C!fail(p)
                           \/ C!stall(p)
    BY DEF C!Next
  <1> DEFINE Goes(label, r) == /\ pc' = [pc EXCEPT ![p] = label] /\ run' = [run EXCEPT ![p] = r]
                               /\ UNCHANGED setting
                               /\ overlap \/ Idle \/ pc[p] # "idle" \/ label = "idle"
                               /\ requests' \in 0..MaxRequests /\ requests' >= requests
  <1>2. \A label, r : Goes(label, r) => /\ Moves(p, label, r) /\ Frame' /\ UNCHANGED setting
                                        /\ requests' \in 0..MaxRequests /\ requests' >= requests
                                        /\ requests' \in Nat
    <2>1. \A label, r : Goes(label, r) => Moves(p, label, r) /\ Frame'
      BY MovesFrame DEF ContractsInv
    <2>2. \A n \in 0..MaxRequests : n \in Nat
      OBVIOUS
    <2> QED
      BY <2>1, <2>2
  <1>3. \A label, r : C!GotoWith(p, label, r) /\ pc[p] # "idle" => Goes(label, r)
    BY DEF C!GotoWith, C!setting, setting, ContractsInv
  <1>4. \A label : C!Goto(p, label) /\ pc[p] # "idle" => Goes(label, run[p])
    <2>1. run = [run EXCEPT ![p] = run[p]]
      BY DEF ContractsInv, Frame
    <2> QED
      BY <2>1 DEF C!Goto, C!setting, setting, ContractsInv
  <1>5. \A label, r : C!Request(p, label, r) =>
            /\ Goes(label, r) /\ pc[p] = "idle" /\ requests' = requests + 1
            /\ ~overlap => \A q \in Procs : pc[q] = "idle"
    BY ConstantsAssumption
    DEF C!Request, C!MayStart, C!Idle, Idle, C!setting, setting, ContractsInv
  <1> HIDE DEF Goes
  <1>6. \A q \in Procs : pc[q] # "idle" => C!Exists
    BY DEF ContractsInv, OneDeployment
  <1>7. C!Exists => escrow \in EscrowRow /\ CopyOf(escrow, escrow, contracts)
    BY DEF ContractsInv, EscrowRows
  <1>8. \A row \in EscrowRow : row # C!Absent
    BY DEF EscrowRow, C!Absent
  (* What of a step neither deploys nor pays.                              *)
  <1>9. ASSUME NEW label, NEW r, Goes(label, r), C!Exists,
               UNCHANGED <<deployments, stalled, contracts, payment, calledContract>>,
               label \notin {"created", "deploy", "record", "mark", "call", "complete"},
               escrow' \in EscrowRow, escrow'.simple = escrow.simple, escrow'.named = escrow.named,
               replaced' \in BOOLEAN, EscrowRows', EscrowKept'
        PROVE  ContractsInv'
    <2>1. C!Exists'
      BY <1>8, <1>9 DEF C!Exists
    <2>2. Moves(p, label, r) /\ Frame' /\ requests' \in 0..MaxRequests /\ requests' \in Nat
            /\ requests' >= requests
      BY <1>2, <1>9
    <2>3. ~Deploying(p)'
      BY <1>9, <2>2 DEF Moves, Deploying
    <2>4. OneDeployment'
      BY <1>9, <2>1, <2>2, <2>3, DeploymentRests
    <2>5. PaymentsMade'
      BY <1>9, <2>1, <2>2, PaymentsRest
    <2> QED
      BY <1>9, <2>2, <2>4, <2>5 DEF ContractsInv
  <1>10. ASSUME NEW simple \in BOOLEAN, NEW named \in BOOLEAN,
                C!createEscrow(p, simple, named)
         PROVE  ContractsInv'
    <2>1. /\ Goes("created", C!NoRun) /\ requests' = requests + 1
          /\ ~C!Exists /\ \A q \in Procs : pc[q] = "idle"
          /\ UNCHANGED <<deployments, stalled, contracts, replaced, payment, calledContract>>
          /\ escrow' = [status |-> "open", simple |-> simple, named |-> named,
                        metadata |-> [note |-> "first", contract |-> 0]]
      BY <1>5, <1>10 DEF C!createEscrow, C!Idle, C!rest, C!Metadata
    <2>2. Moves(p, "created", C!NoRun) /\ Frame' /\ UNCHANGED setting /\ requests' \in 0..MaxRequests
      BY <1>2, <2>1
    <2>3. /\ escrow' \in EscrowRow /\ C!Exists' /\ escrow'.metadata.contract = 0
      BY <1>8, <2>1 DEF EscrowRow, MetadataRow, C!Exists
    <2>4. deployments = 0 /\ contracts = 0 /\ ~stalled /\ payment = "pending" /\ calledContract = 0
      BY <2>1 DEF ContractsInv, OneDeployment, PaymentsMade
    <2>5. \A q \in Procs : pc'[q] = IF q = p THEN "created" ELSE "idle"
      BY <2>1, <2>2 DEF Moves
    <2>6. OneDeployment'
      BY <2>1, <2>2, <2>3, <2>4, <2>5
      DEF ContractsInv, OneDeployment, Deploying, setting
    <2>7. EscrowRows' /\ EscrowKept'
      BY <2>1, <2>3, <2>4, <2>5 DEF EscrowRows, EscrowKept, CopyOf, Names
    <2>8. PaymentsMade'
      <3>1. Paying' = {} /\ Cardinality(Paying') = 0
        BY <2>5, FS_EmptySet DEF Paying
      <3> QED
        BY <2>1, <2>2, <2>3, <2>4, <2>5, <3>1 DEF PaymentsMade
    <2> QED
      BY <2>1, <2>2, <2>3, <2>6, <2>7, <2>8 DEF ContractsInv
  <1>11. CASE C!queueDeployment(p)
    <2>1. /\ Goes("idle", C!NoRun) /\ pc[p] = "created"
          /\ UNCHANGED <<escrow, stalled, contracts, replaced, payment, calledContract>>
          /\ deployments' = IF escrow.simple THEN 0 ELSE 1
      BY <1>3, <1>11 DEF C!queueDeployment, C!End
    <2>2. Moves(p, "idle", C!NoRun) /\ Frame' /\ UNCHANGED setting /\ requests' \in 0..MaxRequests
            /\ C!Exists
      BY <1>2, <1>6, <2>1
    <2>3. OneDeployment'
      <3>1. \A q \in Procs : ~Deploying(q)'
        BY <2>1, <2>2 DEF ContractsInv, OneDeployment, Deploying, Moves
      <3> QED
        BY <2>1, <2>2, <3>1
        DEF ContractsInv, OneDeployment, Deploying, setting, C!Exists
    <2>4. EscrowRows' /\ EscrowKept'
      BY <2>1, <2>2, RowsRest
    <2>5. PaymentsMade'
      BY <1>2, <2>1, <2>2, PaymentsRest DEF C!Exists
    <2> QED
      BY <1>7, <2>1, <2>2, <2>3, <2>4, <2>5 DEF ContractsInv
  <1>12. CASE C!handleDeploySmartContract(p)
    <2>0. PICK r : r = [metadata |-> escrow.metadata]
      OBVIOUS
    <2>1. /\ Goes("deploy", r) /\ pc[p] = "idle" /\ deployments > 0 /\ deployments' = deployments - 1
          /\ UNCHANGED <<escrow, stalled, contracts, replaced, payment, calledContract>>
      BY <1>5, <1>12, <2>0 DEF C!handleDeploySmartContract
    <2>2. /\ Moves(p, "deploy", r) /\ Frame' /\ UNCHANGED setting /\ requests' \in 0..MaxRequests
          /\ requests' \in Nat /\ requests' >= requests
      BY <1>2, <2>1
    <2>3. /\ deployments = 1 /\ deployments' = 0 /\ C!Exists /\ ~escrow.simple
          /\ \A q \in Procs : ~Deploying(q)
      BY <2>1 DEF ContractsInv, OneDeployment
    <2>4. r \in [metadata : MetadataRow] /\ r.metadata.contract <= contracts
      BY <1>7, <2>0, <2>3 DEF CopyOf, EscrowRow
    <2>5. OneDeployment'
      <3>1. \A q \in Procs : Deploying(q)' => q = p
        BY <2>2, <2>3 DEF Deploying, Moves
      <3>2. pc'[p] = "deploy" /\ \A q \in Procs \ {p} : pc'[q] \notin {"created", "deploy", "record"}
        BY <2>2, <2>3 DEF Deploying, Moves
      <3> QED
        BY <2>1, <2>2, <2>3, <3>1, <3>2
        DEF ContractsInv, OneDeployment, setting, C!Exists
    <2>6. EscrowRows' /\ EscrowKept'
      BY <2>1, <2>2, <2>3, <2>4, RowsRest
    <2>7. PaymentsMade'
      BY <2>1, <2>2, <2>3, PaymentsRest DEF C!Exists
    <2> QED
      BY <1>7, <2>1, <2>2, <2>3, <2>5, <2>6, <2>7 DEF ContractsInv
  <1>13. CASE C!deployEscrowContract(p)
    <2>0. PICK r : r = [run[p] EXCEPT !.metadata.contract = contracts + 1]
      OBVIOUS
    <2>1. /\ Goes("record", r) /\ pc[p] = "deploy" /\ contracts' = contracts + 1
          /\ UNCHANGED <<escrow, deployments, stalled, replaced, payment, calledContract>>
      BY <1>3, <1>13, <2>0 DEF C!deployEscrowContract
    <2>2. /\ Moves(p, "record", r) /\ Frame' /\ UNCHANGED setting /\ requests' \in 0..MaxRequests
          /\ requests' \in Nat /\ requests' >= requests /\ C!Exists
      BY <1>2, <1>6, <2>1
    <2>3. /\ contracts \in {0, 1} /\ (~stalled => contracts = 0) /\ ~escrow.simple
          /\ deployments = 0 /\ \A q \in Procs \ {p} : ~Deploying(q)
      BY <2>1, <2>2 DEF ContractsInv, OneDeployment, Deploying
    <2>4. r \in [metadata : MetadataRow] /\ r.metadata.contract = contracts'
      BY <2>0, <2>1, <2>3 DEF ContractsInv, EscrowRows, MetadataRow
    <2>5. OneDeployment'
      <3>1. pc'[p] = "record" /\ \A q \in Procs \ {p} : pc'[q] \notin {"created", "deploy", "record"}
        BY <2>2, <2>3 DEF Deploying, Moves
      <3> QED
        BY <2>1, <2>2, <2>3, <3>1
        DEF ContractsInv, OneDeployment, Deploying, setting, C!Exists
    <2>6. EscrowRows'
      BY <2>1, <2>2, <2>3, <2>4
      DEF ContractsInv, EscrowRows, CopyOf, Moves, C!Exists, EscrowRow,
          MetadataRow
    <2>7. EscrowKept'
      <3>1. ASSUME ~overlap, ~faulty, ~replaced
            PROVE  /\ \A q \in Procs : pc'[q] \in {"record", "save"} => q = p
                   /\ escrow.metadata.contract = 0
        <4>1. \A q \in Procs \ {p} : pc'[q] = "idle"
          BY <2>1, <2>2, <3>1 DEF ContractsInv, Frame, Moves
        <4>2. contracts = 0
          BY <2>3, <3>1 DEF ContractsInv, OneDeployment
        <4> QED
          BY <1>7, <2>2, <4>1, <4>2 DEF CopyOf, EscrowRow, MetadataRow
      <3> QED
        BY <2>1, <2>2, <2>4, <3>1 DEF EscrowKept, Moves, setting
    <2>8. PaymentsMade'
      BY <2>1, <2>2, PaymentsRest DEF C!Exists
    <2> QED
      BY <1>7, <2>1, <2>2, <2>5, <2>6, <2>7, <2>8 DEF ContractsInv, C!Exists
  <1>14. CASE C!recordContract(p)
    <2>1. /\ pc[p] = "record" /\ C!Exists
          /\ UNCHANGED <<escrow, deployments, stalled, contracts, replaced, payment, calledContract>>
      BY <1>6, <1>14 DEF C!recordContract, C!rest
    <2>2. CASE escrow.status # "closed"
      <3>0. PICK r : r = [copy |-> [escrow EXCEPT !.metadata = run[p].metadata]]
        OBVIOUS
      <3>1. Goes("save", r)
        BY <1>3, <1>14, <2>1, <2>2, <3>0 DEF C!recordContract, C!validateEscrowUpdate
      <3>2. CopyOf(escrow, r.copy, contracts) /\ r.copy.metadata = run[p].metadata
        BY <1>7, <2>1, <3>0 DEF CopyOf, EscrowRow, ContractsInv, EscrowRows
      <3>3. ~overlap /\ ~faulty /\ ~replaced => Names(r.copy, contracts)
        BY <2>1, <3>2 DEF Names, ContractsInv, EscrowKept
      <3>4. EscrowRows' /\ EscrowKept'
        <4>1. replaced' = replaced /\ replaced' \in BOOLEAN
          BY <2>1 DEF ContractsInv
        <4> QED
          BY <1>2, <2>1, <3>1, <3>2, <3>3, <4>1, CopyTaken
      <3> QED
        BY <1>7, <1>9, <2>1, <3>1, <3>4 DEF ContractsInv
    <2>3. CASE escrow.status = "closed"
      <3>1. Goes("idle", C!NoRun)
        BY <1>3, <1>14, <2>1, <2>3 DEF C!recordContract, C!validateEscrowUpdate, C!End
      <3>2. Moves(p, "idle", C!NoRun) /\ UNCHANGED setting
        BY <1>2, <3>1
      <3>3. EscrowRows'
        BY <2>1, <3>2 DEF ContractsInv, EscrowRows, Moves, C!Exists
      <3>4. EscrowKept'
        BY <2>1, <2>3, <3>2
        DEF ContractsInv, EscrowKept, Names, Moves, setting, C!Exists
      <3> QED
        BY <1>7, <1>9, <2>1, <3>1, <3>3, <3>4 DEF ContractsInv
    <2> QED
      BY <2>2, <2>3
  <1>15. ASSUME NEW whole \in BOOLEAN, C!updateEscrow(p, whole)
         PROVE  ContractsInv'
    <2>0. PICK copy : copy = IF whole
                 THEN [escrow EXCEPT !.metadata = [note |-> "second", contract |-> 0]]
                                      ELSE escrow
      OBVIOUS
    <2>1. /\ Goes("save", [copy |-> copy]) /\ C!Exists /\ pc[p] = "idle"
          /\ UNCHANGED <<escrow, deployments, stalled, contracts, payment, calledContract>>
          /\ replaced' = (replaced \/ whole)
          /\ ~overlap => \A q \in Procs : pc[q] = "idle"
      BY <1>5, <1>15, <2>0 DEF C!updateEscrow, C!Metadata
    <2>2. CopyOf(escrow, copy, contracts)
      BY <1>7, <2>0, <2>1
      DEF CopyOf, EscrowRow, MetadataRow, ContractsInv, OneDeployment
    <2>3. ~overlap /\ ~faulty /\ ~replaced' => Names(copy, contracts)
      BY <2>0, <2>1 DEF ContractsInv, EscrowKept
    <2>4. replaced' \in BOOLEAN
      BY <2>1 DEF ContractsInv
    <2>5. EscrowRows' /\ EscrowKept'
      BY <1>2, <2>1, <2>2, <2>3, <2>4, CopyTaken
    <2> QED
      BY <1>7, <1>9, <2>1, <2>4, <2>5
  <1>16. CASE C!closeEscrow(p)
    <2>0. PICK copy : copy = [escrow EXCEPT !.status = "closed"]
      OBVIOUS
    <2>1. /\ Goes("save", [copy |-> copy]) /\ C!Exists /\ pc[p] = "idle" /\ escrow.status = "open"
          /\ UNCHANGED <<escrow, deployments, stalled, contracts, replaced, payment, calledContract>>
          /\ ~overlap => \A q \in Procs : pc[q] = "idle"
      BY <1>5, <1>16, <2>0 DEF C!closeEscrow, C!rest
    <2>2. CopyOf(escrow, copy, contracts) /\ copy.metadata = escrow.metadata
      BY <1>7, <2>0, <2>1 DEF CopyOf, EscrowRow
    <2>3. ~overlap /\ ~faulty /\ ~replaced => Names(copy, contracts)
      BY <2>1, <2>2 DEF ContractsInv, EscrowKept, Names
    <2>4. replaced' = replaced /\ replaced' \in BOOLEAN
      BY <2>1 DEF ContractsInv
    <2>5. EscrowRows' /\ EscrowKept'
      BY <1>2, <2>1, <2>2, <2>3, <2>4, CopyTaken
    <2> QED
      BY <1>7, <1>9, <2>1, <2>4, <2>5
  <1>17. CASE C!saveEscrow(p)
    <2>0. PICK copy : copy = run[p].copy
      OBVIOUS
    <2>1. /\ Goes("idle", C!NoRun) /\ pc[p] = "save" /\ C!Exists /\ escrow' = copy
          /\ UNCHANGED <<deployments, stalled, contracts, replaced, payment, calledContract>>
      BY <1>3, <1>6, <1>17, <2>0 DEF C!saveEscrow, C!End, C!rest
    <2>2. Moves(p, "idle", C!NoRun) /\ Frame' /\ UNCHANGED setting
      BY <1>2, <2>1
    <2>3. /\ CopyOf(escrow, copy, contracts) /\ copy \in EscrowRow
          /\ ~overlap /\ ~faulty /\ ~replaced => Names(copy, contracts)
      BY <2>0, <2>1 DEF ContractsInv, EscrowRows, EscrowKept, CopyOf
    <2>4. EscrowRows'
      BY <2>1, <2>2, <2>3 DEF ContractsInv, EscrowRows, CopyOf, Moves
    <2>5. ASSUME ~overlap
          PROVE  \A q \in Procs : pc'[q] = "idle"
      BY <2>1, <2>2, <2>5 DEF ContractsInv, Frame, Moves
    <2>6. EscrowKept'
      BY <2>1, <2>2, <2>3, <2>5 DEF EscrowKept, setting
    <2> QED
      BY <1>9, <2>1, <2>3, <2>4, <2>6 DEF ContractsInv, CopyOf
  <1>18. CASE C!logAction(p)
    <2>1. /\ Goes("idle", C!NoRun) /\ pc[p] = "audit" /\ C!Exists
          /\ UNCHANGED <<escrow, deployments, stalled, contracts, replaced, payment, calledContract>>
      BY <1>3, <1>6, <1>18 DEF C!logAction, C!End, C!rest
    <2>2. EscrowRows' /\ EscrowKept'
      BY <1>2, <2>1, RowsRest
    <2> QED
      BY <1>7, <1>9, <2>1, <2>2 DEF ContractsInv
  <1>19. CASE C!fail(p)
    <2>1. /\ Goes("idle", C!NoRun) /\ faulty /\ C!Exists
          /\ UNCHANGED <<escrow, deployments, stalled, contracts, replaced, payment, calledContract>>
      BY <1>3, <1>6, <1>19 DEF C!fail, C!End, C!rest
    <2>2. EscrowRows' /\ EscrowKept'
      BY <1>2, <2>1, RowsRest
    <2> QED
      BY <1>7, <1>9, <2>1, <2>2 DEF ContractsInv
  <1>20. CASE C!stall(p)
    <2>1. /\ Goes("idle", C!NoRun) /\ faulty /\ ~stalled /\ pc[p] \in {"deploy", "record"} /\ C!Exists
          /\ stalled' = TRUE /\ deployments' = deployments + 1
          /\ UNCHANGED <<escrow, contracts, replaced, payment, calledContract>>
      BY <1>3, <1>6, <1>20 DEF C!stall, C!End
    <2>2. /\ Moves(p, "idle", C!NoRun) /\ Frame' /\ UNCHANGED setting /\ requests' \in 0..MaxRequests
          /\ requests' \in Nat /\ requests' >= requests
      BY <1>2, <2>1
    <2>3. /\ deployments = 0 /\ contracts \in {0, 1} /\ ~escrow.simple
          /\ \A q \in Procs \ {p} : ~Deploying(q)
      BY <2>1, <2>2 DEF ContractsInv, OneDeployment, Deploying
    <2>4. OneDeployment'
      <3>1. \A q \in Procs : pc'[q] \notin {"created", "deploy", "record"}
        BY <2>2, <2>3 DEF Deploying, Moves
      <3> QED
        BY <2>1, <2>2, <2>3, <3>1 DEF OneDeployment, Deploying, setting, C!Exists
    <2>5. EscrowRows' /\ EscrowKept'
      BY <2>1, <2>2, RowsRest
    <2>6. PaymentsMade'
      BY <2>1, <2>2, PaymentsRest DEF C!Exists
    <2> QED
      BY <1>7, <2>1, <2>2, <2>4, <2>5, <2>6 DEF ContractsInv
  (* Of payments only the payment moves.                                   *)
  <1>21. ASSUME NEW label, NEW r, Goes(label, r), C!Exists, PaymentsMade',
                UNCHANGED <<escrow, deployments, stalled, contracts, replaced>>,
                label \notin {"created", "deploy", "record", "save"}, pc[p] \notin {"save", "record"}
         PROVE  ContractsInv'
    <2>1. Moves(p, label, r) /\ Frame' /\ requests' \in 0..MaxRequests
      BY <1>2, <1>21
    <2>2. EscrowRows' /\ EscrowKept'
      BY <1>21, <2>1, RowsRest
    <2>3. OneDeployment'
      BY <1>21, <2>1, DeploymentRests DEF Moves, Deploying, C!Exists
    <2> QED
      BY <1>7, <1>21, <2>1, <2>2, <2>3 DEF ContractsInv
  <1>22. CASE C!processTransaction(p)
    <2>0. PICK r : r = [named |-> escrow.named]
      OBVIOUS
    <2>1. /\ Goes("mark", r) /\ C!Exists /\ pc[p] = "idle" /\ payment = "pending"
          /\ requests' = requests + 1
          /\ UNCHANGED <<escrow, deployments, stalled, contracts, replaced, payment, calledContract>>
      BY <1>5, <1>22, <2>0 DEF C!processTransaction, C!rest
    <2>2. Moves(p, "mark", r) /\ UNCHANGED setting
      BY <1>2, <2>1
    <2>3. calledContract' + Cardinality(Paying)' <= requests'
      BY <2>1, <2>2, PayingMoves DEF ContractsInv, PaymentsMade
    <2>4. PaymentsMade'
      BY <2>0, <2>1, <2>2, <2>3 DEF ContractsInv, PaymentsMade, Moves, setting, C!Exists
    <2> QED
      BY <1>21, <2>1, <2>4
  <1>23. CASE C!markProcessing(p)
    <2>1. PICK label \in {"call", "complete"} : /\ Goes(label, run[p])
                                                /\ label = IF run[p].named THEN "call" ELSE "complete"
      BY <1>4, <1>23 DEF C!markProcessing
    <2>2. /\ C!Exists /\ pc[p] = "mark" /\ payment' = "processing"
          /\ UNCHANGED <<escrow, deployments, stalled, contracts, replaced, calledContract>>
      BY <1>6, <1>23 DEF C!markProcessing
    <2>3. Moves(p, label, run[p]) /\ UNCHANGED setting /\ requests' >= requests /\ requests' \in Nat
      BY <1>2, <2>1
    <2>4. /\ calledContract' + Cardinality(Paying)' <= requests'
          /\ p \in Paying
      <3>1. calledContract \in Nat /\ calledContract + Cardinality(Paying) <= requests
              /\ requests \in Nat
        BY ConstantsAssumption DEF ContractsInv, PaymentsMade
      <3>2. Cardinality(Paying)' <= Cardinality(Paying)
              /\ {Cardinality(Paying), Cardinality(Paying)'} \subseteq Nat
        BY <2>1, <2>2, <2>3, PayingMoves
      <3> QED
        BY <2>2, <2>3, <3>1, <3>2 DEF Paying
    <2>5. PaymentsMade'
      BY <2>1, <2>2, <2>3, <2>4 DEF ContractsInv, PaymentsMade, Moves, setting, C!Exists
    <2> QED
      BY <1>21, <2>1, <2>2, <2>5
  <1>24. CASE C!callContract(p)
    <2>1. /\ Goes("complete", run[p]) /\ C!Exists /\ pc[p] = "call"
               /\ calledContract' = calledContract + 1
          /\ UNCHANGED <<escrow, deployments, stalled, contracts, replaced, payment>>
      BY <1>4, <1>6, <1>24 DEF C!callContract
    <2>2. Moves(p, "complete", run[p]) /\ Frame' /\ UNCHANGED setting /\ requests' >= requests
            /\ requests' \in Nat
      BY <1>2, <2>1
    <2>3. /\ calledContract' + Cardinality(Paying)' <= requests'
          /\ p \in Paying
      <3>1. calledContract \in Nat /\ calledContract + Cardinality(Paying) <= requests
              /\ requests \in Nat
        BY ConstantsAssumption DEF ContractsInv, PaymentsMade
      <3>2. Cardinality(Paying)' = Cardinality(Paying) - 1 /\ Cardinality(Paying) \in Nat
        BY <2>1, <2>2, PayingMoves
      <3> QED
        BY <2>1, <2>2, <3>1, <3>2 DEF Paying
    <2>4. payment # "pending" /\ (~overlap => Paying' = {})
      BY <2>1, <2>2 DEF ContractsInv, PaymentsMade, Frame, Moves, Paying
    <2>5. PaymentsMade'
      BY <2>1, <2>2, <2>3, <2>4 DEF ContractsInv, PaymentsMade, Moves, setting, C!Exists
    <2> QED
      BY <1>21, <2>1, <2>5
  <1>25. CASE C!markCompleted(p) \/ C!paymentFails(p)
    <2>1. PICK label, r :
              /\ Goes(label, r) /\ label \in {"audit", "idle"} /\ C!Exists
                   /\ pc[p] \in {"mark", "call", "complete", "audit"}
              /\ payment' = "failed" \/ (payment' = "completed" /\ pc[p] = "complete")
              /\ UNCHANGED <<escrow, deployments, stalled, contracts, replaced, calledContract>>
      <3>1. CASE C!markCompleted(p)
        BY <1>4, <1>6, <3>1 DEF C!markCompleted
      <3>2. CASE C!paymentFails(p)
        BY <1>3, <1>6, <3>2 DEF C!paymentFails, C!End
      <3> QED
        BY <1>25, <3>1, <3>2
    <2>2. PaymentsMade'
      BY <1>2, <2>1, PaymentsRest DEF C!Exists
    <2> QED
      BY <1>21, <2>1, <2>2
  <1> QED
    BY <1>1, <1>10, <1>11, <1>12, <1>13, <1>14, <1>15, <1>16, <1>17, <1>18, <1>19,
       <1>20, <1>22, <1>23,
       <1>24, <1>25

LEMMA ContractsInit ==
    ASSUME HandlersInit, C!Rest
    PROVE  ContractsInv
  <1>1. Frame /\ \A p \in Procs : pc[p] = "idle"
    BY FrameInit
  <1>2. Paying = {} /\ Cardinality(Paying) = 0
    BY <1>1, FS_EmptySet DEF Paying
  <1>3. /\ requests = 0 /\ ~C!Exists /\ deployments = 0 /\ contracts = 0 /\ replaced = FALSE
        /\ stalled = FALSE /\ payment = "pending" /\ calledContract = 0
    BY DEF HandlersInit, C!Rest, C!Exists
  <1>4. OneDeployment
    <2>1. deployments \in {0, 1} /\ contracts \in {0, 1, 2}
      BY <1>3
    <2>2. stalled \in BOOLEAN /\ ~stalled
      BY <1>3
    <2> QED
      BY <1>1, <1>3, <2>1, <2>2 DEF OneDeployment, Deploying
  <1>5. EscrowRows /\ EscrowKept
    BY <1>1, <1>3 DEF EscrowRows, EscrowKept
  <1>6. PaymentsMade
    BY <1>1, <1>2, <1>3 DEF PaymentsMade
  <1>7. requests \in 0..MaxRequests
    BY <1>3, ConstantsAssumption
  <1>8. replaced \in BOOLEAN
    BY <1>3
  <1> QED
    BY <1>1, <1>3, <1>4, <1>5, <1>6, <1>7, <1>8 DEF ContractsInv

LEMMA ContractsStand ==
    ASSUME ContractsInv, UNCHANGED <<handlers, contractVars>>
    PROVE  ContractsInv'
  <1>1. Frame' /\ UNCHANGED <<pc, run, overlap, faulty, requests, escrow, deployments, stalled,
                              contracts, replaced, payment, calledContract>>
    BY NothingMoves DEF ContractsInv, handlers, setting, contractVars
  <1>2. OneDeployment'
    BY <1>1 DEF ContractsInv, OneDeployment, Deploying, C!Exists
  <1>3. EscrowRows' /\ EscrowKept'
    BY <1>1 DEF ContractsInv, EscrowRows, EscrowKept, C!Exists
  <1>4. PaymentsMade'
    BY <1>1 DEF ContractsInv, PaymentsMade, Paying, C!Exists
  <1> QED
    BY <1>1, <1>2, <1>3, <1>4 DEF ContractsInv, C!Exists

LEMMA ContractsPromise ==
    ASSUME ContractsInv
    PROVE  C!TypeOK /\ C!ContractKept /\ C!PaidOverNamed
  <1>1. C!TypeOK
    <2>1. Cardinality(Paying) \in Nat
      BY SomeProcs DEF Paying
    <2>2. calledContract \in 0..MaxRequests
      BY <2>1, ConstantsAssumption DEF ContractsInv, PaymentsMade
    <2> QED
      BY <2>2
      DEF ContractsInv, OneDeployment, PaymentsMade, EscrowRow, MetadataRow,
          C!TypeOK, C!Exists
  <1>2. C!ContractKept
    BY
    DEF ContractsInv, OneDeployment, EscrowRows, EscrowKept, CopyOf, Names,
        C!Exists, C!Idle, C!ContractKept
  <1>3. C!PaidOverNamed
    BY DEF ContractsInv, PaymentsMade, EscrowRow, C!Exists, C!PaidOverNamed
  <1> QED
    BY <1>1, <1>2, <1>3
-----------------------------------------------------------------------------
(* Notices of an escrow.                                                   *)

Everyone(users) == {users[i] : i \in DOMAIN users}
Begun(users, known) == \E k \in DOMAIN users : known = {users[i] : i \in 1..k}

(* Who is left to be known, of those to be known in turn.                    *)
Left(users, left, known) ==
    \/ left = users /\ known = {}
    \/ Len(users) = 2 /\ left = <<users[2]>> /\ known = {users[1]}

ToldOf(which, event) == {n.user : n \in {m \in which : m.event = event}}

Notice == [event : 1..requests, kind : Kinds, user : U!Parties, isRead : BOOLEAN]

Telling(r, known, n) ==
    /\ r = [event |-> r.event, kind |-> r.kind, users |-> r.users]
    /\ r.event \in 1..n /\ r.kind \in Kinds
    /\ \E users \in U!Addressees[r.kind] : Left(users, r.users, known)

InOrder(n, known, over) ==
    \E users \in U!Addressees[n.kind] :
        /\ n.user \in Everyone(users)
        /\ Begun(users, known)
        /\ over => known = Everyone(users)

Over(event) == ~faulty /\ \A p \in Procs : pc[p] = "tell" => run[p].event # event

NoticesInv ==
    /\ Frame
    /\ requests \in 0..MaxRequests
    /\ notices \subseteq Notice
    /\ \A n, m \in notices : n.event = m.event => n.kind = m.kind /\ (n.user = m.user => n = m)
    /\ \A p \in Procs : pc[p] = "tell" =>
           /\ Telling(run[p], ToldOf(notices, run[p].event), requests)
           /\ \A n \in notices : n.event = run[p].event => n.kind = run[p].kind
    /\ \A p, q \in Procs : pc[p] = "tell" /\ pc[q] = "tell" /\ run[p].event = run[q].event => p = q
    /\ \A n \in notices : InOrder(n, ToldOf(notices, n.event), Over(n.event))

LEMMA AddresseesAre ==
    ASSUME NEW k \in Kinds, NEW users \in U!Addressees[k]
    PROVE  users \in {<<"buyer">>, <<"seller">>, <<"buyer", "seller">>, <<"seller", "buyer">>}
  <1> DEFINE Lists == {<<"buyer">>, <<"seller">>, <<"buyer", "seller">>, <<"seller", "buyer">>}
  <1>1. \A l \in DOMAIN U!AboutMilestones : U!AboutMilestones[l] \subseteq Lists
    BY DEF U!AboutMilestones
  <1>2. \A l \in DOMAIN U!AboutEnds : U!AboutEnds[l] \subseteq Lists
    BY DEF U!AboutEnds
  <1>3. {<<"buyer", "seller">>} \subseteq Lists /\ {<<"seller">>} \subseteq Lists
    OBVIOUS
  <1> HIDE DEF Lists
  <1>4. \A l \in DOMAIN U!Addressees : U!Addressees[l] \subseteq Lists
    BY <1>1, <1>2, <1>3 DEF U!Addressees
  <1> QED
    BY <1>4, KindsAssumption DEF Lists

LEMMA NextTold ==
    ASSUME NEW k \in Kinds, NEW users \in U!Addressees[k], NEW left, NEW known,
           Left(users, left, known)
    PROVE  /\ left # <<>>
           /\ Head(left) \in U!Parties /\ Head(left) \in Everyone(users) /\ Head(left) \notin known
           /\ known \subseteq Everyone(users)
           /\ Begun(users, known \cup {Head(left)})
           /\ Tail(left) = <<>> => known \cup {Head(left)} = Everyone(users)
           /\ Tail(left) # <<>> => Left(users, Tail(left), known \cup {Head(left)})
  <1>1. CASE Len(users) = 1
    <2>1. PICK a \in U!Parties : users = <<a>>
      BY <1>1, AddresseesAre DEF U!Parties
    <2>2. DOMAIN users = {1} /\ 1..1 = {1}
      BY <2>1
    <2>3. left = <<a>> /\ known = {} /\ Everyone(users) = {a}
      BY <1>1, <2>1, <2>2 DEF Left, Everyone
    <2>4. Begun(users, {a})
      BY <2>1, <2>2 DEF Begun
    <2>5. Head(left) = a /\ Tail(left) = <<>> /\ left # <<>>
      BY <2>3
    <2> QED
      BY <2>3, <2>4, <2>5
  <1>2. CASE Len(users) = 2
    <2>1. PICK a \in U!Parties, b \in U!Parties : users = <<a, b>> /\ a # b
      BY <1>2, AddresseesAre DEF U!Parties
    <2>2. DOMAIN users = {1, 2} /\ 1..1 = {1} /\ 1..2 = {1, 2} /\ users[1] = a /\ users[2] = b
      BY <2>1
    <2>3. Everyone(users) = {a, b}
      BY <2>2 DEF Everyone
    <2>4. Begun(users, {a}) /\ Begun(users, {a, b})
      BY <2>2 DEF Begun
    <2>5. Head(<<a, b>>) = a /\ Tail(<<a, b>>) = <<b>> /\ Head(<<b>>) = b /\ Tail(<<b>>) = <<>>
          /\ <<b>> # <<>> /\ <<a, b>> # <<>>
      OBVIOUS
    <2>6. CASE left = users /\ known = {}
      <3>1. Left(users, <<b>>, {a})
        BY <1>2, <2>2 DEF Left
      <3> QED
        BY <2>1, <2>3, <2>4, <2>5, <2>6, <3>1
    <2>7. CASE left = <<b>> /\ known = {a}
      <3>1. known \cup {b} = {a, b} /\ b \notin known
        BY <2>1, <2>7
      <3> QED
        BY <2>3, <2>4, <2>5, <2>7, <3>1
    <2> QED
      BY <2>2, <2>6, <2>7 DEF Left
  <1>3. Len(users) \in {1, 2}
    BY AddresseesAre
  <1> QED
    BY <1>1, <1>2, <1>3

LEMMA NoticesMove ==
    ASSUME NoticesInv, NEW p \in Procs, NEW label, NEW r, Moves(p, label, r), Frame',
           requests' \in 0..MaxRequests, requests' >= requests, UNCHANGED notices,
           pc[p] # "tell" \/ faulty, label \notin {"tell"}
    PROVE  NoticesInv'
  <1>1. Notice \subseteq Notice'
    BY ConstantsAssumption DEF NoticesInv, Notice
  <1>2. \A q \in Procs : pc'[q] = "tell" => pc[q] = "tell" /\ run'[q] = run[q]
    BY DEF Moves
  <1>3. \A e : Over(e)' => Over(e)
    <2>1. faulty' = faulty /\ (~faulty => \A q \in Procs : pc[q] = "tell"
            => pc'[q] = "tell" /\ run'[q] = run[q])
      BY DEF Moves, setting
    <2> QED
      BY <2>1 DEF Over
  <1>4. \A q \in Procs : pc'[q] = "tell" => Telling(run'[q], ToldOf(notices', run'[q].event), requests')
    <2>1. \A m, known : Telling(m, known, requests) => Telling(m, known, requests')
      BY ConstantsAssumption DEF NoticesInv, Telling
    <2> QED
      BY <1>2, <2>1 DEF NoticesInv
  <1>5. \A n \in notices : InOrder(n, ToldOf(notices', n.event), Over(n.event)')
    BY <1>3 DEF NoticesInv, InOrder
  <1> QED
    BY <1>1, <1>2, <1>4, <1>5 DEF NoticesInv

LEMMA NoticesRead ==
    ASSUME NoticesInv, NEW which, notices' = U!Read(which)
    PROVE  /\ notices' \subseteq Notice
           /\ \A n, m \in notices' : n.event = m.event => n.kind = m.kind /\ (n.user = m.user => n = m)
           /\ \A e : ToldOf(notices', e) = ToldOf(notices, e)
           /\ \A n \in notices' : \E m \in notices : n.event = m.event /\ n.kind = m.kind
                /\ n.user = m.user
  <1> DEFINE Now(n) == [n EXCEPT !.isRead = n.isRead \/ n \in which]
  <1>1. \A n \in notices : /\ Now(n) \in Notice
                           /\ Now(n).event = n.event /\ Now(n).kind = n.kind /\ Now(n).user = n.user
    BY DEF NoticesInv, Notice
  <1>2. /\ \A n \in notices' : \E m \in notices : n = Now(m)
        /\ \A m \in notices : Now(m) \in notices'
    BY DEF U!Read
  <1> HIDE DEF Now
  <1>3. ASSUME NEW n \in notices', NEW m \in notices', n.event = m.event
        PROVE  n.kind = m.kind /\ (n.user = m.user => n = m)
    <2>1. PICK a \in notices, b \in notices : n = Now(a) /\ m = Now(b)
      BY <1>2
    <2> QED
      BY <1>1, <1>3, <2>1 DEF NoticesInv
  <1>4. ASSUME NEW e
        PROVE  ToldOf(notices', e) = ToldOf(notices, e)
    <2>1. \A u : u \in ToldOf(notices', e) <=> \E n \in notices' : n.event = e /\ n.user = u
      BY DEF ToldOf
    <2>2. \A u : u \in ToldOf(notices, e) <=> \E n \in notices : n.event = e /\ n.user = u
      BY DEF ToldOf
    <2>3. \A u : u \in ToldOf(notices', e) <=> u \in ToldOf(notices, e)
      BY <1>1, <1>2, <2>1, <2>2
    <2> QED
      BY <2>3
  <1> QED
    BY <1>1, <1>2, <1>3, <1>4

LEMMA NoticesStep ==
    ASSUME NoticesInv, U!Next
    PROVE  NoticesInv'
  <1>1. PICK p \in Procs : \/ \E k \in Kinds : \E users \in U!Addressees[k] : U!send(p, k, users)
                           \/ U!createAndSendNotifications(p)
                           \/ U!tellingFails(p)
                           \/ \E notice \in notices : U!markNotificationAsRead(p, notice)
                           \/ \E party \in U!Parties : U!markAllNotificationsAsRead(p, party)
                           \/ U!update(p)
    BY DEF U!Next
  <1> DEFINE Goes(label, r) == /\ pc' = [pc EXCEPT ![p] = label] /\ run' = [run EXCEPT ![p] = r]
                               /\ UNCHANGED setting
                               /\ overlap \/ Idle \/ pc[p] # "idle" \/ label = "idle"
                               /\ requests' \in 0..MaxRequests /\ requests' >= requests
  <1>2. \A label, r : Goes(label, r) => /\ Moves(p, label, r) /\ Frame' /\ UNCHANGED setting
                                        /\ requests' \in 0..MaxRequests /\ requests' >= requests
    <2>1. \A label, r : Goes(label, r) => Moves(p, label, r) /\ Frame'
      BY MovesFrame DEF NoticesInv
    <2> QED
      BY <2>1
  <1>3. \A label, r : U!GotoWith(p, label, r) /\ pc[p] # "idle"
          => Goes(label, r) /\ requests' = requests
    BY DEF U!GotoWith, U!setting, setting, NoticesInv
  <1>4. \A label, r : U!Request(p, label, r)
          => Goes(label, r) /\ pc[p] = "idle" /\ requests' = requests + 1
    BY ConstantsAssumption
    DEF U!Request, U!MayStart, U!Idle, Idle, U!setting, setting, NoticesInv
  <1> HIDE DEF Goes
  <1>5. ASSUME NEW k \in Kinds, NEW users \in U!Addressees[k], U!send(p, k, users)
        PROVE  NoticesInv'
    <2>0. PICK r : r = [event |-> requests + 1, kind |-> k, users |-> users]
      OBVIOUS
    <2>1. Goes("tell", r) /\ pc[p] = "idle" /\ requests' = requests + 1 /\ UNCHANGED notices
      BY <1>4, <1>5, <2>0 DEF U!send
    <2>2. Moves(p, "tell", r) /\ Frame' /\ UNCHANGED setting /\ requests' \in 0..MaxRequests
            /\ requests \in Nat
      BY <1>2, <2>1, ConstantsAssumption DEF NoticesInv
    <2>3. Notice \subseteq Notice' /\ \A n \in notices : n.event \in 1..requests
      BY <2>1, <2>2 DEF NoticesInv, Notice
    <2>4. ToldOf(notices', r.event) = {}
      BY <2>0, <2>1, <2>2, <2>3 DEF ToldOf
    <2>5. Telling(r, {}, requests')
      BY <2>0, <2>1, <2>2 DEF Telling, Left
    <2>6. \A m, known : Telling(m, known, requests) => Telling(m, known, requests') /\ m.event # r.event
      BY <2>0, <2>1, <2>2 DEF Telling
    <2>7. \A q \in Procs : pc'[q] = "tell" => q = p \/ (pc[q] = "tell" /\ run'[q] = run[q])
      BY <2>2 DEF Moves
    <2>8. run'[p] = r
      BY <2>2 DEF Moves
    <2>9. \A q \in Procs : pc'[q] = "tell" =>
              /\ Telling(run'[q], ToldOf(notices', run'[q].event), requests')
              /\ \A n \in notices' : n.event = run'[q].event => n.kind = run'[q].kind
      <3>1. ASSUME NEW q \in Procs, pc[q] = "tell", run'[q] = run[q]
            PROVE  /\ Telling(run'[q], ToldOf(notices', run'[q].event), requests')
                   /\ \A n \in notices' : n.event = run'[q].event => n.kind = run'[q].kind
        <4>1. PICK m : m = run[q]
          OBVIOUS
        <4>2. /\ Telling(m, ToldOf(notices, m.event), requests)
              /\ \A n \in notices : n.event = m.event => n.kind = m.kind
          BY <3>1, <4>1 DEF NoticesInv
        <4>3. Telling(m, ToldOf(notices, m.event), requests')
          BY <2>6, <4>2
        <4> QED
          BY <2>1, <3>1, <4>1, <4>2, <4>3
      <3>2. \A n \in notices' : n.event # r.event
        BY <2>0, <2>1, <2>2, <2>3
      <3> QED
        BY <2>4, <2>5, <2>7, <2>8, <3>1, <3>2
    <2>10. \A q, s \in Procs : pc'[q] = "tell" /\ pc'[s] = "tell" /\ run'[q].event = run'[s].event
             => q = s
      BY <2>6, <2>7, <2>8 DEF NoticesInv
    <2>11. \A n \in notices : Over(n.event)' => Over(n.event)
      BY <2>1, <2>2 DEF Over, Moves, setting
    <2>12. \A n \in notices' : InOrder(n, ToldOf(notices', n.event), Over(n.event)')
      BY <2>1, <2>11 DEF NoticesInv, InOrder
    <2> QED
      BY <2>1, <2>2, <2>3, <2>9, <2>10, <2>12 DEF NoticesInv
  <1>6. CASE U!createAndSendNotifications(p)
    <2>1. PICK r : r = run[p]
      OBVIOUS
    <2>2. PICK known : known = ToldOf(notices, r.event)
      OBVIOUS
    <2>3. pc[p] = "tell" /\ Telling(r, known, requests) /\ \A n \in notices : n.event = r.event
            => n.kind = r.kind
      BY <1>6, <2>1, <2>2 DEF U!createAndSendNotifications, NoticesInv
    <2>4. PICK users \in U!Addressees[r.kind] : Left(users, r.users, known)
      BY <2>3 DEF Telling
    <2>5. PICK party : party = Head(r.users)
      OBVIOUS
    <2>6. PICK left : left = Tail(r.users)
      OBVIOUS
    <2>7. PICK all : all = known \cup {party}
      OBVIOUS
    <2>8. /\ r.kind \in Kinds /\ r.event \in 1..requests
          /\ party \in U!Parties /\ party \in Everyone(users) /\ party \notin known
          /\ known \subseteq Everyone(users) /\ Begun(users, all)
          /\ left = <<>> => all = Everyone(users)
          /\ left # <<>> => Left(users, left, all)
      BY <2>3, <2>4, <2>5, <2>6, <2>7, NextTold DEF Telling
    <2>9. PICK n : n = [event |-> r.event, kind |-> r.kind, user |-> party, isRead |-> FALSE]
      OBVIOUS
    <2>10. notices' = notices \cup {n}
      BY <1>6, <2>1, <2>5, <2>9 DEF U!createAndSendNotifications
    <2>11. PICK label, s : /\ Goes(label, s) /\ requests' = requests
                           /\ label = "tell" => left # <<>>
                                /\ s = [event |-> r.event, kind |-> r.kind, users |-> left]
                           /\ label # "tell" => left = <<>>
      <3>1. CASE left = <<>>
        <4>1. Goes("idle", U!NoRun) /\ requests' = requests
          BY <1>3, <1>6, <2>1, <2>3, <2>6, <3>1 DEF U!createAndSendNotifications, U!End
        <4> QED
          BY <3>1, <4>1
      <3>2. CASE left # <<>>
        <4>1. PICK s : s = [r EXCEPT !.users = left]
          OBVIOUS
        <4>2. Goes("tell", s) /\ requests' = requests
          BY <1>3, <1>6, <2>1, <2>3, <2>6, <3>2, <4>1 DEF U!createAndSendNotifications
        <4>3. s = [event |-> r.event, kind |-> r.kind, users |-> left]
          <5>1. PICK a, b, c : r = [event |-> a, kind |-> b, users |-> c]
            BY <2>3 DEF Telling
          <5> QED
            BY <4>1, <5>1
        <4> QED
          BY <3>2, <4>2, <4>3
      <3> QED
        BY <3>1, <3>2
    <2>12. Moves(p, label, s) /\ Frame' /\ UNCHANGED setting /\ requests' \in 0..MaxRequests
      BY <1>2, <2>11
    <2>13. /\ n \in Notice /\ n.event = r.event /\ n.kind = r.kind /\ n.user = party /\ n \notin notices
           /\ \A m \in notices : m.event = r.event => m.user # party
      <3>1. \A m \in notices : m.event = r.event => m.user # party
        BY <2>2, <2>8 DEF ToldOf
      <3> QED
        BY <2>8, <2>9, <3>1 DEF Notice
    <2>14. notices' \subseteq Notice' /\ \A m, o \in notices' :
               m.event = o.event => m.kind = o.kind /\ (m.user = o.user => m = o)
      <3>1. Notice' = Notice
        BY <2>11 DEF Notice
      <3> QED
        BY <2>3, <2>10, <2>13, <3>1 DEF NoticesInv
    <2>15. /\ ToldOf(notices', r.event) = all
           /\ \A e : e # r.event => ToldOf(notices', e) = ToldOf(notices, e)
      BY <2>2, <2>7, <2>10, <2>13 DEF ToldOf
    <2>16. \A q \in Procs \ {p} : /\ pc'[q] = pc[q] /\ run'[q] = run[q]
                                  /\ pc[q] = "tell" => run[q].event # r.event
      BY <2>1, <2>3, <2>12 DEF NoticesInv, Moves
    <2>17. pc'[p] = "tell" => /\ s.event = r.event /\ s.kind = r.kind /\ run'[p] = s
                              /\ Telling(s, all, requests')
      <3>1. pc'[p] = label /\ run'[p] = s
        BY <2>12 DEF Moves
      <3> QED
        BY <2>8, <2>11, <3>1 DEF Telling
    <2>18. \A q \in Procs : pc'[q] = "tell" =>
               /\ Telling(run'[q], ToldOf(notices', run'[q].event), requests')
               /\ \A m \in notices' : m.event = run'[q].event => m.kind = run'[q].kind
      <3>1. ASSUME NEW q \in Procs \ {p}, pc'[q] = "tell"
            PROVE  /\ Telling(run'[q], ToldOf(notices', run'[q].event), requests')
                   /\ \A m \in notices' : m.event = run'[q].event => m.kind = run'[q].kind
        <4>1. PICK m : m = run[q]
          OBVIOUS
        <4>2. /\ Telling(m, ToldOf(notices, m.event), requests) /\ m.event # r.event /\ run'[q] = m
              /\ \A o \in notices : o.event = m.event => o.kind = m.kind
          BY <2>16, <3>1, <4>1 DEF NoticesInv
        <4>3. ToldOf(notices', m.event) = ToldOf(notices, m.event)
          BY <2>15, <4>2
        <4> QED
          BY <2>10, <2>11, <2>13, <4>2, <4>3
      <3> QED
        BY <2>3, <2>10, <2>13, <2>15, <2>17, <3>1
    <2>19. \A q, t \in Procs : pc'[q] = "tell" /\ pc'[t] = "tell" /\ run'[q].event = run'[t].event
             => q = t
      BY <2>16, <2>17 DEF NoticesInv
    <2>20. \A m \in notices' : InOrder(m, ToldOf(notices', m.event), Over(m.event)')
      <3>1. ASSUME NEW m \in notices', m.event = r.event
            PROVE  InOrder(m, all, Over(m.event)')
        <4>1. m.kind = r.kind /\ m.user \in Everyone(users)
          BY <2>2, <2>3, <2>8, <2>10, <2>13, <3>1 DEF ToldOf
        <4>2. Over(m.event)' => left = <<>>
          BY <2>11, <2>12, <2>17, <3>1 DEF Over, Moves
        <4> QED
          BY <2>8, <4>1, <4>2 DEF InOrder
      <3>2. ASSUME NEW m \in notices', m.event # r.event
            PROVE  InOrder(m, ToldOf(notices', m.event), Over(m.event)')
        <4>1. m \in notices
          BY <2>10, <2>13, <3>2
        <4>2. Over(m.event)' => Over(m.event)
          BY <2>1, <2>12, <2>16, <3>2 DEF Over, setting
        <4> QED
          BY <2>15, <3>2, <4>1, <4>2 DEF NoticesInv, InOrder
      <3> QED
        BY <2>15, <3>1, <3>2
    <2> QED
      BY <2>11, <2>12, <2>14, <2>18, <2>19, <2>20 DEF NoticesInv
  <1>7. CASE U!tellingFails(p)
    BY <1>2, <1>3, <1>7, NoticesMove DEF U!tellingFails, U!End
  <1>8. CASE \/ \E notice \in notices : U!markNotificationAsRead(p, notice)
             \/ \E party \in U!Parties : U!markAllNotificationsAsRead(p, party)
    <2>1. PICK label \in {"read", "readAll"} : \E r : U!Request(p, label, r) /\ UNCHANGED notices
      BY <1>8 DEF U!markNotificationAsRead, U!markAllNotificationsAsRead
    <2> QED
      BY <1>2, <1>4, <2>1, NoticesMove
  <1>9. CASE U!update(p)
    <2>1. PICK which : notices' = U!Read(which)
      BY <1>9 DEF U!update
    <2>2. Moves(p, "idle", U!NoRun) /\ Frame' /\ UNCHANGED setting /\ requests' = requests
            /\ pc[p] # "tell"
      BY <1>2, <1>3, <1>9 DEF U!update, U!End
    <2>3. /\ notices' \subseteq Notice'
          /\ \A n, m \in notices' : n.event = m.event => n.kind = m.kind /\ (n.user = m.user => n = m)
          /\ \A e : ToldOf(notices', e) = ToldOf(notices, e)
          /\ \A n \in notices' : \E m \in notices : n.event = m.event /\ n.kind = m.kind
               /\ n.user = m.user
      <3>1. Notice' = Notice
        BY <2>2 DEF Notice
      <3> QED
        BY <2>1, <3>1, NoticesRead
    <2>4. \A q \in Procs : (pc'[q] = "tell" <=> pc[q] = "tell") /\ (pc[q] = "tell" => run'[q] = run[q])
      BY <2>2 DEF Moves
    <2>5. \A e : Over(e)' => Over(e)
      BY <2>2, <2>4 DEF Over, setting
    <2>6. \A q \in Procs : pc'[q] = "tell" =>
              /\ Telling(run'[q], ToldOf(notices', run'[q].event), requests')
              /\ \A m \in notices' : m.event = run'[q].event => m.kind = run'[q].kind
      BY <2>2, <2>3, <2>4 DEF NoticesInv
    <2>7. \A q, t \in Procs : pc'[q] = "tell" /\ pc'[t] = "tell" /\ run'[q].event = run'[t].event
            => q = t
      BY <2>4 DEF NoticesInv
    <2>8. \A n \in notices' : InOrder(n, ToldOf(notices', n.event), Over(n.event)')
      BY <2>3, <2>5 DEF NoticesInv, InOrder
    <2> QED
      BY <2>2, <2>3, <2>6, <2>7, <2>8 DEF NoticesInv
  <1> QED
    BY <1>1, <1>5, <1>6, <1>7, <1>8, <1>9

LEMMA NoticesInit ==
    ASSUME HandlersInit, U!Rest
    PROVE  NoticesInv
  <1>1. Frame /\ \A p \in Procs : pc[p] = "idle"
    BY FrameInit
  <1>2. requests \in 0..MaxRequests
    BY ConstantsAssumption DEF HandlersInit
  <1> QED
    BY <1>1, <1>2 DEF U!Rest, NoticesInv

LEMMA NoticesStand ==
    ASSUME NoticesInv, UNCHANGED <<handlers, notices>>
    PROVE  NoticesInv'
  <1>1. Frame' /\ UNCHANGED <<pc, run, overlap, faulty, requests, notices>>
    BY NothingMoves DEF NoticesInv, handlers, setting
  <1>2. Notice' = Notice /\ \A e : Over(e)' = Over(e)
    BY <1>1 DEF Notice, Over
  <1> QED
    BY <1>1, <1>2 DEF NoticesInv, InOrder

LEMMA NoticesPromises ==
    ASSUME NoticesInv
    PROVE  U!TypeOK /\ U!ToldInOrder
  <1>1. U!TypeOK
    BY ConstantsAssumption DEF NoticesInv, Notice, U!TypeOK
  <1>2. \A e : U!Told(e) = ToldOf(notices, e)
    BY DEF U!Told, ToldOf
  <1>3. U!Idle /\ ~faulty => \A e : Over(e)
    BY DEF Over, U!Idle
  <1>4. ASSUME NEW n \in notices
        PROVE  \E users \in U!Addressees[n.kind] :
                   /\ n.user \in {users[i] : i \in DOMAIN users}
                   /\ \E k \in DOMAIN users : U!Told(n.event) = {users[i] : i \in 1..k}
                   /\ ~faulty /\ U!Idle => U!Told(n.event) = {users[i] : i \in DOMAIN users}
    <2>1. InOrder(n, ToldOf(notices, n.event), Over(n.event))
      BY DEF NoticesInv
    <2> QED
      BY <1>2, <1>3, <2>1 DEF InOrder, Everyone, Begun
  <1>5. U!ToldInOrder
    BY <1>4 DEF NoticesInv, U!ToldInOrder
  <1> QED
    BY <1>1, <1>5
-----------------------------------------------------------------------------
(* Notifications.                                                          *)

Creating == {"preferences", "processing", "queue", "unprocessed"}
Attempting == {"log", "send", "mark", "sent", "findLog", "failed"}

Attempt == [channel : N!Channels, device : {1, 2}, ok : BOOLEAN]
ChannelJob == [state : {"none", "waiting", "active", "completed", "failed"},
               made : 0..maxRetries, stalled : BOOLEAN]
ChannelLogs == [N!DeliveryStatus -> Nat]

(* The logs an attempt may have kept by now, of the two devices.           *)
Room(label, device) ==
    CASE label = "log" -> device - 1
      [] label \in {"send", "mark"} -> device
      [] OTHER -> 2

(* A channel keeps a log for each device and attempt: those that failed,   *)
(* one that was handed out once more, and what the last has room for.      *)
Fits(j, l, room) ==
    /\ j \in ChannelJob /\ l \in ChannelLogs
    /\ j.state # "failed" => j.made < maxRetries
    /\ l["pending"] + l["sent"] + l["failed"] <= 2 * (j.made + (IF j.stalled THEN 1 ELSE 0)) + room

Resting(j, l) == j.state # "active" /\ Fits(j, l, IF j.state \in {"none", "waiting"} THEN 0 ELSE 2)

Sending(j, l, label, r) ==
    /\ r \in Attempt
    /\ j.state = "active" /\ Fits(j, l, Room(label, r.device))
    /\ label \in {"log", "mark"} => r.channel # "in-app"
    /\ label \in {"send", "mark"} /\ r.channel # "in-app" => l["pending"] > 0

(* Where no call fails the status is that of the last job to end.          *)
Story(s, js) ==
    /\ s = "sent" => \E c \in N!Channels : js[c].state = "completed"
    /\ s = "failed" => \E c \in N!Channels : js[c].state \in {"waiting", "active", "failed"}
    /\ (\E c \in N!Channels : js[c].state \in {"completed", "failed"}) => s \in {"sent", "failed"}

NoJobs == \A c \in N!Channels : jobs[c].state = "none"

NotificationsInv ==
    /\ Frame
    /\ status \in N!NotificationStatus \cup {"absent"}
    /\ jobs \in [N!Channels -> ChannelJob] /\ logs \in [N!Channels -> ChannelLogs]
    /\ \A p \in Procs : pc[p] \in {"idle"} \cup Creating \cup Attempting
    /\ \A p, q \in Procs : pc[p] \in Creating /\ pc[q] \in Creating => p = q
    /\ status = "absent" => NoJobs /\ \A p \in Procs : pc[p] \notin Creating
    /\ \A p \in Procs : pc[p] \in Creating =>
           /\ run[p] \in [todo : SUBSET N!Channels]
           /\ pc[p] \in {"preferences", "processing"} => NoJobs
           /\ pc[p] = "queue" => \A c \in run[p].todo : jobs[c].state = "none"
           /\ pc[p] = "unprocessed" => faulty
    /\ \A c \in N!Channels : Resting(jobs[c], logs[c])
         \/ \E p \in Procs : pc[p] \in Attempting /\ run[p].channel = c
    /\ \A p \in Procs : pc[p] \in Attempting
         => Sending(jobs[run[p].channel], logs[run[p].channel], pc[p], run[p])
    /\ \A p, q \in Procs : pc[p] \in Attempting /\ pc[q] \in Attempting
         /\ run[p].channel = run[q].channel => p = q
    /\ ~faulty => Story(status, jobs)

(* What becomes of one channel, by a handler that took its job.            *)
LEMMA ChannelMoves ==
    ASSUME NotificationsInv, NEW p \in Procs, NEW label, NEW r, Moves(p, label, r),
           Frame',
           NEW c \in N!Channels, NEW j, NEW l,
           \/ pc[p] \in Attempting /\ run[p].channel = c
           \/ pc[p] = "idle" /\ jobs[c].state = "waiting",
           label \in Attempting \cup {"idle"},
           label = "idle" => Resting(j, l),
           label # "idle" => r.channel = c /\ Sending(j, l, label, r),
           jobs' = [jobs EXCEPT ![c] = j], logs' = [logs EXCEPT ![c] = l],
           j.state # "none",
           status' \in N!NotificationStatus \cup {"absent"}, status' = "absent" => status = "absent",
           ~faulty => Story(status', jobs')
    PROVE  NotificationsInv'
  <1>1. jobs[c].state # "none" /\ pc[p] \notin Creating
    BY DEF NotificationsInv, Sending, Creating, Attempting
  <1>2. j \in ChannelJob /\ l \in ChannelLogs
    BY DEF Resting, Sending, Fits, Attempting
  <1>3. /\ jobs' \in [N!Channels -> ChannelJob] /\ logs' \in [N!Channels -> ChannelLogs]
        /\ jobs'[c] = j /\ logs'[c] = l
        /\ \A d \in N!Channels \ {c} : jobs'[d] = jobs[d] /\ logs'[d] = logs[d]
    BY <1>2 DEF NotificationsInv
  <1>4. \A q \in Procs \ {p} : pc[q] \in Attempting
          => run[q].channel # c /\ run[q].channel \in N!Channels
    BY DEF NotificationsInv, Sending, Resting, Attempt
  <1>5. pc'[p] = label /\ run'[p] = r /\ faulty' = faulty /\ \A q \in Procs \ {p} : pc'[q] = pc[q]
          /\ run'[q] = run[q]
    BY DEF Moves, setting
  <1>6. label \notin Creating /\ ("idle" \notin Attempting)
    BY DEF Creating, Attempting
  <1>7. ~NoJobs /\ status # "absent"
    BY <1>1 DEF NoJobs, NotificationsInv
  <1>8. \A q \in Procs : pc'[q] \in {"idle"} \cup Creating \cup Attempting
    BY <1>5 DEF NotificationsInv
  <1>9. \A q, s \in Procs : pc'[q] \in Creating /\ pc'[s] \in Creating => q = s
    BY <1>5, <1>6 DEF NotificationsInv
  <1>10. \A q \in Procs : pc'[q] \in Creating =>
           /\ run'[q] \in [todo : SUBSET N!Channels]
           /\ pc'[q] \in {"preferences", "processing"} => NoJobs'
           /\ pc'[q] = "queue" => \A d \in run'[q].todo : jobs'[d].state = "none"
           /\ pc'[q] = "unprocessed" => faulty'
    <2>1. ASSUME NEW q \in Procs, pc'[q] \in Creating
          PROVE  /\ q # p /\ pc'[q] = pc[q] /\ run'[q] = run[q] /\ run[q] \in [todo : SUBSET N!Channels]
                 /\ pc[q] \notin {"preferences", "processing"}
                 /\ pc[q] = "unprocessed" => faulty
                 /\ pc[q] = "queue" => \A d \in run[q].todo : jobs[d].state = "none"
      BY <1>5, <1>6, <1>7, <2>1 DEF NotificationsInv
    <2> QED
      BY <1>1, <1>3, <1>5, <2>1
  <1>11. \A d \in N!Channels : \/ Resting(jobs'[d], logs'[d])
                               \/ \E q \in Procs : pc'[q] \in Attempting /\ run'[q].channel = d
    <2>1. ASSUME NEW d \in N!Channels \ {c}
          PROVE  \/ Resting(jobs'[d], logs'[d])
                 \/ \E q \in Procs : pc'[q] \in Attempting /\ run'[q].channel = d
      <3>1. CASE Resting(jobs[d], logs[d])
        BY <1>3, <3>1
      <3>2. CASE \E q \in Procs : pc[q] \in Attempting /\ run[q].channel = d
        BY <1>1, <1>5, <1>6, <3>2
      <3> QED
        BY <3>1, <3>2 DEF NotificationsInv
    <2>2. Resting(jobs'[c], logs'[c]) \/ (pc'[p] \in Attempting /\ run'[p].channel = c)
      BY <1>3, <1>5
    <2> QED
      BY <2>1, <2>2
  <1>12. \A q \in Procs : pc'[q] \in Attempting =>
             Sending(jobs'[run'[q].channel], logs'[run'[q].channel], pc'[q], run'[q])
    <2>1. ASSUME NEW q \in Procs \ {p}, pc'[q] \in Attempting
          PROVE  Sending(jobs'[run'[q].channel], logs'[run'[q].channel], pc'[q], run'[q])
      <3>1. Sending(jobs[run[q].channel], logs[run[q].channel], pc[q], run[q])
        BY <1>5, <2>1 DEF NotificationsInv
      <3>2. run[q].channel \in N!Channels \ {c} /\ pc'[q] = pc[q] /\ run'[q] = run[q]
        BY <1>4, <1>5, <2>1
      <3> QED
        BY <1>3, <3>1, <3>2
    <2> QED
      BY <1>3, <1>5, <1>6, <2>1
  <1>13. \A q, s \in Procs : pc'[q] \in Attempting /\ pc'[s] \in Attempting
           /\ run'[q].channel = run'[s].channel
                             => q = s
    BY <1>4, <1>5, <1>6 DEF NotificationsInv
  <1> QED
    BY <1>3, <1>5, <1>7, <1>8, <1>9, <1>10, <1>11, <1>12, <1>13 DEF NotificationsInv

(* What the request that creates the notification does.                    *)
LEMMA CreationMoves ==
    ASSUME NotificationsInv, NEW p \in Procs, NEW label, NEW r, Moves(p, label, r),
           Frame',
           pc[p] \in Creating \/ (pc[p] = "idle" /\ status = "absent"),
           label \in Creating \cup {"idle"},
           status' \in N!NotificationStatus,
           jobs' \in [N!Channels -> ChannelJob], UNCHANGED logs,
           \A c \in N!Channels : jobs'[c] = jobs[c]
             \/ (jobs[c].state = "none" /\ jobs'[c] = [jobs[c] EXCEPT !.state = "waiting"]),
           label \in Creating => /\ r \in [todo : SUBSET N!Channels]
                                 /\ label \in {"preferences", "processing"} => NoJobs'
                                 /\ label = "queue" => \A c \in r.todo : jobs'[c].state = "none"
                                 /\ label = "unprocessed" => faulty,
           ~faulty => Story(status', jobs')
    PROVE  NotificationsInv'
  <1>1. pc'[p] = label /\ run'[p] = r /\ faulty' = faulty /\ \A q \in Procs \ {p} : pc'[q] = pc[q]
          /\ run'[q] = run[q]
    BY DEF Moves, setting
  <1>2. Creating \cap Attempting = {} /\ "idle" \notin Creating \cup Attempting
    BY DEF Creating, Attempting
  <1>3. \A q \in Procs \ {p} : pc[q] \notin Creating
    BY DEF NotificationsInv
  <1>4. \A q \in Procs : pc'[q] \in {"idle"} \cup Creating \cup Attempting
    BY <1>1 DEF NotificationsInv
  <1>5. \A q, s \in Procs : pc'[q] \in Creating /\ pc'[s] \in Creating => q = s
    BY <1>1, <1>3
  <1>6. \A q \in Procs : pc'[q] \in Creating =>
           /\ run'[q] \in [todo : SUBSET N!Channels]
           /\ pc'[q] \in {"preferences", "processing"} => NoJobs'
           /\ pc'[q] = "queue" => \A c \in run'[q].todo : jobs'[c].state = "none"
           /\ pc'[q] = "unprocessed" => faulty'
    BY <1>1, <1>3
  <1>7. \A q \in Procs : pc'[q] \in Attempting
          => pc[q] \in Attempting /\ q # p /\ pc'[q] = pc[q] /\ run'[q] = run[q]
    BY <1>1, <1>2
  <1>8. \A q \in Procs : pc[q] \in Attempting => q # p /\ pc'[q] = pc[q] /\ run'[q] = run[q]
    BY <1>1, <1>2
  <1>9. \A c \in N!Channels : Resting(jobs[c], logs[c]) => Resting(jobs'[c], logs'[c])
    BY DEF NotificationsInv, Resting, Fits, ChannelJob
  <1>10. \A c \in N!Channels : \/ Resting(jobs'[c], logs'[c])
                               \/ \E q \in Procs : pc'[q] \in Attempting /\ run'[q].channel = c
    BY <1>8, <1>9 DEF NotificationsInv
  <1>11. \A q \in Procs : pc'[q] \in Attempting =>
             Sending(jobs'[run'[q].channel], logs'[run'[q].channel], pc'[q], run'[q])
    <2>1. ASSUME NEW q \in Procs, pc'[q] \in Attempting
          PROVE  Sending(jobs'[run'[q].channel], logs'[run'[q].channel], pc'[q], run'[q])
      <3>1. Sending(jobs[run[q].channel], logs[run[q].channel], pc[q], run[q]) /\ pc'[q] = pc[q]
              /\ run'[q] = run[q]
        BY <1>7, <2>1 DEF NotificationsInv
      <3>2. run[q].channel \in N!Channels /\ jobs[run[q].channel].state = "active"
        BY <3>1 DEF Sending, Attempt
      <3>3. jobs'[run[q].channel] = jobs[run[q].channel]
        BY <3>2
      <3> QED
        BY <3>1, <3>3
    <2> QED
      BY <2>1
  <1>12. \A q, s \in Procs : pc'[q] \in Attempting /\ pc'[s] \in Attempting
           /\ run'[q].channel = run'[s].channel
                             => q = s
    BY <1>7 DEF NotificationsInv
  <1>13. status' # "absent"
    BY DEF N!NotificationStatus
  <1> QED
    BY <1>1, <1>4, <1>5, <1>6, <1>10, <1>11, <1>12, <1>13 DEF NotificationsInv

LEMMA CreationStep ==
    ASSUME NotificationsInv, NEW p \in Procs,
           \/ \E channels \in Requested : N!createNotification(p, channels)
           \/ \E enabled \in SUBSET N!Channels : N!getUserPreferences(p, enabled)
           \/ N!markProcessing(p)
           \/ N!queueNotification(p)
           \/ N!processingFails(p)
           \/ N!markUnprocessed(p)
           \/ pc[p] \in Creating /\ N!crash(p)
    PROVE  NotificationsInv'
  <1> DEFINE Goes(label, r) == /\ pc' = [pc EXCEPT ![p] = label] /\ run' = [run EXCEPT ![p] = r]
                               /\ UNCHANGED setting
                               /\ overlap \/ Idle \/ pc[p] # "idle" \/ label = "idle"
  <1>1. \A label, r : Goes(label, r) => Moves(p, label, r) /\ Frame'
    BY MovesFrame DEF NotificationsInv
  <1>2. \A label, r : \/ N!GotoWith(p, label, r) /\ pc[p] # "idle"
                      \/ N!Goto(p, label) /\ r = run[p] /\ pc[p] # "idle"
                      \/ N!Request(p, label, r)
                      => Goes(label, r)
    <2>1. run = [run EXCEPT ![p] = run[p]]
      BY DEF NotificationsInv, Frame
    <2> QED
      BY <2>1
      DEF N!GotoWith, N!Goto, N!Request, N!MayStart, N!Idle, Idle, N!setting,
          setting
  <1> HIDE DEF Goes
  <1>3. pc[p] \in Creating => /\ status \in N!NotificationStatus /\ pc[p] # "idle"
                              /\ run[p] \in [todo : SUBSET N!Channels]
                              /\ pc[p] \in {"preferences", "processing"} => NoJobs
                              /\ pc[p] = "queue" => \A c \in run[p].todo : jobs[c].state = "none"
    BY DEF NotificationsInv, Creating
  <1>4. NoJobs => \A s : s \notin {"sent", "failed"} => Story(s, jobs)
    BY DEF NoJobs, Story
  <1>5. ~faulty => Story(status, jobs)
    BY DEF NotificationsInv
  <1>6. ASSUME NEW label, NEW r, Goes(label, r), UNCHANGED <<jobs, logs>>,
               pc[p] \in Creating \/ (pc[p] = "idle" /\ status = "absent"),
               label \in Creating \cup {"idle"}, status' \in N!NotificationStatus,
               label \in Creating => /\ r \in [todo : SUBSET N!Channels]
                                     /\ label \in {"preferences", "processing"} => NoJobs
                                     /\ label = "queue" => \A c \in r.todo : jobs[c].state = "none"
                                     /\ label = "unprocessed" => faulty,
               ~faulty => Story(status', jobs)
        PROVE  NotificationsInv'
    <2>1. Moves(p, label, r) /\ Frame' /\ jobs' \in [N!Channels -> ChannelJob] /\ (NoJobs => NoJobs')
      BY <1>1, <1>6 DEF NotificationsInv, NoJobs
    <2> QED
      BY <1>6, <2>1, CreationMoves
  <1>7. ASSUME NEW channels \in Requested, N!createNotification(p, channels)
        PROVE  NotificationsInv'
    <2>1. PICK r : r = [todo |-> channels]
      OBVIOUS
    <2>2. /\ Goes("preferences", r) /\ pc[p] = "idle" /\ status = "absent" /\ status' = "pending"
          /\ UNCHANGED <<jobs, logs>>
      BY <1>2, <1>7, <2>1 DEF N!createNotification, N!Request, N!MayStart
    <2>3. r \in [todo : SUBSET N!Channels] /\ NoJobs
      BY <2>1, <2>2 DEF N!Channels, NotificationsInv
    <2> QED
      BY <1>4, <1>6, <2>2, <2>3 DEF Creating, N!NotificationStatus
  <1>8. ASSUME NEW enabled \in SUBSET N!Channels, N!getUserPreferences(p, enabled)
        PROVE  NotificationsInv'
    <2>1. PICK r : r = [todo |-> enabled]
      OBVIOUS
    <2>2. /\ Goes("processing", r) /\ pc[p] = "preferences" /\ UNCHANGED <<status, jobs, logs>>
          /\ pc[p] \in Creating
      BY <1>2, <1>8, <2>1 DEF N!getUserPreferences, Creating
    <2>3. r \in [todo : SUBSET N!Channels] /\ NoJobs
      BY <1>3, <2>1, <2>2
    <2> QED
      BY <1>3, <1>5, <1>6, <2>2, <2>3 DEF Creating
  <1>9. CASE N!markProcessing(p)
    <2>1. /\ Goes("queue", run[p]) /\ pc[p] = "processing" /\ status' = "processing"
               /\ UNCHANGED <<jobs, logs>>
          /\ pc[p] \in Creating
      BY <1>2, <1>9 DEF N!markProcessing, N!updateNotificationStatus, Creating
    <2>2. \A c \in run[p].todo : jobs[c].state = "none"
      BY <1>3, <2>1 DEF NoJobs
    <2> QED
      BY <1>3, <1>4, <1>6, <2>1, <2>2 DEF Creating, N!NotificationStatus
  <1>10. CASE N!queueNotification(p)
    <2>1. pc[p] = "queue" /\ pc[p] \in Creating /\ UNCHANGED <<status, logs>>
      BY <1>10 DEF N!queueNotification, Creating
    <2>2. CASE run[p].todo = {}
      <3>1. Goes("idle", N!NoRun) /\ UNCHANGED jobs
        BY <1>2, <1>10, <2>1, <2>2 DEF N!queueNotification, N!End
      <3> QED
        BY <1>3, <1>5, <1>6, <2>1, <3>1 DEF Creating
    <2>3. CASE run[p].todo # {}
      <3>1. PICK c \in run[p].todo : /\ jobs' = [jobs EXCEPT ![c].state = "waiting"]
                                     /\ N!GotoWith(p, "queue", [todo |-> run[p].todo \ {c}])
        BY <1>10, <2>3 DEF N!queueNotification
      <3>2. PICK r : r = [todo |-> run[p].todo \ {c}]
        OBVIOUS
      <3>3. Moves(p, "queue", r) /\ Frame'
        BY <1>1, <1>2, <2>1, <3>1, <3>2 DEF Creating
      <3>4. c \in N!Channels /\ jobs[c].state = "none" /\ r \in [todo : SUBSET N!Channels]
        BY <1>3, <2>1, <3>2
      <3>5. /\ jobs' \in [N!Channels -> ChannelJob] /\ jobs'[c] = [jobs[c] EXCEPT !.state = "waiting"]
            /\ jobs'[c].state = "waiting"
            /\ \A d \in N!Channels \ {c} : jobs'[d] = jobs[d]
        BY <3>1, <3>4 DEF NotificationsInv, ChannelJob
      <3>6. \A d \in r.todo : jobs'[d].state = "none"
        BY <1>3, <2>1, <3>2, <3>4, <3>5
      <3>7. ~faulty => Story(status', jobs')
        BY <1>5, <2>1, <3>4, <3>5 DEF Story
      <3>8. \A d \in N!Channels :
                jobs'[d] = jobs[d] \/ (jobs[d].state = "none"
                  /\ jobs'[d] = [jobs[d] EXCEPT !.state = "waiting"])
        BY <3>4, <3>5
      <3>9. status' \in N!NotificationStatus
        BY <1>3, <2>1
      <3> QED
        BY <2>1, <3>3, <3>4, <3>5, <3>6, <3>7, <3>8, <3>9, CreationMoves DEF Creating
    <2> QED
      BY <2>2, <2>3
  <1>11. CASE N!processingFails(p)
    <2>1. /\ Goes("unprocessed", run[p]) /\ faulty /\ pc[p] \in Creating
               /\ UNCHANGED <<status, jobs, logs>>
      BY <1>2, <1>11 DEF N!processingFails, Creating
    <2> QED
      BY <1>3, <1>6, <2>1 DEF Creating
  <1>12. CASE N!markUnprocessed(p)
    <2>1. /\ Goes("idle", N!NoRun) /\ pc[p] = "unprocessed" /\ pc[p] \in Creating
               /\ UNCHANGED <<jobs, logs>>
          /\ status' \in {"failed", status}
      BY <1>2, <1>12 DEF N!markUnprocessed, N!updateNotificationStatus, N!End, Creating
    <2>2. faulty /\ status' \in N!NotificationStatus
      BY <1>3, <2>1 DEF NotificationsInv, N!NotificationStatus
    <2> QED
      BY <1>6, <2>1, <2>2 DEF Creating
  <1>13. CASE pc[p] \in Creating /\ N!crash(p)
    <2>1. Goes("idle", N!NoRun) /\ faulty /\ UNCHANGED <<status, logs>>
      BY <1>2, <1>13 DEF N!crash, N!End
    <2>2. UNCHANGED jobs
      <3>1. "channel" \notin DOMAIN run[p]
        BY <1>3, <1>13
      <3> QED
        BY <1>13, <3>1 DEF N!crash
    <2> QED
      BY <1>3, <1>6, <1>13, <2>1, <2>2 DEF Creating
  <1> QED
    BY <1>7, <1>8, <1>9, <1>10, <1>11, <1>12, <1>13

LEMMA ChannelTaken ==
    ASSUME NotificationsInv, NEW p \in Procs, NEW c \in N!Channels, N!process(p, c)
    PROVE  NotificationsInv'
  <1>1. PICK label : label = IF c = "in-app" THEN "send" ELSE "log"
    OBVIOUS
  <1>2. PICK r : r = [channel |-> c, device |-> 1, ok |-> TRUE]
    OBVIOUS
  <1>3. PICK j : j = [jobs[c] EXCEPT !.state = "active"]
    OBVIOUS
  <1>4. /\ pc' = [pc EXCEPT ![p] = label] /\ run' = [run EXCEPT ![p] = r] /\ UNCHANGED setting
        /\ UNCHANGED <<status, logs>>
    BY <1>1, <1>2 DEF N!process, N!GotoWith, N!setting, setting, N!Idle, Idle
  <1>5. pc[p] = "idle" /\ jobs[c].state = "waiting" /\ (overlap \/ Idle)
    BY DEF N!process, N!Idle, Idle
  <1>6. Moves(p, label, r) /\ Frame'
    BY <1>4, <1>5, MovesFrame DEF NotificationsInv
  <1>7. Resting(jobs[c], logs[c])
    BY <1>5 DEF NotificationsInv, Sending
  <1>8. Sending(j, logs[c], label, r) /\ j.state = "active" /\ r.channel = c
    <2>1. /\ jobs[c] \in ChannelJob /\ Fits(jobs[c], logs[c], 0)
      BY <1>5, <1>7 DEF Resting, Fits
    <2>2. j \in ChannelJob /\ j.state = "active" /\ j.made = jobs[c].made /\ j.stalled = jobs[c].stalled
      BY <1>3, <2>1 DEF ChannelJob
    <2>3. r \in Attempt /\ r.device = 1 /\ r.channel = c
      BY <1>2 DEF Attempt
    <2>4. Room(label, 1) \in {0, 1}
      BY <1>1 DEF Room
    <2>5. Fits(j, logs[c], Room(label, 1))
      <3>1. /\ jobs[c].made \in Nat /\ jobs[c].stalled \in BOOLEAN /\ logs[c] \in ChannelLogs
            /\ logs[c]["pending"] \in Nat /\ logs[c]["sent"] \in Nat /\ logs[c]["failed"] \in Nat
        BY <2>1 DEF Fits, ChannelJob, ChannelLogs, N!DeliveryStatus
      <3> QED
        BY <1>5, <2>1, <2>2, <2>4, <3>1 DEF Fits
    <2> QED
      BY <1>1, <2>2, <2>3, <2>5 DEF Sending
  <1>9. jobs' = [jobs EXCEPT ![c] = j] /\ logs' = [logs EXCEPT ![c] = logs[c]]
    BY <1>3, <1>4 DEF N!process, NotificationsInv
  <1>10. ~faulty => Story(status', jobs')
    <2>1. jobs'[c].state = "active" /\ \A d \in N!Channels \ {c} : jobs'[d] = jobs[d]
      BY <1>8, <1>9 DEF NotificationsInv
    <2> QED
      BY <1>4, <1>5, <2>1 DEF NotificationsInv, Story
  <1>11. label \in Attempting
    BY <1>1 DEF Attempting
  <1>12. status' = status /\ status' \in N!NotificationStatus \cup {"absent"} /\ label # "idle"
    BY <1>1, <1>4 DEF NotificationsInv
  <1> QED
    BY <1>5, <1>6, <1>8, <1>9, <1>10, <1>11, <1>12, ChannelMoves

LEMMA AttemptStep ==
    ASSUME NotificationsInv, NEW p \in Procs,
           \/ N!saveLog(p)
           \/ \E accepted \in BOOLEAN : N!send(p, accepted)
           \/ N!markLog(p)
           \/ N!markSent(p)
           \/ N!findLog(p)
           \/ N!markFailed(p)
           \/ N!jobFails(p)
           \/ pc[p] \in Attempting /\ N!crash(p)
    PROVE  NotificationsInv'
  <1> DEFINE Goes(label, r) == /\ pc' = [pc EXCEPT ![p] = label] /\ run' = [run EXCEPT ![p] = r]
                               /\ UNCHANGED setting
  <1>1. pc[p] \in Attempting
    BY
    DEF N!saveLog, N!send, N!markLog, N!markSent, N!findLog, N!markFailed,
        N!jobFails, Attempting
  <1>2. pc[p] # "idle"
    BY <1>1 DEF Attempting
  <1>3. \A label, r : Goes(label, r) => Moves(p, label, r) /\ Frame'
    BY <1>2, MovesFrame DEF NotificationsInv
  <1>4. \A label, r : N!GotoWith(p, label, r) \/ (N!Goto(p, label) /\ r = run[p]) => Goes(label, r)
    <2>1. run = [run EXCEPT ![p] = run[p]]
      BY DEF NotificationsInv, Frame
    <2> QED
      BY <2>1 DEF N!GotoWith, N!Goto, N!setting, setting
  <1> HIDE DEF Goes
  <1>5. PICK c : c = run[p].channel
    OBVIOUS
  <1>6. PICK j : j = jobs[c]
    OBVIOUS
  <1>7. PICK l : l = logs[c]
    OBVIOUS
  <1>8. PICK at : at = run[p]
    OBVIOUS
  <1>9. /\ c \in N!Channels /\ at \in Attempt /\ at.channel = c
        /\ j.state = "active" /\ j \in ChannelJob /\ l \in ChannelLogs /\ j.made < maxRetries
        /\ l["pending"] + l["sent"] + l["failed"]
               <= 2 * (j.made + (IF j.stalled THEN 1 ELSE 0)) + Room(pc[p], at.device)
        /\ pc[p] \in {"log", "mark"} => c # "in-app"
        /\ pc[p] \in {"send", "mark"} /\ c # "in-app" => l["pending"] > 0
    BY <1>1, <1>5, <1>6, <1>7, <1>8 DEF NotificationsInv, Sending, Fits, Attempt
  <1>10. /\ at.device \in {1, 2} /\ j.made \in Nat /\ j.stalled \in BOOLEAN /\ maxRetries \in Nat
         /\ l["pending"] \in Nat /\ l["sent"] \in Nat /\ l["failed"] \in Nat
    BY <1>9, ConstantsAssumption DEF Attempt, ChannelJob, ChannelLogs, N!DeliveryStatus
  <1>11. /\ jobs = [jobs EXCEPT ![c] = j] /\ logs = [logs EXCEPT ![c] = l]
         /\ N!Channel(p) = c
    BY <1>5, <1>6, <1>7, <1>9 DEF NotificationsInv, N!Channel
  <1>12. ~faulty => Story(status, jobs)
    BY DEF NotificationsInv
  (* The attempt goes on.                                                  *)
  <1>13. ASSUME NEW label \in Attempting, NEW r \in Attempt, NEW m \in ChannelLogs,
                Goes(label, r), r.channel = c,
                UNCHANGED <<status, jobs>>, logs' = [logs EXCEPT ![c] = m],
                m["pending"] + m["sent"] + m["failed"]
                    <= 2 * (j.made + (IF j.stalled THEN 1 ELSE 0)) + Room(label, r.device),
                label \in {"log", "mark"} => c # "in-app",
                label \in {"send", "mark"} /\ c # "in-app" => m["pending"] > 0
         PROVE  NotificationsInv'
    <2>1. Sending(j, m, label, r)
      BY <1>9, <1>13 DEF Sending, Fits
    <2>2. Moves(p, label, r) /\ Frame'
      BY <1>3, <1>13
    <2>3. status' \in N!NotificationStatus \cup {"absent"} /\ label # "idle" /\ j.state # "none"
      BY <1>9, <1>13 DEF NotificationsInv, Attempting
    <2>4. jobs' = [jobs EXCEPT ![c] = j] /\ (~faulty => Story(status', jobs')) /\ status' = status
      BY <1>11, <1>12, <1>13
    <2> QED
      BY <1>1, <1>5, <1>9, <1>13, <2>1, <2>2, <2>3, <2>4, ChannelMoves
  (* The attempt ends.                                                     *)
  <1>14. ASSUME NEW k \in ChannelJob, Goes("idle", N!NoRun),
                jobs' = [jobs EXCEPT ![c] = k], UNCHANGED logs,
                k.state \in {"waiting", "completed", "failed"}, k.state # "failed"
                  => k.made < maxRetries,
                l["pending"] + l["sent"] + l["failed"]
                    <= 2 * (k.made + (IF k.stalled THEN 1 ELSE 0)) + (IF k.state = "waiting" THEN 0
                      ELSE 2),
                \/ faulty /\ status' = status
                \/ status' = "sent" /\ k.state = "completed"
                \/ status' = "failed" /\ k.state # "completed"
         PROVE  NotificationsInv'
    <2>1. Resting(k, l)
      BY <1>9, <1>14 DEF Resting, Fits
    <2>2. Moves(p, "idle", N!NoRun) /\ Frame'
      BY <1>3, <1>14
    <2>3. status' \in N!NotificationStatus \cup {"absent"} /\ (status' = "absent" => status = "absent")
      BY <1>14 DEF NotificationsInv, N!NotificationStatus
    <2>4. ~faulty => Story(status', jobs')
      <3>1. jobs'[c] = k /\ c \in N!Channels
        BY <1>9, <1>14 DEF NotificationsInv
      <3> QED
        BY <1>14, <3>1 DEF Story
    <2>5. logs' = [logs EXCEPT ![c] = l] /\ jobs' = [jobs EXCEPT ![c] = k] /\ k.state # "none"
      BY <1>11, <1>14
    <2>6. c \in N!Channels /\ pc[p] \in Attempting /\ run[p].channel = c
      BY <1>1, <1>5, <1>9
    <2> QED
      BY <2>1, <2>2, <2>3, <2>4, <2>5, <2>6, ChannelMoves
  <1>15. CASE N!saveLog(p)
    <2>1. PICK m : m = [l EXCEPT !["pending"] = @ + 1]
      OBVIOUS
    <2>2. Goes("send", at) /\ pc[p] = "log" /\ UNCHANGED <<status, jobs>>
      BY <1>4, <1>8, <1>15 DEF N!saveLog
    <2>3. logs' = [logs EXCEPT ![c] = m]
      BY <1>7, <1>11, <1>15, <2>1 DEF N!saveLog
    <2>4. /\ m \in ChannelLogs /\ m["pending"] = l["pending"] + 1 /\ m["sent"] = l["sent"]
               /\ m["failed"] = l["failed"]
      BY <1>9, <1>10, <2>1 DEF ChannelLogs, N!DeliveryStatus
    <2>5. Room("send", at.device) = Room("log", at.device) + 1 /\ Room("log", at.device) \in {0, 1}
      BY <1>10 DEF Room
    <2>6. m["pending"] + m["sent"] + m["failed"]
              <= 2 * (j.made + (IF j.stalled THEN 1 ELSE 0)) + Room("send", at.device)
      BY <1>9, <1>10, <2>2, <2>4, <2>5
    <2>7. c # "in-app" /\ m["pending"] > 0
      BY <1>9, <1>10, <2>2, <2>4
    <2> QED
      BY <1>9, <1>13, <2>2, <2>3, <2>4, <2>6, <2>7 DEF Attempting
  <1>16. ASSUME NEW accepted \in BOOLEAN, N!send(p, accepted)
         PROVE  NotificationsInv'
    <2>1. pc[p] = "send" /\ UNCHANGED <<status, jobs, logs>>
      BY <1>16 DEF N!send
    <2>2. PICK r : r = [at EXCEPT !.ok = accepted]
      OBVIOUS
    <2>3. r \in Attempt /\ r.channel = c /\ r.device = at.device
      BY <1>9, <2>2 DEF Attempt
    <2>4. \/ Goes("failed", at) \/ Goes("findLog", at) \/ Goes("sent", at)
          \/ Goes("mark", r) /\ c # "in-app"
      <3>1. \/ N!Goto(p, "failed") \/ N!Goto(p, "findLog") \/ N!Goto(p, "sent")
            \/ N!GotoWith(p, "mark", r) /\ c # "in-app"
        BY <1>8, <1>11, <1>16, <2>2 DEF N!send
      <3> QED
        BY <1>4, <1>8, <3>1
    <2>5. /\ Room("send", at.device) <= 2 /\ Room("mark", at.device) = Room("send", at.device)
          /\ \A label \in {"failed", "findLog", "sent"} : Room(label, at.device) = 2
          /\ Room("send", at.device) \in Nat
      BY <1>10 DEF Room
    <2>6. ASSUME NEW label \in {"failed", "findLog", "sent"}, Goes(label, at)
          PROVE  NotificationsInv'
      BY <1>9, <1>10, <1>11, <1>13, <2>1, <2>5, <2>6 DEF Attempting
    <2>7. ASSUME Goes("mark", r), c # "in-app"
          PROVE  NotificationsInv'
      BY <1>9, <1>10, <1>11, <1>13, <2>1, <2>3, <2>5, <2>7 DEF Attempting
    <2> QED
      BY <2>4, <2>6, <2>7
  <1>17. CASE N!markLog(p)
    <2>1. pc[p] = "mark" /\ UNCHANGED <<status, jobs>>
      BY <1>17 DEF N!markLog
    <2>2. PICK to : to = IF at.ok THEN "sent" ELSE "failed"
      OBVIOUS
    <2>3. PICK m : m = [l EXCEPT !["pending"] = @ - 1, ![to] = @ + 1]
      OBVIOUS
    <2>4. logs' = [logs EXCEPT ![c] = m] /\ to \in {"sent", "failed"}
      <3>1. N!updateLog(p, "pending", to) /\ to \in {"sent", "failed"}
        BY <1>8, <1>17, <2>2 DEF N!markLog
      <3>2. logs' = [logs EXCEPT ![c] = N!Moved(l, "pending", to)]
        BY <1>7, <1>11, <3>1 DEF N!updateLog
      <3>3. m = N!Moved(l, "pending", to)
        BY <2>3, <3>1 DEF N!Moved
      <3> QED
        BY <3>1, <3>2, <3>3
    <2>5. /\ m \in ChannelLogs
          /\ m["pending"] + m["sent"] + m["failed"] = l["pending"] + l["sent"] + l["failed"]
      <3>1. l["pending"] > 0
        BY <1>9, <2>1
      <3> QED
        BY <1>9, <1>10, <2>3, <2>4, <3>1 DEF ChannelLogs, N!DeliveryStatus
    <2>6. PICK r : r = [at EXCEPT !.device = @ + 1]
      OBVIOUS
    <2>7. \/ Goes("log", r) /\ at.device < 2
          \/ Goes("sent", at)
      <3>1. \/ N!GotoWith(p, "log", r) /\ at.device < 2
            \/ N!Goto(p, "sent")
        BY <1>8, <1>17, <2>6 DEF N!markLog, N!NextSend, N!MoreDevices, N!Devices
      <3> QED
        BY <1>4, <1>8, <3>1
    <2>8. /\ Room("mark", at.device) = at.device /\ Room("sent", at.device) = 2
          /\ at.device < 2 => r \in Attempt /\ r.channel = c /\ Room("log", r.device) = at.device
      BY <1>9, <1>10, <2>6 DEF Room, Attempt
    <2>9. CASE Goes("log", r) /\ at.device < 2
      BY <1>9, <1>10, <1>13, <2>1, <2>4, <2>5, <2>8, <2>9 DEF Attempting
    <2>10. CASE Goes("sent", at)
      <3>1. m["pending"] + m["sent"] + m["failed"]
                <= 2 * (j.made + (IF j.stalled THEN 1 ELSE 0)) + Room("sent", at.device)
        BY <1>9, <1>10, <2>1, <2>5, <2>8
      <3> QED
        BY <1>9, <1>13, <2>1, <2>4, <2>5, <2>10, <3>1 DEF Attempting
    <2> QED
      BY <2>7, <2>9, <2>10
  <1>18. PICK most : most = 2 * (j.made + (IF j.stalled THEN 1 ELSE 0)) + 2
    OBVIOUS
  <1>19. l["pending"] + l["sent"] + l["failed"] <= most
    <2>1. Room(pc[p], at.device) \in 0..2
      BY <1>10 DEF Room
    <2> QED
      BY <1>9, <1>10, <1>18, <2>1
  <1>20. CASE N!markSent(p)
    <2>1. PICK k : k = [j EXCEPT !.state = "completed"]
      OBVIOUS
    <2>2. Goes("idle", N!NoRun) /\ status' = "sent" /\ UNCHANGED logs
      BY <1>4, <1>20 DEF N!markSent, N!End, N!updateNotificationStatus
    <2>3. jobs' = [jobs EXCEPT ![c] = k]
      BY <1>6, <1>11, <1>20, <2>1 DEF N!markSent
    <2>4. k \in ChannelJob /\ k.state = "completed" /\ k.made = j.made /\ k.stalled = j.stalled
      BY <1>9, <2>1 DEF ChannelJob
    <2> QED
      BY <1>9, <1>14, <1>18, <1>19, <2>2, <2>3, <2>4
  <1>21. CASE N!findLog(p)
    <2>1. PICK s \in N!DeliveryStatus : l[s] > 0 /\ N!updateLog(p, s, "failed")
      BY <1>7, <1>11, <1>21 DEF N!findLog, N!HasLog
    <2>2. Goes("failed", at) /\ UNCHANGED <<status, jobs>>
      BY <1>4, <1>8, <1>21 DEF N!findLog
    <2>3. PICK m : m = N!Moved(l, s, "failed")
      OBVIOUS
    <2>4. logs' = [logs EXCEPT ![c] = m]
      BY <1>7, <1>11, <2>1, <2>3 DEF N!updateLog
    <2>5. /\ m \in ChannelLogs
          /\ m["pending"] + m["sent"] + m["failed"] = l["pending"] + l["sent"] + l["failed"]
      BY <1>9, <1>10, <2>1, <2>3 DEF ChannelLogs, N!DeliveryStatus, N!Moved
    <2>6. Room("failed", at.device) = 2
      BY DEF Room
    <2> QED
      BY <1>9, <1>13, <1>18, <1>19, <2>2, <2>4, <2>5, <2>6 DEF Attempting
  <1>22. ASSUME N!Rethrow(p), UNCHANGED logs,
                status' = "failed" \/ (faulty /\ status' = status)
         PROVE  NotificationsInv'
    <2>1. PICK k : k = [j EXCEPT !.made = @ + 1, !.state = IF j.made + 1 < maxRetries THEN "waiting"
                 ELSE "failed"]
      OBVIOUS
    <2>2. Goes("idle", N!NoRun)
      BY <1>4, <1>22 DEF N!Rethrow, N!End
    <2>3. jobs' = [jobs EXCEPT ![c] = k]
      BY <1>6, <1>11, <1>22, <2>1 DEF N!Rethrow
    <2>4. /\ k \in ChannelJob /\ k.made = j.made + 1 /\ k.stalled = j.stalled
          /\ k.state = IF j.made + 1 < maxRetries THEN "waiting" ELSE "failed"
      <3>1. j \in ChannelJob /\ j.made + 1 \in 0..maxRetries
        BY <1>9, <1>10
      <3> QED
        BY <2>1, <3>1 DEF ChannelJob
    <2>5. l["pending"] + l["sent"] + l["failed"]
              <= 2 * (k.made + (IF k.stalled THEN 1 ELSE 0)) + (IF k.state = "waiting" THEN 0 ELSE 2)
      BY <1>10, <1>18, <1>19, <2>4
    <2> QED
      BY <1>14, <1>22, <2>2, <2>3, <2>4, <2>5
  <1>23. CASE N!markFailed(p)
    BY <1>22, <1>23 DEF N!markFailed, N!updateNotificationStatus
  <1>24. CASE N!jobFails(p)
    <2>1. faulty /\ UNCHANGED <<status, logs>>
      BY <1>24 DEF N!jobFails
    <2>2. CASE pc[p] \in {"findLog", "failed"}
      BY <1>22, <1>24, <2>1, <2>2 DEF N!jobFails
    <2>3. CASE pc[p] \in {"log", "mark", "sent"}
      <3>1. UNCHANGED jobs
        BY <1>24, <2>3 DEF N!jobFails
      <3>2. PICK r : r = [at EXCEPT !.ok = FALSE]
        OBVIOUS
      <3>3. r \in Attempt /\ r.channel = c /\ r.device = at.device
        BY <1>9, <3>2 DEF Attempt
      <3>4. \/ Goes("mark", r) /\ pc[p] = "mark"
            \/ \E label \in {"findLog", "failed"} : Goes(label, at)
        <4>1. \/ N!GotoWith(p, "mark", r) /\ pc[p] = "mark"
              \/ N!Goto(p, "findLog") \/ N!Goto(p, "failed")
          BY <1>8, <1>24, <2>3, <3>2 DEF N!jobFails
        <4> QED
          BY <1>4, <1>8, <4>1
      <3>5. CASE Goes("mark", r) /\ pc[p] = "mark"
        BY <1>9, <1>11, <1>13, <2>1, <3>1, <3>3, <3>5 DEF Attempting
      <3>6. ASSUME NEW label \in {"findLog", "failed"}, Goes(label, at)
            PROVE  NotificationsInv'
        <4>1. Room(label, at.device) = 2
          BY <3>6 DEF Room
        <4> QED
          BY <1>9, <1>11, <1>13, <1>18, <1>19, <2>1, <3>1, <3>6, <4>1 DEF Attempting
      <3> QED
        BY <3>4, <3>5, <3>6
    <2> QED
      BY <1>24, <2>2, <2>3 DEF N!jobFails
  <1>25. CASE N!crash(p)
    <2>1. PICK k : k = [j EXCEPT !.stalled = TRUE, !.state = IF j.stalled THEN "failed" ELSE "waiting"]
      OBVIOUS
    <2>2. Goes("idle", N!NoRun) /\ faulty /\ UNCHANGED <<status, logs>>
      BY <1>4, <1>25 DEF N!crash, N!End
    <2>3. "channel" \in DOMAIN run[p]
      BY <1>8, <1>9 DEF Attempt
    <2>4. jobs' = [jobs EXCEPT ![c] = k]
      BY <1>6, <1>11, <1>25, <2>1, <2>3 DEF N!crash
    <2>5. /\ k \in ChannelJob /\ k.made = j.made /\ k.stalled = TRUE
          /\ k.state = IF j.stalled THEN "failed" ELSE "waiting"
      BY <1>9, <2>1 DEF ChannelJob
    <2>6. l["pending"] + l["sent"] + l["failed"]
              <= 2 * (k.made + (IF k.stalled THEN 1 ELSE 0)) + (IF k.state = "waiting" THEN 0 ELSE 2)
      BY <1>10, <1>18, <1>19, <2>5
    <2> QED
      BY <1>9, <1>14, <2>2, <2>4, <2>5, <2>6
  <1> QED
    BY <1>15, <1>16, <1>17, <1>20, <1>21, <1>23, <1>24, <1>25

LEMMA NotificationsStep ==
    ASSUME NotificationsInv, N!Next
    PROVE  NotificationsInv'
  <1>1. \A p \in Procs : N!crash(p) => pc[p] \in Creating \cup Attempting
    BY DEF N!crash, NotificationsInv
  <1> QED
    BY <1>1, CreationStep, ChannelTaken, AttemptStep DEF N!Next

LEMMA NotificationsInit ==
    ASSUME HandlersInit, N!Rest
    PROVE  NotificationsInv
  <1>1. Frame /\ \A p \in Procs : pc[p] = "idle"
    BY FrameInit
  <1>2. \A c \in N!Channels : /\ jobs[c] = N!NoJob /\ jobs[c] \in ChannelJob /\ logs[c] \in ChannelLogs
                              /\ jobs[c].state = "none" /\ Resting(jobs[c], logs[c])
    BY ConstantsAssumption
    DEF N!Rest, N!NoJob, ChannelJob, ChannelLogs, Resting, Fits, N!DeliveryStatus
  <1>3. jobs \in [N!Channels -> ChannelJob] /\ logs \in [N!Channels -> ChannelLogs] /\ status = "absent"
    BY <1>2 DEF N!Rest
  <1>4. NoJobs /\ Story(status, jobs)
    BY <1>2, <1>3 DEF NoJobs, Story
  <1> QED
    BY <1>1, <1>2, <1>3, <1>4 DEF NotificationsInv, Creating, Attempting

LEMMA NotificationsStand ==
    ASSUME NotificationsInv, UNCHANGED <<handlers, noticeVars>>
    PROVE  NotificationsInv'
  <1>1. Frame' /\ UNCHANGED <<pc, run, faulty, status, jobs, logs>>
    BY NothingMoves DEF NotificationsInv, handlers, setting, noticeVars
  <1>2. NoJobs' = NoJobs
    BY <1>1 DEF NoJobs
  <1> QED
    BY <1>1, <1>2 DEF NotificationsInv

LEMMA NotificationsPromises ==
    ASSUME NotificationsInv
    PROVE  N!TypeOK /\ N!StatusMatchesJobs
  <1>1. N!TypeOK
    <2>1. ASSUME NEW c \in N!Channels
          PROVE  logs[c] \in [N!DeliveryStatus -> 0..2 * (maxRetries + 2)]
      <3>1. \E room \in 0..2 : Fits(jobs[c], logs[c], room)
        <4>1. CASE Resting(jobs[c], logs[c])
          BY <4>1 DEF Resting
        <4>2. ASSUME NEW p \in Procs, pc[p] \in Attempting, run[p].channel = c
              PROVE  \E room \in 0..2 : Fits(jobs[c], logs[c], room)
          <5>1. Fits(jobs[c], logs[c], Room(pc[p], run[p].device)) /\ run[p].device \in {1, 2}
            BY <4>2 DEF NotificationsInv, Sending, Attempt
          <5>2. Room(pc[p], run[p].device) \in 0..2
            BY <5>1 DEF Room
          <5> QED
            BY <5>1, <5>2
        <4> QED
          BY <4>1, <4>2 DEF NotificationsInv
      <3>2. PICK room \in 0..2 : Fits(jobs[c], logs[c], room)
        BY <3>1
      <3>3. /\ jobs[c].made \in 0..maxRetries /\ jobs[c].stalled \in BOOLEAN /\ maxRetries \in Nat
            /\ \A s \in N!DeliveryStatus : logs[c][s] \in Nat
            /\ logs[c] \in ChannelLogs
        BY <3>2, ConstantsAssumption DEF Fits, ChannelJob, ChannelLogs
      <3>4. logs[c]["pending"] + logs[c]["sent"] + logs[c]["failed"] <= 2 * (maxRetries + 2)
        BY <3>2, <3>3 DEF Fits, N!DeliveryStatus
      <3>5. \A s \in N!DeliveryStatus : logs[c][s] \in 0..2 * (maxRetries + 2)
        BY <3>3, <3>4 DEF N!DeliveryStatus
      <3> QED
        BY <3>3, <3>5 DEF ChannelLogs
    <2>2. logs \in [N!Channels -> [N!DeliveryStatus -> 0..2 * (maxRetries + 2)]]
      BY <2>1 DEF NotificationsInv
    <2> QED
      BY <2>2 DEF NotificationsInv, ChannelJob, N!Devices, N!TypeOK
  <1>2. N!StatusMatchesJobs
    <2>1. SUFFICES ASSUME ~faulty, N!Idle, NEW c \in N!Channels, jobs[c].state # "none",
                          \A d \in N!Channels : jobs[d].state # "waiting"
                   PROVE  \/ status = "sent" /\ \E d \in N!Channels : jobs[d].state = "completed"
                          \/ status = "failed" /\ \E d \in N!Channels : jobs[d].state = "failed"
      BY DEF N!StatusMatchesJobs
    <2>2. \A d \in N!Channels : jobs[d].state # "active" /\ jobs[d] \in ChannelJob
      BY <2>1 DEF NotificationsInv, N!Idle, Attempting, Resting
    <2>3. jobs[c].state \in {"completed", "failed"}
      BY <2>1, <2>2 DEF ChannelJob
    <2> QED
      BY <2>1, <2>2, <2>3 DEF NotificationsInv, Story
  <1> QED
    BY <1>1, <1>2
-----------------------------------------------------------------------------
(* The gateway.                                                            *)

GatewayCall == [id : Nat, at : Nat, path : Endpoints, version : W!Versions, failed : BOOLEAN,
                status : {200, 201}]

Shown(b) == /\ b.total \in 0..maxMetrics /\ b.recent \in Nat /\ b.failed \in Nat
            /\ b.failed <= b.recent /\ b.recent <= b.total

(* A call is answered once.                                                *)
Answers(as, n) == /\ \A a \in as : a.id \in 1..n
                  /\ \A a, b \in as : a.id = b.id => a = b

(* What is in memory of the calls, each kept once and as it was answered.  *)
Remembered(cs, as) ==
    /\ cs \in Seq(GatewayCall)
    /\ \A i, j \in 1..Len(cs) : cs[i].id = cs[j].id => i = j
    /\ \A i \in 1..Len(cs) : \E a \in as : a.id = cs[i].id /\ a.status = W!Answer(cs[i].failed)

(* A call whose handler is at work has no answer yet.                      *)
Handling(r, as, n) == /\ r.id \in 1..n /\ r.path \in Endpoints /\ r.version \in W!Versions
                      /\ \A a \in as : a.id # r.id

GatewayInv ==
    /\ Frame
    /\ requests \in Nat
    /\ clock \in 0..MaxClock /\ due \subseteq {"snapshot", "cleanup", "old"}
    /\ W!VersionsFixed
    /\ alerts \in Seq([acknowledged : BOOLEAN]) /\ Len(alerts) <= maxAlerts
    /\ Shown(board)
    /\ Answers(answered, requests)
    /\ Remembered(calls, answered) /\ Len(calls) <= maxMetrics
    /\ \A p \in Procs : pc[p] # "idle" => Handling(run[p], answered, requests)
    /\ \A p, q \in Procs : pc[p] # "idle" /\ pc[q] # "idle" /\ run[p].id = run[q].id => p = q

LEMMA GatewayBounds == {MaxClock, maxMetrics, maxAlerts} \subseteq Nat
  BY ConstantsAssumption

(* What is kept in memory, as many as there are places.                    *)
LEMMA LastKept ==
    ASSUME NEW Z, NEW s \in Seq(Z), NEW e \in Z, NEW most \in Nat, Len(s) <= most,
           NEW t, t = IF Len(Append(s, e)) > most THEN Tail(Append(s, e)) ELSE Append(s, e)
    PROVE  /\ t \in Seq(Z) /\ Len(t) <= most
           /\ \E d \in {0, 1} : /\ Len(t) + d = Len(s) + 1
                                /\ \A i \in 1..Len(t) : t[i] = IF i + d <= Len(s) THEN s[i + d] ELSE e
  <1>1. PICK a : a = Append(s, e)
    OBVIOUS
  <1>2. /\ a \in Seq(Z) /\ a # <<>> /\ Len(a) = Len(s) + 1 /\ Len(s) \in Nat
        /\ \A i \in 1..Len(a) : a[i] = IF i <= Len(s) THEN s[i] ELSE e
    BY <1>1, AppendProperties, LenProperties
  <1>3. CASE Len(a) > most
    <2>1. t = Tail(a)
      BY <1>1, <1>3
    <2>2. t \in Seq(Z) /\ Len(t) = Len(s) /\ \A i \in 1..Len(t) : t[i] = a[i + 1]
      BY <1>2, <2>1, HeadTailProperties
    <2>3. \A i \in 1..Len(t) : i + 1 \in 1..Len(a)
      BY <1>2, <2>2
    <2>4. \A i \in 1..Len(t) : t[i] = IF i + 1 <= Len(s) THEN s[i + 1] ELSE e
      BY <1>2, <2>2, <2>3
    <2> QED
      BY <1>2, <2>2, <2>4
  <1>4. CASE ~ (Len(a) > most)
    <2>1. t = a
      BY <1>1, <1>4
    <2>2. \A i \in 1..Len(t) : t[i] = IF i + 0 <= Len(s) THEN s[i + 0] ELSE e
      BY <1>2, <2>1
    <2> QED
      BY <1>2, <1>4, <2>1, <2>2
  <1> QED
    BY <1>3, <1>4

(* A call is over: it is answered, and kept.                               *)
LEMMA CallDone ==
    ASSUME GatewayInv, NEW n \in Nat,
           requests <= n, NEW id \in 1..n, \A a \in answered : a.id # id,
           NEW endpoint \in Endpoints, NEW v \in W!Versions, NEW failed \in BOOLEAN,
           W!Done(id, endpoint, v, failed)
    PROVE  /\ Answers(answered', n) /\ Remembered(calls', answered') /\ Len(calls') <= maxMetrics
           /\ \A a \in answered' : a \in answered \/ a.id = id
  <1>1. /\ \A a \in answered : a.id \in 1..n
        /\ Answers(answered, n)
    BY DEF GatewayInv, Answers
  <1>2. CASE endpoint \in W!Excluded
    BY <1>1, <1>2 DEF W!Done, GatewayInv
  <1>3. CASE endpoint \notin W!Excluded
    <2>1. PICK c : c = W!trackMetric(id, endpoint, v, failed)
      OBVIOUS
    <2>2. PICK a : a = [id |-> id, at |-> clock, status |-> W!Answer(failed)]
      OBVIOUS
    <2>3. answered' = answered \cup {a} /\ W!addMetric(c)
      BY <1>3, <2>1, <2>2 DEF W!Done
    <2>4. c \in GatewayCall /\ c.id = id /\ c.failed = failed
      BY <2>1 DEF W!trackMetric, GatewayCall, GatewayInv
    <2>5. a.id = id /\ a.status = W!Answer(c.failed)
      BY <2>2, <2>4
    <2>6. calls' = IF Len(Append(calls, c)) > maxMetrics THEN Tail(Append(calls, c))
            ELSE Append(calls, c)
      BY <2>3 DEF W!addMetric
    <2>7. calls \in Seq(GatewayCall) /\ Len(calls) <= maxMetrics /\ maxMetrics \in Nat
      BY GatewayBounds DEF GatewayInv, Remembered
    <2>8. PICK t : t = calls'
      OBVIOUS
    <2>9. PICK d \in {0, 1} : /\ t \in Seq(GatewayCall) /\ Len(t) <= maxMetrics
                              /\ Len(t) + d = Len(calls) + 1
                              /\ \A i \in 1..Len(t) : t[i] = IF i + d <= Len(calls)
                                   THEN calls[i + d] ELSE c
      <3>1. PICK s : s = calls
        OBVIOUS
      <3>2. t = IF Len(Append(s, c)) > maxMetrics THEN Tail(Append(s, c)) ELSE Append(s, c)
        BY <2>6, <2>8, <3>1
      <3>3. s \in Seq(GatewayCall) /\ Len(s) <= maxMetrics /\ maxMetrics \in Nat /\ c \in GatewayCall
        BY <2>4, <2>7, <3>1
      <3>4. /\ t \in Seq(GatewayCall) /\ Len(t) <= maxMetrics
            /\ \E d \in {0, 1} : /\ Len(t) + d = Len(s) + 1
                                 /\ \A i \in 1..Len(t) : t[i] = IF i + d <= Len(s) THEN s[i + d] ELSE c
        BY <3>2, <3>3, LastKept
      <3> QED
        BY <3>1, <3>4
    <2>10. Len(t) \in Nat /\ Len(calls) \in Nat
      BY <2>7, <2>9, LenProperties
    <2>11. ASSUME NEW i \in 1..Len(t)
           PROVE  \/ i + d \in 1..Len(calls) /\ t[i] = calls[i + d] /\ t[i].id # id
                  \/ i + d = Len(calls) + 1 /\ t[i] = c
      <3>1. CASE i + d <= Len(calls)
        <4>1. i + d \in 1..Len(calls) /\ t[i] = calls[i + d]
          BY <2>9, <2>10, <3>1
        <4> QED
          BY <4>1 DEF GatewayInv, Remembered
      <3>2. CASE ~ (i + d <= Len(calls))
        BY <2>9, <2>10, <3>2
      <3> QED
        BY <3>1, <3>2
    <2>12. \A i, j \in 1..Len(t) : t[i].id = t[j].id => i = j
      <3>1. \A i, j \in 1..Len(calls) : calls[i].id = calls[j].id => i = j
        BY DEF GatewayInv, Remembered
      <3>2. ASSUME NEW i \in 1..Len(t), NEW j \in 1..Len(t), t[i].id = t[j].id
            PROVE  i + d = j + d
        BY <2>4, <2>11, <3>1, <3>2
      <3> QED
        BY <2>9, <2>10, <3>2
    <2>13. \A i \in 1..Len(t) : \E b \in answered \cup {a} : b.id = t[i].id
             /\ b.status = W!Answer(t[i].failed)
      <3>1. \A i \in 1..Len(calls) : \E b \in answered : b.id = calls[i].id
              /\ b.status = W!Answer(calls[i].failed)
        BY DEF GatewayInv, Remembered
      <3> QED
        BY <2>4, <2>5, <2>11, <3>1
    <2>14. Remembered(t, answered')
      BY <2>3, <2>9, <2>12, <2>13 DEF Remembered
    <2>15. Answers(answered', n)
      BY <1>1, <2>3, <2>5 DEF Answers
    <2> QED
      BY <2>3, <2>5, <2>8, <2>9, <2>14, <2>15
  <1> QED
    BY <1>2, <1>3

LEMMA CallsCounted ==
    ASSUME GatewayInv
    PROVE  /\ IsFiniteSet(W!InMemory) /\ Cardinality(W!InMemory) = Len(calls)
           /\ Len(calls) \in Nat
  <1>1. Len(calls) \in Nat /\ DOMAIN calls = 1..Len(calls)
    BY LenProperties DEF GatewayInv, Remembered
  <1>2. IsFiniteSet(1..Len(calls)) /\ Cardinality(1..Len(calls)) = Len(calls)
    <2>1. Cardinality(1..Len(calls)) = IF 1 > Len(calls) THEN 0 ELSE Len(calls) - 1 + 1
      BY <1>1, FS_Interval
    <2> QED
      BY <1>1, <2>1, FS_Interval
  <1>3. PICK f : f = [i \in 1..Len(calls) |-> calls[i]]
    OBVIOUS
  <1>4. f \in Surjection(1..Len(calls), W!InMemory)
    BY <1>1, <1>3 DEF Surjection, W!InMemory
  <1>5. f \in Injection(1..Len(calls), W!InMemory)
    <2>1. \A i, j \in 1..Len(calls) : calls[i] = calls[j] => i = j
      BY DEF GatewayInv, Remembered
    <2>2. f \in [1..Len(calls) -> W!InMemory]
      BY <1>4 DEF Surjection
    <2> QED
      BY <1>3, <2>1, <2>2 DEF IsInjective, Injection
  <1> QED
    BY <1>1, <1>2, <1>4, <1>5, FS_Surjection

LEMMA GatewayCardinality ==
    ASSUME NEW Z
    PROVE  W!Cardinality(Z) = Cardinality(Z)
  BY DEF W!Cardinality, Cardinality

LEMMA OverviewShown ==
    ASSUME GatewayInv
    PROVE  Shown(W!Overview)
  <1>1. W!Recent \subseteq W!InMemory /\ W!Failed(W!Recent) \subseteq W!Recent
    BY DEF W!Recent, W!Failed
  <1>2. /\ IsFiniteSet(W!Recent) /\ IsFiniteSet(W!Failed(W!Recent))
        /\ Cardinality(W!Recent) <= Len(calls)
        /\ Cardinality(W!Failed(W!Recent)) <= Cardinality(W!Recent)
    BY <1>1, CallsCounted, FS_Subset
  <1>3. Cardinality(W!Recent) \in Nat /\ Cardinality(W!Failed(W!Recent)) \in Nat
          /\ Len(calls) \in 0..maxMetrics
    BY <1>2, CallsCounted, FS_CardinalityType, GatewayBounds DEF GatewayInv
  <1>4. PICK b : b = W!Overview
    OBVIOUS
  <1>5. b.total = Len(calls) /\ b.recent = Cardinality(W!Recent)
          /\ b.failed = Cardinality(W!Failed(W!Recent))
    BY <1>4, GatewayCardinality DEF W!Overview
  <1> QED
    BY <1>2, <1>3, <1>4, <1>5 DEF Shown

(* A request, or the end of a handler.                                     *)
LEMMA GatewayMoves ==
    ASSUME GatewayInv, NEW p \in Procs, NEW label, NEW r, NEW n \in Nat, NEW id,
           pc' = [pc EXCEPT ![p] = label], run' = [run EXCEPT ![p] = r], UNCHANGED setting,
           overlap \/ Idle \/ pc[p] # "idle" \/ label = "idle",
           requests' = n, requests <= n,
           \A q \in Procs \ {p} : pc[q] # "idle" => run[q].id # id,
           Answers(answered', n), Remembered(calls', answered'), Len(calls') <= maxMetrics,
           \A a \in answered' : a \in answered \/ a.id = id,
           label # "idle" => r.id = id /\ Handling(r, answered', n),
           W!VersionsFixed', Shown(board'), UNCHANGED <<clock, due, alerts>>
    PROVE  GatewayInv'
  <1>1. Frame' /\ Moves(p, label, r)
    BY MovesFrame DEF GatewayInv
  <1>2. ASSUME NEW q \in Procs, pc'[q] # "idle"
        PROVE  /\ Handling(run'[q], answered', n)
               /\ q # p => pc[q] # "idle" /\ run'[q] = run[q] /\ run[q].id # id
               /\ q = p => run'[q].id = id
    <2>1. CASE q = p
      BY <1>1, <1>2, <2>1 DEF Moves
    <2>2. CASE q # p
      <3>1. pc[q] # "idle" /\ run'[q] = run[q]
        BY <1>1, <1>2, <2>2 DEF Moves
      <3>2. Handling(run[q], answered, requests) /\ requests \in Nat
        BY <3>1 DEF GatewayInv
      <3> QED
        BY <2>2, <3>1, <3>2 DEF Handling
    <2> QED
      BY <2>1, <2>2
  <1>3. \A q, s \in Procs : pc'[q] # "idle" /\ pc'[s] # "idle" /\ run'[q].id = run'[s].id => q = s
    BY <1>2 DEF GatewayInv
  <1>4. clock' \in 0..MaxClock /\ due' \subseteq {"snapshot", "cleanup", "old"}
    BY DEF GatewayInv
  <1>5. alerts' \in Seq([acknowledged : BOOLEAN]) /\ Len(alerts') <= maxAlerts
    BY DEF GatewayInv
  <1> QED
    BY <1>1, <1>2, <1>3, <1>4, <1>5 DEF GatewayInv

(* A timer, or what is done to alerts.                                     *)
LEMMA GatewayRests ==
    ASSUME GatewayInv, UNCHANGED <<handlers, W!versions, answered, board>>,
           clock' \in 0..MaxClock, due' \subseteq {"snapshot", "cleanup", "old"},
           calls' = calls \/ calls' = <<>>,
           alerts' \in Seq([acknowledged : BOOLEAN]), Len(alerts') <= maxAlerts
    PROVE  GatewayInv'
  <1>1. Frame' /\ UNCHANGED <<pc, run, requests>>
    BY NothingMoves DEF GatewayInv, handlers
  <1>2. Remembered(calls', answered') /\ Len(calls') <= maxMetrics
    <2>1. CASE calls' = calls
      BY <2>1 DEF GatewayInv
    <2>2. CASE calls' = <<>>
      <3>1. calls' \in Seq(GatewayCall) /\ Len(calls') = 0 /\ maxMetrics \in Nat
        BY <2>2, GatewayBounds
      <3> QED
        BY <3>1 DEF Remembered
    <2> QED
      BY <2>1, <2>2
  <1>3. W!VersionsFixed'
    BY DEF GatewayInv, W!VersionsFixed, W!versions
  <1>4. \A p \in Procs : pc'[p] # "idle" => Handling(run'[p], answered', requests')
    BY <1>1 DEF GatewayInv
  <1> QED
    BY <1>1, <1>2, <1>3, <1>4 DEF GatewayInv

LEMMA HandleStep ==
    ASSUME GatewayInv, NEW p \in Procs, NEW endpoint \in Endpoints, NEW given \in Given,
           NEW header \in W!Read(endpoint), W!handle(p, endpoint, header, given)
    PROVE  GatewayInv'
  <1>1. PICK v : v = IF endpoint \in W!Neutral THEN "unknown" ELSE W!extractVersion(header)
    OBVIOUS
  <1>2. v \in W!Versions
    BY <1>1
    DEF W!extractVersion, W!normalizeVersion, W!Versions, W!WellFormed, W!Default
  <1>3. PICK taken \in BOOLEAN : taken = W!Accepted(endpoint, given)
    BY DEF W!Accepted, W!VersionAccepted, W!Known, W!isSupported
  <1>4. PICK n : n = requests + 1
    OBVIOUS
  <1>5. n \in Nat /\ requests <= n /\ requests \in Nat /\ n \in 1..n /\ n > requests
    BY <1>4 DEF GatewayInv
  <1>6. /\ \A q \in Procs : pc[q] # "idle" => run[q].id # n
        /\ \A a \in answered : a.id # n /\ a.id \in 1..n
    BY <1>5 DEF GatewayInv, Handling, Answers
  <1>7. CASE taken /\ endpoint \notin W!Neutral
    <2>1. PICK r : r = [id |-> n, path |-> endpoint, version |-> v]
      OBVIOUS
    <2>2. /\ W!Request(p, "handler", r)
          /\ UNCHANGED <<W!versions, board, calls, lost, answered, clock, due, alerts>>
      BY <1>1, <1>3, <1>4, <1>7, <2>1 DEF W!handle
    <2>3. /\ pc' = [pc EXCEPT ![p] = "handler"] /\ run' = [run EXCEPT ![p] = r] /\ UNCHANGED setting
          /\ requests' = n /\ (overlap \/ Idle)
      BY <1>4, <2>2 DEF W!Request, W!MayStart, W!Idle, Idle, W!setting, setting
    <2>4. r.id = n /\ Handling(r, answered', n)
      BY <1>2, <1>5, <1>6, <2>1, <2>2 DEF Handling
    <2>5. Answers(answered', n) /\ Remembered(calls', answered') /\ Len(calls') <= maxMetrics
      <3>1. Answers(answered, n)
        BY <1>6 DEF GatewayInv, Answers
      <3> QED
        BY <2>2, <3>1 DEF GatewayInv
    <2>6. W!VersionsFixed' /\ Shown(board') /\ UNCHANGED <<clock, due, alerts>>
      BY <2>2 DEF GatewayInv, W!VersionsFixed, W!versions
    <2>7. \A a \in answered' : a \in answered
      BY <2>2
    <2> QED
      BY <1>5, <1>6, <2>3, <2>4, <2>5, <2>6, <2>7, GatewayMoves
  <1>8. CASE ~ (taken /\ endpoint \notin W!Neutral)
    <2>1. /\ W!Request(p, "idle", W!NoRun) /\ W!Done(requests', endpoint, v, ~taken)
          /\ IF taken THEN W!Effect(endpoint, given) ELSE UNCHANGED <<W!versions, board>>
          /\ UNCHANGED <<clock, due, alerts>>
      BY <1>1, <1>3, <1>8 DEF W!handle
    <2>2. /\ pc' = [pc EXCEPT ![p] = "idle"] /\ run' = [run EXCEPT ![p] = W!NoRun] /\ UNCHANGED setting
          /\ requests' = n
      BY <1>4, <2>1 DEF W!Request, W!setting, setting
    <2>3. W!Done(n, endpoint, v, ~taken)
      BY <2>1, <2>2 DEF W!Done, W!trackMetric
    <2>4. /\ Answers(answered', n) /\ Remembered(calls', answered') /\ Len(calls') <= maxMetrics
          /\ \A a \in answered' : a \in answered \/ a.id = n
      BY <1>2, <1>3, <1>5, <1>6, <2>3, CallDone
    <2>5. W!VersionsFixed' /\ Shown(board')
      <3>1. CASE taken
        <4>1. endpoint \in W!Created => given = "empty"
          BY <1>3, <3>1 DEF W!Accepted, W!Known
        <4>2. W!normalizeVersion("empty") = "v1"
          BY DEF W!normalizeVersion, W!WellFormed, W!Default
        <4>3. W!Effect(endpoint, given)
          BY <2>1, <3>1
        <4>4. UNCHANGED <<supported, deprecated>>
          BY <4>1, <4>2, <4>3
          DEF W!Effect, W!addSupportedVersion, W!deprecateVersion,
              W!Created, GatewayInv, W!VersionsFixed
        <4>5. board' = board \/ board' = W!Overview
          BY <4>3 DEF W!Effect, W!updateMetrics
        <4> QED
          BY <4>4, <4>5, OverviewShown DEF GatewayInv, W!VersionsFixed
      <3>2. CASE ~taken
        BY <2>1, <3>2 DEF W!versions, GatewayInv, W!VersionsFixed
      <3> QED
        BY <3>1, <3>2
    <2>6. UNCHANGED <<clock, due, alerts>>
      BY <2>1
    <2> QED
      BY <1>5, <1>6, <2>2, <2>4, <2>5, <2>6, GatewayMoves
  <1> QED
    BY <1>7, <1>8

LEMMA GatewayStep ==
    ASSUME GatewayInv, W!Next
    PROVE  GatewayInv'
  <1>1. ASSUME NEW p \in Procs, W!refuse(p)
        PROVE  GatewayInv'
    <2>1. PICK n : n = requests + 1
      OBVIOUS
    <2>2. /\ pc' = [pc EXCEPT ![p] = "idle"] /\ run' = [run EXCEPT ![p] = W!NoRun] /\ UNCHANGED setting
          /\ requests' = n
      BY <1>1, <2>1 DEF W!refuse, W!Request, W!setting, setting
    <2>3. UNCHANGED <<clock, due, W!versions, calls, board, alerts, answered>>
      BY <1>1 DEF W!refuse, W!monitors
    <2>4. n \in Nat /\ requests <= n /\ requests \in Nat
      BY <2>1 DEF GatewayInv
    <2>5. Answers(answered', n)
      BY <2>3, <2>4 DEF GatewayInv, Answers
    <2>6. Remembered(calls', answered') /\ Len(calls') <= maxMetrics /\ Shown(board')
            /\ W!VersionsFixed'
      BY <2>3 DEF GatewayInv, W!VersionsFixed, W!versions
    <2>7. \A q \in Procs \ {p} : pc[q] # "idle" => run[q].id # n
      BY <2>1, <2>4 DEF GatewayInv, Handling
    <2> QED
      BY <2>2, <2>3, <2>4, <2>5, <2>6, <2>7, GatewayMoves
  <1>2. ASSUME NEW p \in Procs, NEW failed \in BOOLEAN, W!finish(p, failed)
        PROVE  GatewayInv'
    <2>1. PICK r : r = run[p]
      OBVIOUS
    <2>2. pc[p] = "handler" /\ W!Done(r.id, r.path, r.version, failed)
      BY <1>2, <2>1 DEF W!finish
    <2>3. /\ pc' = [pc EXCEPT ![p] = "idle"] /\ run' = [run EXCEPT ![p] = W!NoRun] /\ UNCHANGED setting
          /\ requests' = requests
      BY <1>2 DEF W!finish, W!End, W!GotoWith, W!setting, setting
    <2>4. /\ requests \in Nat /\ Handling(r, answered, requests)
          /\ \A q \in Procs \ {p} : pc[q] # "idle" => run[q].id # r.id
      BY <2>1, <2>2 DEF GatewayInv
    <2>5. PICK n \in Nat : n = requests
      BY <2>4
    <2>6. /\ Answers(answered', n) /\ Remembered(calls', answered') /\ Len(calls') <= maxMetrics
          /\ \A a \in answered' : a \in answered \/ a.id = r.id
      BY <2>2, <2>4, <2>5, CallDone DEF Handling
    <2>7. Shown(board') /\ W!VersionsFixed' /\ UNCHANGED <<clock, due, alerts>>
      BY <1>2 DEF W!finish, GatewayInv, W!VersionsFixed, W!versions
    <2> QED
      <3>1. requests' = n /\ requests <= n /\ pc[p] # "idle"
        BY <2>2, <2>3, <2>4, <2>5
      <3>2. \A q \in Procs \ {p} : pc[q] # "idle" => run[q].id # r.id
        BY <2>4
      <3> QED
        BY <2>3, <2>6, <2>7, <3>1, <3>2, GatewayMoves
  <1>3. /\ clock \in 0..MaxClock /\ due \subseteq {"snapshot", "cleanup", "old"}
        /\ alerts \in Seq([acknowledged : BOOLEAN]) /\ Len(alerts) <= maxAlerts
    BY DEF GatewayInv
  <1> USE DEF W!handlers, W!setting, handlers, setting
  <1>4. CASE W!takeSnapshot
    BY <1>3, <1>4, GatewayRests DEF W!takeSnapshot
  <1>5. CASE W!cleanupMetrics
    BY <1>3, <1>5, GatewayRests DEF W!cleanupMetrics
  <1>6. CASE W!cleanupOldData
    BY <1>3, <1>6, GatewayRests DEF W!cleanupOldData
  <1>7. CASE W!checkForAlerts
    <2>1. PICK e : e = [acknowledged |-> FALSE]
      OBVIOUS
    <2>2. alerts' = IF Len(Append(alerts, e)) > maxAlerts THEN Tail(Append(alerts, e))
            ELSE Append(alerts, e)
      BY <1>7, <2>1 DEF W!checkForAlerts, W!addAlert
    <2>3. e \in [acknowledged : BOOLEAN] /\ maxAlerts \in Nat
      BY <2>1, GatewayBounds
    <2>4. alerts' \in Seq([acknowledged : BOOLEAN]) /\ Len(alerts') <= maxAlerts
      <3>1. PICK t : t = alerts'
        OBVIOUS
      <3>2. PICK Z : Z = [acknowledged : BOOLEAN]
        OBVIOUS
      <3>3. t = IF Len(Append(alerts, e)) > maxAlerts THEN Tail(Append(alerts, e))
              ELSE Append(alerts, e)
        BY <2>2, <3>1
      <3>4. alerts \in Seq(Z) /\ e \in Z /\ Len(alerts) <= maxAlerts /\ maxAlerts \in Nat
        BY <1>3, <2>3, <3>2
      <3>5. t \in Seq(Z) /\ Len(t) <= maxAlerts
        BY <3>3, <3>4, LastKept
      <3> QED
        BY <3>1, <3>2, <3>5
    <2>5. UNCHANGED <<handlers, W!versions, answered, board, clock, due, calls>>
      BY <1>7 DEF W!checkForAlerts
    <2> QED
      BY <1>3, <2>4, <2>5, GatewayRests
  <1>8. ASSUME NEW i \in 1..maxAlerts, W!acknowledgeAlert(i)
        PROVE  GatewayInv'
    <2>1. alerts' = [alerts EXCEPT ![i].acknowledged = TRUE] /\ i \in DOMAIN alerts
      BY <1>8 DEF W!acknowledgeAlert
    <2>2. alerts' \in Seq([acknowledged : BOOLEAN]) /\ Len(alerts') = Len(alerts)
      <3>1. alerts[i] \in [acknowledged : BOOLEAN] /\ i \in 1..Len(alerts)
        BY <1>3, <2>1, LenProperties, ElementOfSeq
      <3>2. PICK e \in [acknowledged : BOOLEAN] : e = [alerts[i] EXCEPT !.acknowledged = TRUE]
        BY <3>1
      <3>3. alerts' = [alerts EXCEPT ![i] = e]
        BY <2>1, <3>2
      <3> QED
        BY <1>3, <3>1, <3>3, ExceptSeq
    <2>3. UNCHANGED <<handlers, W!versions, answered, board, clock, due, calls>>
      BY <1>8 DEF W!acknowledgeAlert
    <2> QED
      BY <1>3, <2>2, <2>3, GatewayRests
  <1>9. CASE W!tick
    <2>1. clock' \in 0..MaxClock
      BY <1>3, <1>9, GatewayBounds DEF W!tick
    <2>2. due' \subseteq {"snapshot", "cleanup", "old"}
      BY <1>9 DEF W!tick
    <2>3. UNCHANGED <<handlers, W!versions, answered, board, calls, alerts>>
      BY <1>9 DEF W!tick, W!monitors
    <2> QED
      BY <1>3, <2>1, <2>2, <2>3, GatewayRests
  <1> QED
    BY <1>1, <1>2, <1>4, <1>5, <1>6, <1>7, <1>8, <1>9, HandleStep DEF W!Next

LEMMA GatewayInit ==
    ASSUME HandlersInit, W!Rest
    PROVE  GatewayInv
  <1>1. Frame /\ (\A p \in Procs : pc[p] = "idle") /\ requests = 0
    BY FrameInit DEF HandlersInit
  <1>2. {MaxClock, maxMetrics, maxAlerts} \subseteq Nat
    BY GatewayBounds
  <1>3. /\ clock = 0 /\ due = {} /\ calls = <<>> /\ alerts = <<>> /\ answered = {} /\ W!VersionsFixed
        /\ board = W!Blank
    BY DEF W!Rest, W!VersionsFixed
  <1>4. Shown(board) /\ Answers(answered, requests) /\ Remembered(calls, answered)
    BY <1>2, <1>3 DEF Shown, W!Blank, Answers, Remembered
  <1> QED
    BY <1>1, <1>2, <1>3, <1>4 DEF GatewayInv

LEMMA GatewayStands ==
    ASSUME GatewayInv, UNCHANGED <<handlers, gatewayVars>>
    PROVE  GatewayInv'
  <1>1. UNCHANGED <<handlers, clock, due, supported, deprecated, calls, board, alerts, answered>>
    BY DEF gatewayVars
  <1>2. /\ clock' \in 0..MaxClock /\ due' \subseteq {"snapshot", "cleanup", "old"}
        /\ alerts' \in Seq([acknowledged : BOOLEAN]) /\ Len(alerts') <= maxAlerts
    BY <1>1 DEF GatewayInv
  <1> QED
    BY <1>1, <1>2, GatewayRests DEF W!versions

(* One of a set, as the folds choose it, and what is summed over a set.    *)
One(s) == CHOOSE x \in s : TRUE

SumsUp(it, g, D) == it = [s \in SUBSET D |-> IF s = {} THEN 0 ELSE g[One(s)] + it[s \ {One(s)}]]

(* g counts the elements of K that f sends to each of D.                   *)
Counting(g, f, K, D) == /\ f \in [K -> D]
                        /\ \A e \in D : g[e] = Cardinality({c \in K : f[c] = e})

(* Of the parts of a finite set the sizes sum up to its own: the sizes of  *)
(* the unions are such a sum, and there is no other.                       *)
LEMMA PartsSumUp ==
    ASSUME NEW D, IsFiniteSet(D), NEW K, IsFiniteSet(K), NEW f, NEW g,
           Counting(g, f, K, D)
    PROVE  /\ \E it : SumsUp(it, g, D)
           /\ \A it : SumsUp(it, g, D) => it[D] = Cardinality(K)
  <1> DEFINE Of(s) == {c \in K : f[c] \in s}
             Sizes == [s \in SUBSET D |-> Cardinality(Of(s))]
  <1>0. f \in [K -> D] /\ \A e \in D : g[e] = Cardinality({c \in K : f[c] = e})
    BY DEF Counting
  <1>1. \A s : IsFiniteSet(Of(s)) /\ Cardinality(Of(s)) \in Nat
    BY FS_Subset, FS_CardinalityType
  <1>2. Cardinality(Of({})) = 0
    BY FS_EmptySet
  <1>3. ASSUME NEW s \in SUBSET D, s # {}
        PROVE  /\ One(s) \in s
               /\ Cardinality(Of(s)) = g[One(s)] + Cardinality(Of(s \ {One(s)}))
    <2>1. One(s) \in s
      BY <1>3 DEF One
    <2>2. PICK x \in s : x = One(s)
      BY <2>1
    <2>3. PICK Q : Q = {c \in K : f[c] = x}
      OBVIOUS
    <2>4. PICK rest : rest = Of(s \ {x})
      OBVIOUS
    <2>5. Of(s) = Q \cup rest /\ Q \cap rest = {}
      BY <2>2, <2>3, <2>4
    <2>6. /\ IsFiniteSet(Q) /\ Cardinality(Q) = g[x] /\ Cardinality(Q) \in Nat
          /\ IsFiniteSet(rest) /\ Cardinality(rest) \in Nat
      <3>1. IsFiniteSet(Q) /\ Q \subseteq K /\ x \in D
        BY <1>3, <2>2, <2>3, FS_Subset
      <3> QED
        BY <1>0, <1>1, <2>3, <2>4, <3>1, FS_CardinalityType
    <2>7. Cardinality(Q \cup rest) = Cardinality(Q) + Cardinality(rest) - Cardinality(Q \cap rest)
      BY <2>6, FS_Union
    <2>8. Cardinality(Q \cup rest) = Cardinality(Q) + Cardinality(rest)
      <3>1. Cardinality(Q \cap rest) = 0
        BY <2>5, FS_EmptySet
      <3> QED
        BY <2>6, <2>7, <3>1
    <2> QED
      BY <2>1, <2>2, <2>4, <2>5, <2>6, <2>8
  <1>4. SumsUp(Sizes, g, D)
    <2>1. \A s \in SUBSET D : Sizes[s] = IF s = {} THEN 0 ELSE g[One(s)] + Sizes[s \ {One(s)}]
      BY <1>2, <1>3
    <2> HIDE DEF Of
    <2> QED
      BY <2>1 DEF SumsUp
  <1>5. ASSUME NEW it, SumsUp(it, g, D)
        PROVE  it[D] = Cardinality(Of(D))
    <2> DEFINE Wrong == {s \in SUBSET D : it[s] # Cardinality(Of(s))}
    <2>1. Wrong = {}
      <3> SUFFICES ASSUME Wrong # {}
                   PROVE  FALSE
        OBVIOUS
      <3>1. Wrong \subseteq FiniteSubsetsOf(D)
        BY FS_Subset DEF FiniteSubsetsOf
      <3>2. PICK s \in Wrong : \A t \in Wrong : ~ (<<t, s>> \in StrictSubsetOrdering(D))
        BY <3>1, FS_StrictSubsetOrderingWellFounded, WFMin
      <3>3. s \in SUBSET D /\ it[s] # Cardinality(Of(s)) /\ it[s] = IF s = {} THEN 0
              ELSE g[One(s)] + it[s \ {One(s)}]
        BY <1>5 DEF SumsUp
      <3>4. s # {}
        BY <1>2, <3>3
      <3>5. PICK t \in SUBSET D : t = s \ {One(s)}
        BY <3>3
      <3>6. One(s) \in s /\ Cardinality(Of(s)) = g[One(s)] + Cardinality(Of(t))
        BY <1>3, <3>3, <3>4, <3>5
      <3>7. t \in Wrong
        BY <3>3, <3>4, <3>5, <3>6
      <3>8. <<t, s>> \in StrictSubsetOrdering(D)
        BY <3>3, <3>5, <3>6 DEF StrictSubsetOrdering
      <3> QED
        BY <3>2, <3>7, <3>8
    <2> QED
      BY <2>1
  <1>6. Of(D) = K
    BY <1>0
  <1> QED
    BY <1>4, <1>5, <1>6

(* What the dashboard sums up of its parts.                                *)
LEMMA PartsShown ==
    ASSUME GatewayInv
    PROVE  /\ Cardinality(W!ErrorMetrics) = W!MapThenSumSet(LAMBDA e :
                W!EndpointMetrics[e].errors, Endpoints)
           /\ Len(calls) = W!MapThenSumSet(LAMBDA e : W!EndpointMetrics[e].requests, Endpoints)
           /\ Len(calls) = W!MapThenSumSet(LAMBDA v : W!VersionMetrics[v], W!Versions)
  <1>1. /\ IsFiniteSet(W!InMemory) /\ Cardinality(W!InMemory) = Len(calls)
        /\ IsFiniteSet(W!ErrorMetrics)
    BY CallsCounted, FS_Subset DEF W!ErrorMetrics
  <1>2. \A c \in W!InMemory : c.path \in Endpoints /\ c.version \in W!Versions
    <2>1. calls \in Seq(GatewayCall)
      BY DEF GatewayInv, Remembered
    <2>2. \A i \in DOMAIN calls : calls[i] \in GatewayCall
      BY <2>1
    <2> QED
      BY <2>2 DEF W!InMemory, GatewayCall
  <1>3. IsFiniteSet(Endpoints) /\ IsFiniteSet(W!Versions)
    <2>1. W!Versions = ((({} \cup {"v1"}) \cup {"v2"}) \cup {"v3"}) \cup {"unknown"}
      BY DEF W!Versions, W!WellFormed
    <2> QED
      BY <2>1, ConstantsAssumption, FS_EmptySet, FS_AddElement
  <1>4. PICK em : em = W!EndpointMetrics
    OBVIOUS
  <1>5. PICK vm : vm = W!VersionMetrics
    OBVIOUS
  <1>6. /\ \A e \in Endpoints : /\ em[e].errors = Cardinality({c \in W!ErrorMetrics : c.path = e})
                                /\ em[e].requests = Cardinality({c \in W!InMemory : c.path = e})
        /\ \A v \in W!Versions : vm[v] = Cardinality({c \in W!InMemory : c.version = v})
    BY <1>4, <1>5, GatewayCardinality DEF W!EndpointMetrics, W!VersionMetrics
  <1>7. Cardinality(W!ErrorMetrics) = W!MapThenSumSet(LAMBDA e : em[e].errors, Endpoints)
    <2>1. PICK K : K = W!ErrorMetrics
      OBVIOUS
    <2>2. PICK f \in [K -> Endpoints] : f = [c \in K |-> c.path]
      BY <1>2, <2>1 DEF W!ErrorMetrics
    <2>3. PICK g : g = [e \in Endpoints |-> em[e].errors]
      OBVIOUS
    <2>4. Counting(g, f, K, Endpoints)
      <3>1. \A e \in Endpoints : {c \in K : f[c] = e} = {c \in K : c.path = e}
        BY <2>2
      <3> QED
        BY <1>6, <2>1, <2>3, <3>1 DEF Counting
    <2>5. /\ \E it : SumsUp(it, g, Endpoints)
          /\ \A it : SumsUp(it, g, Endpoints) => it[Endpoints] = Cardinality(K)
      <3>1. IsFiniteSet(K) /\ IsFiniteSet(Endpoints)
        BY <1>1, <1>3, <2>1
      <3> QED
        BY <2>4, <3>1, PartsSumUp
    <2>6. \A s \in SUBSET Endpoints : s # {} => g[One(s)] = em[One(s)].errors
      BY <2>3 DEF One
    <2>7. \A it : SumsUp(it, g, Endpoints) <=>
              it = [s \in SUBSET Endpoints |-> IF s = {} THEN 0
                ELSE em[One(s)].errors + it[s \ {One(s)}]]
      BY <2>6 DEF SumsUp
    <2>8. PICK it : it = [s \in SUBSET Endpoints |-> IF s = {} THEN 0
                 ELSE em[One(s)].errors + it[s \ {One(s)}]]
      BY <2>5, <2>7
    <2>9. \E i : /\ i = [s \in SUBSET Endpoints |-> IF s = {} THEN 0 ELSE em[One(s)].errors + i[s \ {One(s)}]]
                 /\ W!MapThenSumSet(LAMBDA e : em[e].errors, Endpoints) = i[Endpoints]
      BY <2>8 DEF W!MapThenSumSet, W!MapThenFoldSet, One
    <2> QED
      BY <2>1, <2>5, <2>7, <2>9
  <1>8. Cardinality(W!InMemory) = W!MapThenSumSet(LAMBDA e : em[e].requests, Endpoints)
    <2>1. PICK K : K = W!InMemory
      OBVIOUS
    <2>2. PICK f \in [K -> Endpoints] : f = [c \in K |-> c.path]
      BY <1>2, <2>1
    <2>3. PICK g : g = [e \in Endpoints |-> em[e].requests]
      OBVIOUS
    <2>4. Counting(g, f, K, Endpoints)
      <3>1. \A e \in Endpoints : {c \in K : f[c] = e} = {c \in K : c.path = e}
        BY <2>2
      <3> QED
        BY <1>6, <2>1, <2>3, <3>1 DEF Counting
    <2>5. /\ \E it : SumsUp(it, g, Endpoints)
          /\ \A it : SumsUp(it, g, Endpoints) => it[Endpoints] = Cardinality(K)
      <3>1. IsFiniteSet(K) /\ IsFiniteSet(Endpoints)
        BY <1>1, <1>3, <2>1
      <3> QED
        BY <2>4, <3>1, PartsSumUp
    <2>6. \A s \in SUBSET Endpoints : s # {} => g[One(s)] = em[One(s)].requests
      BY <2>3 DEF One
    <2>7. \A it : SumsUp(it, g, Endpoints) <=>
              it = [s \in SUBSET Endpoints |-> IF s = {} THEN 0
                ELSE em[One(s)].requests + it[s \ {One(s)}]]
      BY <2>6 DEF SumsUp
    <2>8. PICK it : it = [s \in SUBSET Endpoints |-> IF s = {} THEN 0
                 ELSE em[One(s)].requests + it[s \ {One(s)}]]
      BY <2>5, <2>7
    <2>9. \E i : /\ i = [s \in SUBSET Endpoints |-> IF s = {} THEN 0 ELSE em[One(s)].requests + i[s \ {One(s)}]]
                 /\ W!MapThenSumSet(LAMBDA e : em[e].requests, Endpoints) = i[Endpoints]
      BY <2>8 DEF W!MapThenSumSet, W!MapThenFoldSet, One
    <2> QED
      BY <2>1, <2>5, <2>7, <2>9
  <1>9. Cardinality(W!InMemory) = W!MapThenSumSet(LAMBDA v : vm[v], W!Versions)
    <2>1. PICK K : K = W!InMemory
      OBVIOUS
    <2>2. PICK f \in [K -> W!Versions] : f = [c \in K |-> c.version]
      BY <1>2, <2>1
    <2>3. PICK g : g = [v \in W!Versions |-> vm[v]]
      OBVIOUS
    <2>4. Counting(g, f, K, W!Versions)
      <3>1. \A v \in W!Versions : {c \in K : f[c] = v} = {c \in K : c.version = v}
        BY <2>2
      <3> QED
        BY <1>6, <2>1, <2>3, <3>1 DEF Counting
    <2>5. /\ \E it : SumsUp(it, g, W!Versions)
          /\ \A it : SumsUp(it, g, W!Versions) => it[W!Versions] = Cardinality(K)
      <3>1. IsFiniteSet(K) /\ IsFiniteSet(W!Versions)
        BY <1>1, <1>3, <2>1
      <3> QED
        BY <2>4, <3>1, PartsSumUp
    <2>6. \A s \in SUBSET W!Versions : s # {} => g[One(s)] = vm[One(s)]
      BY <2>3 DEF One
    <2>7. \A it : SumsUp(it, g, W!Versions) <=>
              it = [s \in SUBSET W!Versions |-> IF s = {} THEN 0 ELSE vm[One(s)] + it[s \ {One(s)}]]
      BY <2>6 DEF SumsUp
    <2>8. PICK it : it = [s \in SUBSET W!Versions |-> IF s = {} THEN 0
                 ELSE vm[One(s)] + it[s \ {One(s)}]]
      BY <2>5, <2>7
    <2>9. \E i : /\ i = [s \in SUBSET W!Versions |-> IF s = {} THEN 0 ELSE vm[One(s)] + i[s \ {One(s)}]]
                 /\ W!MapThenSumSet(LAMBDA v : vm[v], W!Versions) = i[W!Versions]
      BY <2>8 DEF W!MapThenSumSet, W!MapThenFoldSet, One
    <2> QED
      BY <2>1, <2>5, <2>7, <2>9
  <1> QED
    BY <1>1, <1>4, <1>5, <1>7, <1>8, <1>9

LEMMA GatewayPromises ==
    ASSUME GatewayInv
    PROVE  W!TypeOK /\ W!ErrorsAgree /\ W!VersionsFixed
  <1>1. W!VersionsFixed
    BY DEF GatewayInv
  <1>2. W!TypeOK
    BY <1>1 DEF GatewayInv, Shown, W!TypeOK, W!VersionsFixed, W!WellFormed
  <1>3. \A i \in 1..Len(calls) : calls[i] \in GatewayCall /\ calls \in Seq(GatewayCall)
          /\ DOMAIN calls = 1..Len(calls)
    BY LenProperties, ElementOfSeq DEF GatewayInv, Remembered
  <1>4. \A c \in W!InMemory : c.status \in {200, 201} /\ c.failed \in BOOLEAN
    <2>1. DOMAIN calls = 1..Len(calls)
      BY LenProperties DEF GatewayInv, Remembered
    <2> QED
      BY <1>3, <2>1 DEF W!InMemory, GatewayCall
  <1>5. ASSUME NEW c \in W!InMemory
        PROVE  c.failed <=> \E a \in answered : a.id = c.id /\ a.status >= 400
    <2>1. PICK i \in DOMAIN calls : c = calls[i]
      BY DEF W!InMemory
    <2>2. i \in 1..Len(calls)
      BY LenProperties DEF GatewayInv, Remembered
    <2>3. PICK a \in answered : a.id = c.id /\ a.status = W!Answer(c.failed)
      BY <2>1, <2>2 DEF GatewayInv, Remembered
    <2>4. \A b \in answered : b.id = c.id => b = a
      BY <2>3 DEF GatewayInv, Answers
    <2>5. a.status >= 400 <=> c.failed
      BY <1>4, <2>3 DEF W!Answer
    <2> QED
      BY <2>3, <2>4, <2>5
  <1>6. W!ErrorMetrics = {c \in W!InMemory : \E a \in answered : a.id = c.id /\ a.status >= 400}
    <2>1. \A c \in W!InMemory : ~ (c.status >= 400)
      BY <1>4
    <2> QED
      BY <1>5, <2>1 DEF W!ErrorMetrics
  <1>7. \A c \in W!InMemory : c.status < 400
    BY <1>4
  <1>8. board.failed <= board.recent /\ board.recent <= board.total
    BY DEF GatewayInv, Shown
  <1>9. W!ErrorsAgree
    BY <1>6, <1>7, <1>8, PartsShown, GatewayCardinality DEF W!ErrorsAgree
  <1> QED
    BY <1>1, <1>2, <1>9

(* A snapshot's time and the calls it saw.                                 *)
Snapshot == [at : Nat, seen : SUBSET Nat]

(* Of this tick, or of the last while this one's snapshot is yet to come.  *)
Current(k, t, d) == k = t \/ (k + 1 = t /\ "snapshot" \in d)

(* A snapshot of its tick or of the next saw the call, or it was lost, or  *)
(* it is in memory for the next snapshot to see.                           *)
Reported(a, ss, cs, ls, t, d) ==
    \/ \E s \in ss : s.at \in {a.at, a.at + 1} /\ a.id \in s.seen
    \/ \E l \in ls : l.id = a.id
    \/ Current(a.at, t, d) /\ \E c \in cs : c.id = a.id

(* What snapshots ss, the calls cs in memory and the losses ls know of the *)
(* answers as, at tick t with the timers d yet to run.                     *)
Covers(ss, cs, as, ls, t, d) ==
    /\ t \in Nat /\ ss \subseteq Snapshot
    /\ \A s \in ss : s.at <= t /\ \A n \in s.seen : \E a \in as : a.id = n
    /\ \A a \in as : a.at \in 0..t
    /\ \A s \in ss, a \in as : a.id \in s.seen => a.at <= s.at
    /\ \A l \in ls : l.dropped <= l.at + 1
    /\ "snapshot" \in d => \A s \in ss : s.at < t
    /\ \A c \in cs : c.id \in Nat /\ c.at \in Nat /\ \E a \in as : a.id = c.id
    /\ \A c \in cs : Current(c.at, t, d) \/ \E s \in ss : c.id \in s.seen /\ Current(s.at, t, d)
    /\ \A a \in as : a.at + Kept >= t => Reported(a, ss, cs, ls, t, d)

Unseen(ss, cs) == {c \in cs : \A s \in ss : c.id \notin s.seen}

LEMMA CoversDrop ==
    ASSUME NEW ss, NEW cs, NEW as, NEW ls, NEW t, NEW d, Covers(ss, cs, as, ls, t, d),
           NEW gone \in SUBSET cs, NEW kept \in SUBSET cs, \A c \in cs : c \in gone \/ c \in kept,
           NEW ls2,
           ls2 = ls \cup {[id |-> c.id, at |-> c.at, dropped |-> t] : c \in Unseen(ss, gone)}
    PROVE  Covers(ss, kept, as, ls2, t, d)
  <1>1. ASSUME NEW l \in ls2
        PROVE  l.dropped <= l.at + 1
    <2>1. CASE l \in ls
      BY <2>1 DEF Covers
    <2>2. CASE l \notin ls
      <3>1. PICK c \in cs : /\ l = [id |-> c.id, at |-> c.at, dropped |-> t]
                            /\ \A s \in ss : c.id \notin s.seen
        BY <1>1, <2>2 DEF Unseen
      <3>2. c.at \in Nat /\ t \in Nat /\ Current(c.at, t, d)
        BY <3>1 DEF Covers
      <3> QED
        BY <3>1, <3>2 DEF Current
    <2> QED
      BY <2>1, <2>2
  <1>2. ASSUME NEW a \in as, a.at + Kept >= t
        PROVE  Reported(a, ss, kept, ls2, t, d)
    <2>1. Reported(a, ss, cs, ls, t, d)
      BY <1>2 DEF Covers
    <2>2. CASE \E s \in ss : s.at \in {a.at, a.at + 1} /\ a.id \in s.seen
      BY <2>2 DEF Reported
    <2>3. CASE \E l \in ls : l.id = a.id
      BY <2>3 DEF Reported
    <2>4. CASE Current(a.at, t, d) /\ \E c \in cs : c.id = a.id
      <3>1. PICK c \in cs : c.id = a.id
        BY <2>4
      <3>2. CASE c \in kept
        BY <2>4, <3>1, <3>2 DEF Reported
      <3>3. CASE c \in gone /\ \A s \in ss : c.id \notin s.seen
        <4>1. PICK l : l = [id |-> c.id, at |-> c.at, dropped |-> t]
          OBVIOUS
        <4>2. l \in ls2 /\ l.id = a.id
          BY <3>1, <3>3, <4>1 DEF Unseen
        <4> QED
          BY <4>2 DEF Reported
      <3>4. CASE \E s \in ss : c.id \in s.seen
        <4>1. PICK s \in ss : a.id \in s.seen
          BY <3>1, <3>4
        <4>2. /\ a.at \in 0..t /\ s \in Snapshot /\ t \in Nat
              /\ a.at <= s.at /\ s.at <= t
          BY <4>1 DEF Covers
        <4>3. s.at \in {a.at, a.at + 1}
          BY <2>4, <4>2 DEF Current, Snapshot
        <4> QED
          BY <4>1, <4>3 DEF Reported
      <3> QED
        BY <3>2, <3>3, <3>4
    <2> QED
      BY <2>1, <2>2, <2>3, <2>4 DEF Reported
  <1> QED
    BY <1>1, <1>2 DEF Covers

LEMMA CoversCall ==
    ASSUME NEW ss, NEW cs, NEW as, NEW ls, NEW t, NEW d, Covers(ss, cs, as, ls, t, d),
           NEW a, a.at = t, \A b \in as : b.id # a.id,
           NEW c, c.id = a.id, c.id \in Nat, c.at = t
    PROVE  Covers(ss, cs \cup {c}, as \cup {a}, ls, t, d)
  <1>1. t \in Nat /\ Current(t, t, d)
    BY DEF Covers, Current
  <1>2. \A s \in ss : a.id \notin s.seen
    BY DEF Covers
  <1>3. ASSUME NEW b \in as \cup {a}, b.at + Kept >= t
        PROVE  Reported(b, ss, cs \cup {c}, ls, t, d)
    <2>1. CASE b = a
      BY <1>1, <2>1 DEF Reported
    <2>2. CASE b \in as
      BY <1>3, <2>2 DEF Covers, Reported
    <2> QED
      BY <2>1, <2>2
  <1>4. \A b \in as \cup {a} : b.at \in 0..t
    <2>1. \A b \in as : b.at \in 0..t
      BY DEF Covers
    <2>2. a.at \in 0..t
      BY <1>1
    <2> QED
      BY <2>1, <2>2, Zenon
  <1>5. \A x \in cs \cup {c} : /\ x.id \in Nat /\ x.at \in Nat
                               /\ \E b \in as \cup {a} : b.id = x.id
    BY <1>1 DEF Covers
  <1>6. \A x \in cs \cup {c} : \/ Current(x.at, t, d)
                               \/ \E s \in ss : x.id \in s.seen /\ Current(s.at, t, d)
    BY <1>1 DEF Covers
  <1>7. /\ t \in Nat /\ ss \subseteq Snapshot
        /\ \A s \in ss : s.at <= t /\ \A n \in s.seen : \E b \in as \cup {a} : b.id = n
        /\ \A l \in ls : l.dropped <= l.at + 1
    BY DEF Covers
  <1>8. \A s \in ss, b \in as \cup {a} : b.id \in s.seen => b.at <= s.at
    BY <1>2 DEF Covers
  <1> QED
    BY <1>3, <1>4, <1>5, <1>6, <1>7, <1>8 DEF Covers

LEMMA CoversSnapshot ==
    ASSUME NEW ss, NEW cs, NEW as, NEW ls, NEW t, NEW d, Covers(ss, cs, as, ls, t, d),
           NEW s, s = [at |-> t, seen |-> {c.id : c \in cs}]
    PROVE  Covers(ss \cup {s}, cs, as, ls, t, d \ {"snapshot"})
  <1> DEFINE d2 == d \ {"snapshot"}
  <1>1. /\ t \in Nat /\ ss \subseteq Snapshot /\ Current(t, t, d2)
        /\ \A x \in ss : x.at <= t /\ \A n \in x.seen : \E a \in as : a.id = n
        /\ \A a \in as : a.at \in 0..t
        /\ \A x \in ss, a \in as : a.id \in x.seen => a.at <= x.at
        /\ \A l \in ls : l.dropped <= l.at + 1
        /\ \A c \in cs : c.id \in Nat /\ c.at \in Nat /\ \E a \in as : a.id = c.id
    BY DEF Covers, Current
  <1>2. s.at = t /\ s \in Snapshot /\ s.seen = {c.id : c \in cs}
    <2>1. {c.id : c \in cs} \in SUBSET Nat
      BY <1>1
    <2> QED
      BY <1>1, <2>1 DEF Snapshot
  <1>3. ASSUME NEW n \in s.seen
        PROVE  \E a \in as : a.id = n
    <2>1. PICK c \in cs : n = c.id
      BY <1>2
    <2> QED
      BY <1>1, <2>1
  <1>4. ASSUME NEW a \in as, a.at + Kept >= t
        PROVE  Reported(a, ss \cup {s}, cs, ls, t, d2)
    <2>1. Reported(a, ss, cs, ls, t, d)
      BY <1>4 DEF Covers
    <2>2. CASE Current(a.at, t, d) /\ \E c \in cs : c.id = a.id
      <3>1. a.id \in s.seen
        BY <1>2, <2>2
      <3>2. s.at \in {a.at, a.at + 1}
        BY <1>1, <1>2, <2>2 DEF Current
      <3> QED
        BY <3>1, <3>2 DEF Reported
    <2> QED
      BY <2>1, <2>2 DEF Reported
  <1>5. \A c \in cs : \E x \in ss \cup {s} : c.id \in x.seen /\ Current(x.at, t, d2)
    <2>1. \A c \in cs : c.id \in s.seen /\ Current(s.at, t, d2)
      BY <1>1, <1>2
    <2> QED
      BY <2>1
  <1>6. \A x \in ss \cup {s}, a \in as : a.id \in x.seen => a.at <= x.at
    <2>1. ASSUME NEW a \in as
          PROVE  a.at <= s.at
      <3>1. a.at \in 0..t /\ t \in Nat /\ s.at = t
        BY <1>1, <1>2
      <3> QED
        BY <3>1
    <2> QED
      BY <1>1, <2>1
  <1>7. \A x \in ss \cup {s} : x.at <= t /\ \A n \in x.seen : \E a \in as : a.id = n
    <2>1. s.at <= t
      BY <1>1, <1>2
    <2> QED
      BY <1>1, <1>3, <2>1
  <1> HIDE DEF d2
  <1> QED
    BY <1>1, <1>2, <1>4, <1>5, <1>6, <1>7 DEF Covers, d2

LEMMA CoversOld ==
    ASSUME NEW ss, NEW cs, NEW as, NEW ls, NEW t, NEW d, Covers(ss, cs, as, ls, t, d),
           NEW ss2, ss2 = {s \in ss : s.at + Kept >= t}
    PROVE  Covers(ss2, cs, as, ls, t, d)
  <1>1. Kept \in Nat /\ Kept >= 1
    BY ConstantsAssumption
  <1>2. t \in Nat /\ \A s \in ss : s.at \in Nat
    BY DEF Covers, Snapshot
  <1>3. ASSUME NEW s \in ss, Current(s.at, t, d)
        PROVE  s \in ss2
    BY <1>1, <1>2, <1>3 DEF Current
  <1>4. ASSUME NEW a \in as, a.at + Kept >= t
        PROVE  Reported(a, ss2, cs, ls, t, d)
    <2>1. Reported(a, ss, cs, ls, t, d) /\ a.at \in 0..t
      BY <1>4 DEF Covers
    <2>2. ASSUME NEW s \in ss, s.at \in {a.at, a.at + 1}
          PROVE  s \in ss2
      BY <1>1, <1>2, <1>4, <2>1, <2>2
    <2> QED
      BY <2>1, <2>2 DEF Reported
  <1>5. \A c \in cs : \/ Current(c.at, t, d)
                      \/ \E s \in ss2 : c.id \in s.seen /\ Current(s.at, t, d)
    BY <1>3 DEF Covers
  <1> QED
    BY <1>4, <1>5 DEF Covers

LEMMA CoversTick ==
    ASSUME NEW ss, NEW cs, NEW as, NEW ls, NEW t, NEW d, Covers(ss, cs, as, ls, t, d),
           "snapshot" \notin d, NEW d2, "snapshot" \in d2
    PROVE  Covers(ss, cs, as, ls, t + 1, d2)
  <1>1. Kept \in Nat
    BY ConstantsAssumption
  <1>2. t \in Nat /\ t + 1 \in Nat /\ ss \subseteq Snapshot
    BY DEF Covers
  <1>3. \A k : Current(k, t, d) => Current(k, t + 1, d2)
    BY <1>2 DEF Current
  <1>4. \A a \in as : a.at \in 0..t /\ a.at \in 0..(t + 1) /\ (a.at + Kept >= t + 1 => a.at + Kept >= t)
    <2> TAKE a \in as
    <2>1. PICK k \in 0..t : k = a.at
      BY DEF Covers
    <2>2. k \in 0..(t + 1) /\ (k + Kept >= t + 1 => k + Kept >= t)
      BY <1>1, <1>2
    <2> QED
      BY <2>1, <2>2
  <1>5. \A a \in as : a.at + Kept >= t + 1 => Reported(a, ss, cs, ls, t + 1, d2)
    <2>1. ASSUME NEW a \in as, a.at + Kept >= t + 1
          PROVE  Reported(a, ss, cs, ls, t, d)
      <3>1. a.at + Kept >= t
        BY <1>4, <2>1
      <3> QED
        BY <3>1 DEF Covers
    <2> QED
      BY <1>3, <2>1 DEF Reported
  <1>6. \A s \in ss : s.at <= t + 1 /\ s.at < t + 1
    <2>1. \A s \in ss : s \in Snapshot /\ s.at <= t
      BY DEF Covers
    <2> QED
      BY <1>2, <2>1 DEF Snapshot
  <1> QED
    BY <1>2, <1>3, <1>4, <1>5, <1>6 DEF Covers

(* Another timer runs.                                                     *)
LEMMA CoversDue ==
    ASSUME NEW ss, NEW cs, NEW as, NEW ls, NEW t, NEW d, Covers(ss, cs, as, ls, t, d),
           NEW d2, "snapshot" \in d2 <=> "snapshot" \in d
    PROVE  Covers(ss, cs, as, ls, t, d2)
  <1>1. \A k : Current(k, t, d) <=> Current(k, t, d2)
    BY DEF Current
  <1> QED
    BY <1>1 DEF Covers, Reported

Taken == Range(snapshots)

CoverInv == /\ snapshots \in Seq(Snapshot)
            /\ Covers(Taken, W!InMemory, answered, lost, clock, due)

LEMMA CoverInit ==
    ASSUME W!Rest
    PROVE  CoverInv
  <1>1. PICK s : s = [at |-> 0, seen |-> {}]
    OBVIOUS
  <1>2. s \in Snapshot /\ s.at = 0 /\ s.seen = {}
    BY <1>1 DEF Snapshot
  <1>3. /\ snapshots = <<s>> /\ calls = <<>> /\ answered = {} /\ lost = {} /\ clock = 0 /\ due = {}
    BY <1>1 DEF W!Rest
  <1>4. snapshots \in Seq(Snapshot) /\ DOMAIN snapshots = {1} /\ snapshots[1] = s
    BY <1>2, <1>3
  <1>5. Taken = {s}
    BY <1>4 DEF Taken, Range
  <1>6. W!InMemory = {}
    BY <1>3 DEF W!InMemory
  <1>7. Covers({s}, {}, {}, {}, 0, {})
    BY <1>2 DEF Covers
  <1> QED
    BY <1>3, <1>4, <1>5, <1>6, <1>7 DEF CoverInv

LEMMA CoverStands ==
    ASSUME CoverInv, UNCHANGED <<calls, snapshots, answered, lost, clock, due>>
    PROVE  CoverInv'
  BY DEF CoverInv, Taken, W!InMemory

LEMMA UncountedUnseen ==
    ASSUME NEW Z
    PROVE  W!Uncounted(Z) = Unseen(Taken, Z)
  BY DEF W!Uncounted, Unseen, Taken, Range

(* What k holds, which is s and e, and what without its first.             *)
Rolled(k, s, e) ==
    /\ Head(k) \in Range(s) \cup {e}
    /\ Range(k) = Range(s) \cup {e}
    /\ Range(Tail(k)) \subseteq Range(s) \cup {e}
    /\ \A x \in Range(s) \cup {e} : x = Head(k) \/ x \in Range(Tail(k))

LEMMA AppendRolled ==
    ASSUME NEW Z, NEW s \in Seq(Z), NEW e \in Z, NEW k, k = Append(s, e)
    PROVE  Rolled(k, s, e)
  <1>1. PICK n \in Nat : n = Len(s) /\ DOMAIN s = 1..n
    BY LenProperties
  <1>2. /\ k \in Seq(Z) /\ k # <<>> /\ Len(k) = n + 1 /\ DOMAIN k = 1..(n + 1)
        /\ \A i \in 1..n : k[i] = s[i]
        /\ k[n + 1] = e
    BY <1>1, AppendProperties, LenProperties
  <1>3. \A i \in 1..(n + 1) : k[i] \in Range(s) \cup {e}
    BY <1>1, <1>2 DEF Range
  <1>4. \A x \in Range(s) \cup {e} : \E i \in 1..(n + 1) : x = k[i]
    <2>1. ASSUME NEW x \in Range(s)
          PROVE  \E i \in 1..(n + 1) : x = k[i]
      <3>1. PICK i \in 1..n : x = s[i]
        BY <1>1 DEF Range
      <3>2. i \in 1..(n + 1)
        BY <3>1
      <3> QED
        BY <1>2, <3>1, <3>2
    <2>2. n + 1 \in 1..(n + 1)
      OBVIOUS
    <2> QED
      BY <1>2, <2>1, <2>2
  <1>5. PICK u : u = Tail(k)
    OBVIOUS
  <1>6. u \in Seq(Z) /\ Len(u) = n /\ DOMAIN u = 1..n /\ \A i \in 1..n : u[i] = k[i + 1]
    BY <1>2, <1>5, HeadTailProperties, LenProperties
  <1>7. Head(k) = k[1] /\ 1 \in 1..(n + 1)
    BY <1>2
  <1>8. \A i \in 1..n : i + 1 \in 1..(n + 1)
    OBVIOUS
  <1>9. Range(u) \subseteq Range(s) \cup {e}
    <2>1. \A i \in 1..n : u[i] \in Range(s) \cup {e}
      BY <1>3, <1>6, <1>8
    <2>2. Range(u) = {u[i] : i \in 1..n}
      BY <1>6 DEF Range
    <2> QED
      BY <2>1, <2>2
  <1>10. ASSUME NEW x \in Range(s) \cup {e}
         PROVE  x = Head(k) \/ x \in Range(u)
    <2>1. PICK i \in 1..(n + 1) : x = k[i]
      BY <1>4
    <2>2. CASE i = 1
      BY <1>7, <2>1, <2>2
    <2>3. CASE i # 1
      <3>1. i - 1 \in 1..n /\ (i - 1) + 1 = i
        BY <2>3
      <3> QED
        BY <1>6, <2>1, <3>1 DEF Range
    <2> QED
      BY <2>2, <2>3
  <1>11. Range(k) = Range(s) \cup {e}
    <2>1. Range(k) = {k[i] : i \in 1..(n + 1)}
      BY <1>2 DEF Range
    <2>2. PICK held : held = Range(s) \cup {e}
      OBVIOUS
    <2>3. \A i \in 1..(n + 1) : k[i] \in held
      BY <1>3, <2>2
    <2>4. \A x \in held : \E i \in 1..(n + 1) : x = k[i]
      BY <1>4, <2>2
    <2>5. {k[i] : i \in 1..(n + 1)} = held
      BY <2>3, <2>4
    <2> QED
      BY <2>1, <2>2, <2>5
  <1>12. Head(k) \in Range(s) \cup {e}
    BY <1>3, <1>7
  <1> QED
    BY <1>5, <1>9, <1>10, <1>11, <1>12 DEF Rolled

LEMMA CoverDone ==
    ASSUME GatewayInv, CoverInv, NEW id \in Nat, \A a \in answered : a.id # id,
           NEW endpoint \in Endpoints, NEW v \in W!Versions, NEW failed \in BOOLEAN,
           W!Done(id, endpoint, v, failed), UNCHANGED <<snapshots, clock, due>>
    PROVE  CoverInv'
  <1>1. CASE endpoint \in W!Excluded
    BY <1>1, CoverStands DEF W!Done
  <1>2. CASE endpoint \notin W!Excluded
    <2>1. PICK c : c = W!trackMetric(id, endpoint, v, failed)
      OBVIOUS
    <2>2. PICK a : a = [id |-> id, at |-> clock, status |-> W!Answer(failed)]
      OBVIOUS
    <2>3. answered' = answered \cup {a} /\ W!addMetric(c)
      BY <1>2, <2>1, <2>2 DEF W!Done
    <2>4. clock \in Nat
      BY GatewayBounds DEF GatewayInv
    <2>5. c \in GatewayCall /\ c.id = id /\ c.at = clock
      BY <2>1, <2>4 DEF W!trackMetric, GatewayCall
    <2>6. a.id = id /\ a.at = clock
      BY <2>2
    <2>7. PICK cs : cs = W!InMemory
      OBVIOUS
    <2>8. PICK k : k = Append(calls, c)
      OBVIOUS
    <2>9. calls \in Seq(GatewayCall) /\ cs = Range(calls)
      BY <2>7 DEF GatewayInv, Remembered, W!InMemory, Range
    <2>10. /\ Head(k) \in cs \cup {c}
           /\ Range(k) = cs \cup {c}
           /\ Range(Tail(k)) \subseteq cs \cup {c}
           /\ \A x \in cs \cup {c} : x = Head(k) \/ x \in Range(Tail(k))
      <3>1. PICK s : s = calls
        OBVIOUS
      <3>2. PICK Z : Z = GatewayCall
        OBVIOUS
      <3>3. s \in Seq(Z) /\ c \in Z /\ k = Append(s, c) /\ cs = Range(s)
        BY <2>5, <2>8, <2>9, <3>1, <3>2
      <3>4. Rolled(k, s, c)
        BY <3>3, AppendRolled
      <3> QED
        BY <3>3, <3>4 DEF Rolled
    <2>11. PICK cs2 : cs2 = W!InMemory'
      OBVIOUS
    <2>12. Covers(Taken, cs, answered, lost, clock, due)
      BY <2>7 DEF CoverInv
    <2>13. Covers(Taken, cs \cup {c}, answered \cup {a}, lost, clock, due)
      BY <2>5, <2>6, <2>12, CoversCall
    <2>14. Covers(Taken, cs2, answered', lost', clock, due)
      <3>1. CASE Len(k) > maxMetrics
        <4>1. calls' = Tail(k) /\ W!Losing({Head(k)})
          BY <2>3, <2>8, <3>1 DEF W!addMetric
        <4>2. cs2 = Range(Tail(k))
          BY <2>11, <4>1 DEF W!InMemory, Range
        <4>3. PICK gone : gone = {Head(k)}
          OBVIOUS
        <4>4. PICK ls2 : ls2 = lost'
          OBVIOUS
        <4>5. ls2 = lost \cup {[id |-> x.id, at |-> x.at, dropped |-> clock] :
                x \in Unseen(Taken, gone)}
          BY <4>1, <4>3, <4>4, UncountedUnseen DEF W!Losing
        <4>6. /\ gone \subseteq cs \cup {c} /\ cs2 \subseteq cs \cup {c}
              /\ \A x \in cs \cup {c} : x \in gone \/ x \in cs2
          BY <2>10, <4>2, <4>3
        <4>7. Covers(Taken, cs2, answered \cup {a}, ls2, clock, due)
          BY <2>13, <4>5, <4>6, CoversDrop
        <4> QED
          BY <2>3, <4>4, <4>7
      <3>2. CASE ~ (Len(k) > maxMetrics)
        <4>1. calls' = k /\ lost' = lost
          BY <2>3, <2>8, <3>2 DEF W!addMetric
        <4>2. cs2 = cs \cup {c}
          BY <2>10, <2>11, <4>1 DEF W!InMemory, Range
        <4> QED
          BY <2>3, <2>13, <4>1, <4>2
      <3> QED
        BY <3>1, <3>2
    <2>15. Taken' = Taken /\ snapshots' \in Seq(Snapshot)
      BY DEF CoverInv, Taken
    <2> QED
      BY <2>11, <2>14, <2>15 DEF CoverInv
  <1> QED
    BY <1>1, <1>2

(* What remains of rows are those kept, and all of them.                   *)
LEMMA PicksKeep ==
    ASSUME NEW Z, NEW t \in Seq(Z), NEW kept \in SUBSET (1..Len(t)),
           NEW f, Picks(f, t, kept, Len(t))
    PROVE  f[Len(t)] \in Seq(Z) /\ Range(f[Len(t)]) = {t[i] : i \in kept}
  <1>1. Len(t) \in Nat
    BY LenProperties
  <1> DEFINE Upto(s, n) == s \in Seq(Z) /\ Range(s) = {t[i] : i \in {k \in kept : k <= n}}
             Wrong == {n \in 0..Len(t) : ~ Upto(f[n], n)}
  <1>2. \A n \in 0..Len(t) : f[n] = IF n = 0 THEN <<>>
                                    ELSE IF n \in kept THEN Append(f[n - 1], t[n])
                                    ELSE f[n - 1]
    BY DEF Picks
  <1>3. Wrong = {}
    <2>1. SUFFICES ASSUME Wrong # {}
                   PROVE  FALSE
      OBVIOUS
    <2>2. PICK n \in Wrong : \A k \in Wrong : n <= k
      <3>1. Wrong \in SUBSET Nat
        BY <1>1
      <3> HIDE DEF Wrong
      <3> QED
        BY <2>1, <3>1, LeastExists
    <2>3. n \in 0..Len(t) /\ ~ Upto(f[n], n)
      BY <2>2
    <2>4. n # 0
      <3>1. n = 0 => f[n] = <<>>
        BY <1>2, <2>3
      <3>2. {k \in kept : k <= 0} = {}
        <4>1. ASSUME NEW k \in kept
              PROVE  ~ (k <= 0)
          <5>1. k \in 1..Len(t)
            OBVIOUS
          <5> QED
            BY <1>1, <5>1
        <4> QED
          BY <4>1
      <3>3. <<>> \in Seq(Z) /\ DOMAIN (<<>>) = {}
        OBVIOUS
      <3>4. Upto(<<>>, 0)
        BY <3>2, <3>3 DEF Range
      <3> QED
        BY <2>3, <3>1, <3>4
    <2>5. PICK m \in 0..Len(t) : m = n - 1
      BY <1>1, <2>3, <2>4
    <2>6. PICK s : s = f[m]
      OBVIOUS
    <2>7. s \in Seq(Z) /\ Range(s) = {t[i] : i \in {k \in kept : k <= m}}
      <3>1. ~ (n <= m)
        BY <1>1, <2>3, <2>5
      <3>2. m \notin Wrong
        <4> HIDE DEF Wrong
        <4> QED
          BY <2>2, <3>1
      <3>3. Upto(f[m], m)
        BY <3>2
      <3> QED
        BY <2>6, <3>3
    <2>8. n \in 1..Len(t) /\ m = n - 1 /\ \A k \in kept : k <= n <=> k <= m \/ k = n
      <3>1. n \in Nat /\ m \in Nat /\ n \in 1..Len(t) /\ m = n - 1
        BY <1>1, <2>3, <2>4, <2>5
      <3>2. ASSUME NEW k \in kept
            PROVE  k <= n <=> k <= m \/ k = n
        <4>1. k \in 1..Len(t)
          OBVIOUS
        <4>2. k \in Nat
          BY <4>1
        <4> QED
          BY <3>1, <4>2
      <3> QED
        BY <3>1, <3>2
    <2>9. CASE n \notin kept
      <3>1. f[n] = s
        BY <1>2, <2>3, <2>4, <2>5, <2>6, <2>9
      <3>2. {k \in kept : k <= n} = {k \in kept : k <= m}
        BY <2>8, <2>9
      <3> QED
        BY <2>3, <2>7, <3>1, <3>2
    <2>10. CASE n \in kept
      <3>1. PICK k : k = Append(s, t[n])
        OBVIOUS
      <3>2. f[n] = k
        BY <1>2, <2>3, <2>4, <2>5, <2>6, <2>10, <3>1
      <3>3. t[n] \in Z
        BY <2>8, ElementOfSeq
      <3>4. Rolled(k, s, t[n]) /\ k \in Seq(Z)
        BY <2>7, <3>1, <3>3, AppendRolled, AppendProperties
      <3>5. Range(k) = Range(s) \cup {t[n]}
        BY <3>4 DEF Rolled
      <3>6. {t[i] : i \in {j \in kept : j <= n}} = {t[i] : i \in {j \in kept : j <= m}} \cup {t[n]}
        <4>1. {j \in kept : j <= n} = {j \in kept : j <= m} \cup {n}
          BY <2>8, <2>10
        <4> QED
          BY <4>1
      <3> QED
        BY <2>3, <2>7, <3>2, <3>4, <3>5, <3>6
    <2> QED
      BY <2>9, <2>10
  <1>4. Len(t) \in 0..Len(t)
    BY <1>1
  <1>5. Upto(f[Len(t)], Len(t))
    <2>1. Len(t) \notin Wrong
      <3> HIDE DEF Wrong
      <3> QED
        BY <1>3
    <2> QED
      BY <1>4, <2>1
  <1>6. {k \in kept : k <= Len(t)} = kept
    <2>1. ASSUME NEW k \in kept
          PROVE  k <= Len(t)
      <3>1. k \in 1..Len(t)
        OBVIOUS
      <3> QED
        BY <1>1, <3>1
    <2> QED
      BY <2>1
  <1> QED
    BY <1>5, <1>6

LEMMA OldRemoved ==
    ASSUME GatewayInv, CoverInv, W!cleanupOldData
    PROVE  CoverInv'
  <1>1. PICK s : s = snapshots
    OBVIOUS
  <1>2. PICK kept : kept = {i \in DOMAIN snapshots : snapshots[i].at + Kept >= clock}
    OBVIOUS
  <1>3. s \in Seq(Snapshot) /\ Len(s) \in Nat /\ DOMAIN s = 1..Len(s)
    BY <1>1, LenProperties DEF CoverInv
  <1>4. kept \in SUBSET (1..Len(s))
    <2>1. kept \subseteq DOMAIN s
      BY <1>1, <1>2
    <2> QED
      BY <1>3, <2>1
  <1>5. PICK n \in Nat : n = Len(s)
    BY <1>3, Zenon
  <1>6. PICK f : f = CHOOSE g : Picks(g, s, kept, n)
    OBVIOUS
  <1>7. Picks(f, s, kept, n)
    BY <1>6, PicksExist
  <1>8. W!Remaining(s, kept) = f[n]
    BY <1>5, <1>6 DEF W!Remaining, Picks
  <1>9. f[n] \in Seq(Snapshot) /\ Range(f[n]) = {s[i] : i \in kept}
    BY <1>3, <1>4, <1>5, <1>7, PicksKeep
  <1>10. snapshots' = f[n]
    BY <1>1, <1>2, <1>8 DEF W!cleanupOldData
  <1>11. PICK ss2 : ss2 = {x \in Taken : x.at + Kept >= clock}
    OBVIOUS
  <1>12. Taken' = ss2
    <2>1. Taken' = {s[i] : i \in kept} /\ Taken = {s[i] : i \in DOMAIN s}
      BY <1>1, <1>9, <1>10 DEF Taken, Range
    <2>2. kept = {i \in DOMAIN s : s[i].at + Kept >= clock}
      BY <1>1, <1>2
    <2>3. \A i \in kept : s[i] \in ss2
      BY <1>11, <2>1, <2>2
    <2>4. \A x \in ss2 : \E i \in kept : x = s[i]
      BY <1>11, <2>1, <2>2
    <2>5. {s[i] : i \in kept} = ss2
      BY <2>3, <2>4
    <2> QED
      BY <2>1, <2>5
  <1>13. Covers(ss2, W!InMemory, answered, lost, clock, due)
    BY <1>11, CoversOld DEF CoverInv
  <1>14. /\ UNCHANGED <<calls, answered, lost, clock>>
         /\ due' = due \ {"old"}
    BY DEF W!cleanupOldData
  <1>15. PICK d2 : d2 = due'
    OBVIOUS
  <1>16. Covers(ss2, W!InMemory, answered, lost, clock, d2)
    BY <1>13, <1>14, <1>15, CoversDue
  <1>17. W!InMemory' = W!InMemory
    BY <1>14 DEF W!InMemory
  <1> QED
    BY <1>9, <1>10, <1>12, <1>14, <1>15, <1>16, <1>17 DEF CoverInv

LEMMA CoverStep ==
    ASSUME GatewayInv, CoverInv, W!Next
    PROVE  CoverInv'
  <1>1. CASE \E p \in Procs : W!refuse(p)
    BY <1>1, CoverStands DEF W!refuse, W!monitors
  <1>2. ASSUME NEW p \in Procs, NEW endpoint \in Endpoints, NEW given \in Given,
               NEW header \in W!Read(endpoint), W!handle(p, endpoint, header, given)
        PROVE  CoverInv'
    <2>1. PICK v : v = IF endpoint \in W!Neutral THEN "unknown" ELSE W!extractVersion(header)
      OBVIOUS
    <2>2. v \in W!Versions
      BY <2>1
      DEF W!extractVersion, W!normalizeVersion, W!Versions, W!WellFormed,
          W!Default
    <2>3. PICK taken \in BOOLEAN : taken = W!Accepted(endpoint, given)
      BY DEF W!Accepted, W!VersionAccepted, W!Known, W!isSupported
    <2>4. UNCHANGED <<snapshots, clock, due>>
      BY <1>2 DEF W!handle
    <2>5. CASE taken /\ endpoint \notin W!Neutral
      <3>1. UNCHANGED <<calls, lost, answered>>
        BY <1>2, <2>3, <2>5 DEF W!handle
      <3> QED
        BY <2>4, <3>1, CoverStands
    <2>6. CASE ~ (taken /\ endpoint \notin W!Neutral)
      <3>1. W!Request(p, "idle", W!NoRun) /\ W!Done(requests', endpoint, v, ~taken)
        BY <1>2, <2>1, <2>3, <2>6 DEF W!handle
      <3>2. PICK n : n = requests + 1
        OBVIOUS
      <3>3. W!Done(n, endpoint, v, ~taken)
        BY <3>1, <3>2 DEF W!Request, W!Done, W!trackMetric
      <3>4. n \in Nat /\ \A a \in answered : a.id # n
        BY <3>2 DEF GatewayInv, Answers
      <3> QED
        BY <2>2, <2>3, <2>4, <3>3, <3>4, CoverDone
    <2> QED
      BY <2>5, <2>6
  <1>3. ASSUME NEW p \in Procs, NEW failed \in BOOLEAN, W!finish(p, failed)
        PROVE  CoverInv'
    <2>1. PICK r : r = run[p]
      OBVIOUS
    <2>2. pc[p] = "handler" /\ W!Done(r.id, r.path, r.version, failed)
      BY <1>3, <2>1 DEF W!finish
    <2>3. requests \in Nat /\ Handling(r, answered, requests)
      BY <2>1, <2>2 DEF GatewayInv
    <2>4. r.id \in Nat /\ r.path \in Endpoints /\ r.version \in W!Versions
            /\ \A a \in answered : a.id # r.id
      BY <2>3 DEF Handling
    <2>5. UNCHANGED <<snapshots, clock, due>>
      BY <1>3 DEF W!finish
    <2> QED
      BY <2>2, <2>4, <2>5, CoverDone
  <1>4. CASE W!takeSnapshot
    <2>1. PICK s : s = [at |-> clock, seen |-> {c.id : c \in W!InMemory}]
      OBVIOUS
    <2>2. /\ snapshots' = Append(snapshots, s)
          /\ due' = due \ {"snapshot"}
          /\ UNCHANGED <<clock, calls, answered, lost>>
      BY <1>4, <2>1 DEF W!takeSnapshot
    <2>3. PICK d2 : d2 = due'
      OBVIOUS
    <2>4. Covers(Taken \cup {s}, W!InMemory, answered, lost, clock, d2)
      BY <2>1, <2>2, <2>3, CoversSnapshot DEF CoverInv
    <2>5. s \in Snapshot
      BY <2>4 DEF Covers
    <2>6. PICK t : t = snapshots
      OBVIOUS
    <2>7. PICK k : k = Append(t, s)
      OBVIOUS
    <2>8. t \in Seq(Snapshot)
      BY <2>6 DEF CoverInv
    <2>9. Rolled(k, t, s) /\ k \in Seq(Snapshot)
      BY <2>5, <2>7, <2>8, AppendRolled, AppendProperties
    <2>10. snapshots' = k
      BY <2>2, <2>6, <2>7
    <2>11. Taken' = Taken \cup {s}
      BY <2>6, <2>9, <2>10 DEF Rolled, Taken
    <2>12. W!InMemory' = W!InMemory
      BY <2>2 DEF W!InMemory
    <2> QED
      BY <2>2, <2>3, <2>4, <2>9, <2>10, <2>11, <2>12 DEF CoverInv
  <1>5. CASE W!cleanupMetrics
    <2>1. PICK cs : cs = W!InMemory
      OBVIOUS
    <2>2. /\ calls' = <<>> /\ W!Losing(cs)
          /\ due' = due \ {"cleanup"}
          /\ UNCHANGED <<clock, snapshots, answered>>
      BY <1>5, <2>1 DEF W!cleanupMetrics
    <2>3. PICK ls2 : ls2 = lost'
      OBVIOUS
    <2>4. ls2 = lost \cup {[id |-> c.id, at |-> c.at, dropped |-> clock] : c \in Unseen(Taken, cs)}
      BY <2>2, <2>3, UncountedUnseen DEF W!Losing
    <2>5. Covers(Taken, cs, answered, lost, clock, due)
      BY <2>1 DEF CoverInv
    <2>6. {} \in SUBSET cs /\ cs \in SUBSET cs /\ \A c \in cs : c \in cs \/ c \in {}
      OBVIOUS
    <2>7. Covers(Taken, {}, answered, ls2, clock, due)
      BY <2>4, <2>5, <2>6, CoversDrop
    <2>8. PICK d2 : d2 = due'
      OBVIOUS
    <2>9. Covers(Taken, {}, answered, ls2, clock, d2)
      BY <2>2, <2>7, <2>8, CoversDue
    <2>10. W!InMemory' = {} /\ Taken' = Taken /\ snapshots' \in Seq(Snapshot)
      BY <2>2 DEF W!InMemory, Taken, CoverInv
    <2> QED
      BY <2>2, <2>3, <2>8, <2>9, <2>10 DEF CoverInv
  <1>6. CASE W!cleanupOldData
    BY <1>6, OldRemoved
  <1>7. CASE W!checkForAlerts
    BY <1>7, CoverStands DEF W!checkForAlerts
  <1>8. CASE \E i \in 1..maxAlerts : W!acknowledgeAlert(i)
    BY <1>8, CoverStands DEF W!acknowledgeAlert
  <1>9. CASE W!tick
    <2>1. /\ due = {} /\ clock' = clock + 1 /\ "snapshot" \in due'
          /\ UNCHANGED <<calls, snapshots, lost, answered>>
      BY <1>9 DEF W!tick, W!monitors
    <2>2. PICK d2 : d2 = due'
      OBVIOUS
    <2>3. "snapshot" \notin due /\ "snapshot" \in d2
      BY <2>1, <2>2
    <2>4. Covers(Taken, W!InMemory, answered, lost, clock + 1, d2)
      BY <2>3, CoversTick DEF CoverInv
    <2>5. W!InMemory' = W!InMemory /\ Taken' = Taken /\ snapshots' \in Seq(Snapshot)
      BY <2>1 DEF W!InMemory, Taken, CoverInv
    <2> QED
      BY <2>1, <2>2, <2>4, <2>5 DEF CoverInv
  <1> QED
    BY <1>1, <1>2, <1>3, <1>4, <1>5, <1>6, <1>7, <1>8, <1>9 DEF W!Next

LEMMA UptoFinite ==
    ASSUME NEW n \in Nat
    PROVE  IsFiniteSet(1..n)
  <1>1. 1 \in Int /\ n \in Int
    OBVIOUS
  <1> QED
    BY <1>1, FS_Interval

(* The calls counted for the snapshots D of t.                             *)
Counted(t, D, n) == {z \in D \X (1..n) : z[2] \in t[z[1]].seen}

LEMMA SeenSumUp ==
    ASSUME NEW t, NEW D, IsFiniteSet(D), NEW n \in Nat,
           \A i \in D : t[i].seen \subseteq 1..n
    PROVE  /\ IsFiniteSet(Counted(t, D, n))
           /\ W!MapThenSumSet(LAMBDA i : W!Cardinality(t[i].seen), D) = Cardinality(Counted(t, D, n))
  <1>1. PICK K : K = Counted(t, D, n)
    OBVIOUS
  <1>2. IsFiniteSet(K) /\ K \subseteq D \X (1..n)
    <2>1. IsFiniteSet(D \X (1..n))
      BY UptoFinite, FS_Product
    <2> QED
      BY <1>1, <2>1, FS_Subset DEF Counted
  <1>3. PICK f \in [K -> D] : f = [z \in K |-> z[1]]
    BY <1>2
  <1>4. PICK g : g = [i \in D |-> W!Cardinality(t[i].seen)]
    OBVIOUS
  <1>5. Counting(g, f, K, D)
    <2>1. ASSUME NEW i \in D
          PROVE  g[i] = Cardinality({z \in K : f[z] = i})
      <3>1. PICK seen \in SUBSET (1..n) : seen = t[i].seen
        OBVIOUS
      <3>2. PICK part : part = {z \in K : f[z] = i}
        OBVIOUS
      <3>3. part = {<<i, x>> : x \in seen}
        BY <1>1, <1>3, <3>1, <3>2 DEF Counted
      <3>4. IsFiniteSet(seen)
        BY UptoFinite, FS_Subset
      <3>5. PICK h : h = [x \in seen |-> <<i, x>>]
        OBVIOUS
      <3>6. h \in [seen -> part] /\ \A x \in seen : h[x] = <<i, x>>
        BY <3>3, <3>5
      <3>7. \A x, y \in seen : h[x] = h[y] => x = y
        BY <3>6
      <3>8. \A z \in part : \E x \in seen : h[x] = z
        BY <3>3, <3>6
      <3>9. h \in Bijection(seen, part)
        BY <3>6, <3>7, <3>8 DEF Bijection, Injection, Surjection, IsInjective
      <3>10. Cardinality(part) = Cardinality(seen)
        BY <3>4, <3>9, FS_Bijection DEF ExistsBijection
      <3> QED
        BY <1>4, <3>1, <3>2, <3>10, GatewayCardinality
    <2> QED
      BY <1>3, <2>1 DEF Counting
  <1>6. /\ \E it : SumsUp(it, g, D)
        /\ \A it : SumsUp(it, g, D) => it[D] = Cardinality(K)
    BY <1>2, <1>5, PartsSumUp
  <1>7. \A s \in SUBSET D : s # {} => g[One(s)] = W!Cardinality(t[One(s)].seen)
    BY <1>4 DEF One
  <1>8. \A it : SumsUp(it, g, D) <=>
            it = [s \in SUBSET D |-> IF s = {} THEN 0
              ELSE W!Cardinality(t[One(s)].seen) + it[s \ {One(s)}]]
    BY <1>7 DEF SumsUp
  <1>9. PICK it : it = [s \in SUBSET D |-> IF s = {} THEN 0
               ELSE W!Cardinality(t[One(s)].seen) + it[s \ {One(s)}]]
    BY <1>6, <1>8
  <1>10. \E i : /\ i = [s \in SUBSET D |-> IF s = {} THEN 0 ELSE W!Cardinality(t[One(s)].seen) + i[s \ {One(s)}]]
                /\ W!MapThenSumSet(LAMBDA j : W!Cardinality(t[j].seen), D) = i[D]
    BY <1>9 DEF W!MapThenSumSet, W!MapThenFoldSet, One
  <1> QED
    BY <1>1, <1>2, <1>6, <1>8, <1>10

LEMMA OwedCounted ==
    ASSUME NEW t, NEW D, NEW n \in Nat, IsFiniteSet(Counted(t, D, n)),
           NEW owed, \A a, b \in owed : a.id = b.id => a = b,
           \A a \in owed : a.id \in 1..n /\ \E i \in D : a.id \in t[i].seen
    PROVE  Cardinality(owed) <= Cardinality(Counted(t, D, n))
  <1>1. PICK K : K = Counted(t, D, n)
    OBVIOUS
  <1>2. PICK known : known = {z[2] : z \in K}
    OBVIOUS
  <1>3. PICK f : f = [z \in K |-> z[2]]
    OBVIOUS
  <1>4. f \in Surjection(K, known)
    BY <1>2, <1>3 DEF Surjection
  <1>5. IsFiniteSet(known) /\ Cardinality(known) <= Cardinality(K)
    BY <1>1, <1>4, FS_Surjection
  <1>6. PICK g : g = [a \in owed |-> a.id]
    OBVIOUS
  <1>7. ASSUME NEW a \in owed
        PROVE  a.id \in known
    <2>1. PICK i \in D : a.id \in t[i].seen
      OBVIOUS
    <2>2. <<i, a.id>> \in K
      BY <1>1, <2>1 DEF Counted
    <2> QED
      BY <1>2, <2>2
  <1>8. g \in Injection(owed, known)
    BY <1>6, <1>7 DEF Injection, IsInjective
  <1>9. IsFiniteSet(owed) /\ Cardinality(owed) <= Cardinality(known)
    BY <1>5, <1>8, FS_Injection
  <1>10. Cardinality(owed) \in Nat /\ Cardinality(known) \in Nat /\ Cardinality(K) \in Nat
    BY <1>1, <1>5, <1>9, FS_CardinalityType
  <1> QED
    BY <1>1, <1>5, <1>9, <1>10

LEMMA NewestExists ==
    ASSUME NEW n \in Nat, NEW D \in SUBSET (1..n), D # {}
    PROVE  W!Max(D) \in D
  <1>1. PICK Z : Z = {k \in 0..n : n - k \in D}
    OBVIOUS
  <1>2. Z \in SUBSET Nat
    BY <1>1
  <1>3. Z # {}
    <2>1. PICK i \in 1..n : i \in D
      OBVIOUS
    <2>2. n - i \in 0..n /\ n - (n - i) = i
      OBVIOUS
    <2> QED
      BY <1>1, <2>1, <2>2
  <1>4. PICK k \in Z : \A j \in Z : k <= j
    BY <1>2, <1>3, LeastExists
  <1>5. k \in 0..n /\ n - k \in D
    BY <1>1
  <1>6. ASSUME NEW i \in D
        PROVE  n - k >= i
    <2>1. i \in 1..n
      OBVIOUS
    <2>2. n - i \in 0..n /\ n - (n - i) = i
      BY <2>1
    <2>3. n - i \in Z
      BY <1>1, <2>2
    <2>4. k <= n - i
      BY <1>4, <2>3
    <2> QED
      BY <1>5, <2>1, <2>4
  <1> QED
    BY <1>5, <1>6 DEF W!Max

(* Before the newest snapshot of a period those owed to its report were    *)
(* seen by one of its snapshots.                                           *)
LEMMA OwedReported ==
    ASSUME NEW ss, NEW cs, NEW as, NEW ls, NEW t, NEW d, Covers(ss, cs, as, ls, t, d),
           NEW start \in Nat, NEW end \in Nat, NEW newest \in ss, newest.at \in start..end,
           NEW a \in as, a.at \in start..(newest.at - 1), a.at + Kept >= t,
           \A l \in ls : l.id # a.id
    PROVE  \E s \in ss : s.at \in start..end /\ a.id \in s.seen
  <1>1. Reported(a, ss, cs, ls, t, d)
    BY DEF Covers
  <1>2. PICK last \in Nat : last = newest.at
    OBVIOUS
  <1>3. PICK at \in Nat : at = a.at
    OBVIOUS
  <1>4. /\ t \in Nat /\ last <= t /\ ("snapshot" \in d => last < t)
    BY <1>2 DEF Covers
  <1>5. last \in start..end /\ at \in start..(last - 1)
    BY <1>2, <1>3
  <1>6. ~ Current(at, t, d)
    BY <1>4, <1>5 DEF Current
  <1>7. PICK s \in ss : s.at \in {at, at + 1} /\ a.id \in s.seen
    BY <1>1, <1>3, <1>6 DEF Reported
  <1>8. at \in start..end /\ at + 1 \in start..end
    BY <1>5
  <1> QED
    BY <1>7, <1>8

LEMMA CoverPromises ==
    ASSUME GatewayInv, CoverInv
    PROVE  W!ReportCoversPeriod
  <1>1. \A l \in lost : l.dropped <= l.at + 1
    BY DEF CoverInv, Covers
  <1>2. ASSUME NEW start \in 0..clock, NEW end \in start..clock,
               W!InPeriod(start, end) # {},
               NEW newest, newest = snapshots[W!Max(W!InPeriod(start, end))].at,
               NEW owed, owed = {a \in answered : /\ a.at \in start..(newest - 1)
                                                  /\ a.at + Kept >= clock
                                                  /\ \A l \in lost : l.id # a.id}
        PROVE  W!totalRequests(start, end) >= W!Cardinality(owed)
    <2>1. PICK s : s = snapshots
      OBVIOUS
    <2>2. PICK n \in Nat : n = requests
      BY DEF GatewayInv
    <2>3. PICK D : D = W!InPeriod(start, end)
      OBVIOUS
    <2>4. PICK len \in Nat : len = Len(s) /\ DOMAIN s = 1..len
      BY <2>1, LenProperties DEF CoverInv
    <2>5. D \in SUBSET (1..len) /\ D # {} /\ \A i \in D : s[i].at \in start..end
      BY <1>2, <2>1, <2>3, <2>4 DEF W!InPeriod
    <2>6. IsFiniteSet(D)
      BY <2>5, UptoFinite, FS_Subset
    <2>7. PICK m \in D : newest = s[m].at
      BY <1>2, <2>1, <2>3, <2>5, NewestExists
    <2>8. \A i \in 1..len : s[i] \in Taken
      BY <2>1, <2>4 DEF Taken, Range
    <2>9. \A i \in D : s[i].seen \subseteq 1..n
      <3>1. \A x \in Taken : \A k \in x.seen : \E a \in answered : a.id = k
        BY DEF CoverInv, Covers
      <3>2. \A a \in answered : a.id \in 1..n
        BY <2>2 DEF GatewayInv, Answers
      <3> QED
        BY <2>5, <2>8, <3>1, <3>2
    <2>10. /\ IsFiniteSet(Counted(s, D, n))
           /\ W!MapThenSumSet(LAMBDA i : W!Cardinality(s[i].seen), D) = Cardinality(Counted(s, D, n))
      BY <2>6, <2>9, SeenSumUp
    <2>11. W!totalRequests(start, end) = Cardinality(Counted(s, D, n))
      BY <2>1, <2>3, <2>10 DEF W!totalRequests
    <2>12. ASSUME NEW a \in owed
           PROVE  a.id \in 1..n /\ \E i \in D : a.id \in s[i].seen
      <3>1. /\ a \in answered /\ a.at \in start..(newest - 1) /\ a.at + Kept >= clock
            /\ \A l \in lost : l.id # a.id
        BY <1>2
      <3>2. a.id \in 1..n
        BY <2>2, <3>1 DEF GatewayInv, Answers
      <3>3. PICK x : x = s[m]
        OBVIOUS
      <3>4. x \in Taken /\ x.at = newest /\ x.at \in start..end
        BY <2>5, <2>7, <2>8, <3>3
      <3>5. start \in Nat /\ end \in Nat
        BY <1>2 DEF GatewayInv
      <3>6. Covers(Taken, W!InMemory, answered, lost, clock, due)
        BY DEF CoverInv
      <3>7. \E y \in Taken : y.at \in start..end /\ a.id \in y.seen
        BY <3>1, <3>4, <3>5, <3>6, OwedReported
      <3>8. PICK i \in 1..len : s[i].at \in start..end /\ a.id \in s[i].seen
        BY <2>1, <2>4, <3>7 DEF Taken, Range
      <3>9. i \in D
        BY <2>1, <2>3, <2>4, <3>8 DEF W!InPeriod
      <3> QED
        BY <3>2, <3>8, <3>9
    <2>13. \A a, b \in owed : a.id = b.id => a = b
      BY <1>2 DEF GatewayInv, Answers
    <2>14. Cardinality(owed) <= Cardinality(Counted(s, D, n))
      BY <2>10, <2>12, <2>13, OwedCounted
    <2>15. W!Cardinality(owed) = Cardinality(owed)
      BY GatewayCardinality
    <2> QED
      BY <2>11, <2>14, <2>15
  <1> QED
    BY <1>1, <1>2 DEF W!ReportCoversPeriod
-----------------------------------------------------------------------------
(* A behaviour follows one service's handlers.                             *)

IInv == /\ focus = "accounts" => AccountsInv
        /\ focus = "limits" => LimitsInv /\ RulesTyped
        /\ focus = "audit" => AuditInv /\ TrailInv
        /\ focus = "metrics" => MetricsInv
        /\ focus = "evidence" => EvidenceInv
        /\ focus = "reports" => ReportsInv
        /\ focus = "integrations" => IntegrationsInv
        /\ focus = "profiles" => ProfilesInv
        /\ focus = "contracts" => ContractsInv
        /\ focus = "notices" => NoticesInv
        /\ focus = "notifications" => NotificationsInv
        /\ focus = "gateway" => GatewayInv /\ CoverInv

(* What every behaviour keeps: the invariant of the service it follows.    *)
THEOREM Invariance == Spec => []IInv
  <1>1. Init => IInv
    <2> SUFFICES ASSUME Init
                 PROVE  IInv
      OBVIOUS
    <2>1. HandlersInit /\ R!Rest /\ T!Rest /\ M!Rest /\ E!Rest /\ G!Rest /\ I!Rest /\ P!Rest
            /\ C!Rest /\ U!Rest /\ N!Rest /\ W!Rest
      BY DEF Init
    <2>2. focus = "accounts" => A!Rest \/ \E text \in Passwords \ LongPasswords : A!Seeded(text)
      BY DEF Init
    <2> QED
      BY <2>1, <2>2, AccountsInit, LimitsInit, RulesTypedInit, AuditInit,
         TrailInit, MetricsInit, EvidenceInit, ReportsInit, IntegrationsInit,
         ProfilesInit, ContractsInit, NoticesInit, NotificationsInit,
         GatewayInit, CoverInit
      DEF IInv
  <1>2. IInv /\ [Next]_vars => IInv'
    <2> SUFFICES ASSUME IInv, [Next]_vars
                 PROVE  IInv'
      OBVIOUS
    <2>1. CASE accountsStep
      BY <2>1, AccountsStep DEF accountsStep, IInv
    <2>2. CASE limitsStep
      BY <2>2, LimitsStep, RulesTypedStep DEF limitsStep, IInv, LimitsInv
    <2>3. CASE auditStep
      BY <2>3, AuditStep, TrailStep DEF auditStep, IInv
    <2>4. CASE metricsStep
      BY <2>4, MetricsStep DEF metricsStep, IInv
    <2>5. CASE evidenceStep
      BY <2>5, EvidenceStep DEF evidenceStep, IInv
    <2>6. CASE reportsStep
      BY <2>6, ReportsStep DEF reportsStep, IInv
    <2>7. CASE integrationsStep
      BY <2>7, IntegrationsStep DEF integrationsStep, IInv
    <2>8. CASE profilesStep
      BY <2>8, ProfilesStep DEF profilesStep, IInv
    <2>9. CASE contractsStep
      BY <2>9, ContractsStep DEF contractsStep, IInv
    <2>10. CASE noticesStep
      BY <2>10, NoticesStep DEF noticesStep, IInv
    <2>11. CASE notificationsStep
      BY <2>11, NotificationsStep DEF notificationsStep, IInv
    <2>12. CASE gatewayStep
      BY <2>12, GatewayStep, CoverStep DEF gatewayStep, IInv
    <2>13. CASE UNCHANGED vars
      <3>1. UNCHANGED <<focus, handlers, accountsVars, limitsVars, auditVars, metricVars,
              evidenceVars, reportVars, integration, profileVars, contractVars, notices, noticeVars,
                gatewayVars>>
        BY <2>13 DEF vars
      <3> QED
        BY <3>1, AccountsStand, LimitsStand, RulesTypedStand, AuditStands,
           TrailStands, MetricsStand, EvidenceStands, ReportsStand,
           IntegrationsStand, ProfilesStand, ContractsStand, NoticesStand,
           NotificationsStand, GatewayStands, CoverStands
        DEF IInv, gatewayVars
    <2> QED
      BY <2>1, <2>2, <2>3, <2>4, <2>5, <2>6, <2>7, <2>8, <2>9, <2>10, <2>11,
         <2>12, <2>13
      DEF Next
  <1> QED
    BY <1>1, <1>2, PTL DEF Spec

(* Whatever copies of it are saved, in whichever order and wherever a call *)
(* fails, an account's row keeps its types, comes with a lock after        *)
(* maxAttempts failed attempts and never before, and is active if it was   *)
(* verified.                                                               *)
THEOREM AccountsAreCoherent == Spec => [](focus = "accounts" => A!TypeOK /\ A!RowCoherent)
  <1>1. IInv => (focus = "accounts" => A!TypeOK /\ A!RowCoherent)
    BY DEF IInv, AccountsInv
  <1> QED
    BY <1>1, Invariance, PTL

(* Where requests do not overlap the password last reported as set is what *)
(* the account holds, hashed once, whatever was saved since.               *)
THEOREM PasswordsStand == Spec => []PasswordStands
  <1>1. IInv => PasswordStands
    BY DEF IInv, AccountsInv, PasswordStands, A!PasswordStands, Held
  <1> QED
    BY <1>1, Invariance, PTL

(* Where requests do not overlap nothing stores a refresh token between a  *)
(* reported sign-out and the next sign-in.                                 *)
THEOREM SignOutsStay == Spec => []SignedOutStays
  <1>1. IInv => SignedOutStays
    BY DEF IInv, AccountsInv, SignedOutStays, A!SignedOutStays
  <1> QED
    BY <1>1, Invariance, PTL

(* RateLimitGuard lets fewer than three times MAX_REQUESTS through while   *)
(* Redis keeps one count, where requests do not overlap and no call fails. *)
THEOREM GuardsAreWithinThrice == Spec => []FewerThanThrice
  <1>1. IInv => FewerThanThrice
    BY WithinThrice DEF IInv, FewerThanThrice
  <1> QED
    BY <1>1, Invariance, PTL

(* An audit trail nothing was taken from is a chain where logs do not      *)
(* overlap, and else no hash has more followers than there are handlers to *)
(* log, for each of its bearers.                                           *)
THEOREM TrailsAreChains == Spec => []TrailIsChain
  <1>1. IInv => TrailIsChain
    BY TrailForks DEF IInv, TrailIsChain
  <1> QED
    BY <1>1, Invariance, PTL

(* Where handlers do not overlap and no call fails, the live value of a    *)
(* name is, as soon as nothing is queued, no older than any metric of the  *)
(* last hour that was recorded by itself.                                  *)
THEOREM LiveMetricsAreNewest == Spec => []LiveIsNewest
  <1>1. IInv => LiveIsNewest
    BY MetricsPromises DEF IInv, LiveIsNewest
  <1> QED
    BY <1>1, Invariance, PTL

(* Whichever call fails, a rate whose counts overlap nothing is at most a  *)
(* whole, the rows of the transactions, escrows and disputes add up, and   *)
(* the indicators of an hour are written in their order, however many      *)
(* passes there are at once: none has more rows than one before it.        *)
THEOREM MetricsAgree ==
    Spec => [](focus = "metrics" => M!TypeOK /\ M!RatesAreParts /\ M!KpisInOrder)
  <1>1. IInv => (focus = "metrics" => M!TypeOK /\ M!RatesAreParts /\ M!KpisInOrder)
    BY MetricsPromises DEF IInv
  <1> QED
    BY <1>1, Invariance, PTL

(* Whatever copies of a row are saved, in whichever order, and wherever a  *)
(* call is rejected, the columns of a row and the job behind it agree, in  *)
(* each of the services: what RowsAgree says of them.                      *)
THEOREM RowsStayInAgreement == Spec => []RowsAgree
  <1>1. IInv => RowsAgree
    BY EvidencePromises, ReportsPromises, IntegrationsPromises, ProfilesPromises,
       ContractsPromise,
       NoticesPromises, NotificationsPromises, GatewayPromises, MetricsPromises
    DEF IInv, RowsAgree, AccountsInv
  <1> QED
    BY <1>1, Invariance, PTL

(* Whenever the hourly cleanup, the limit on memory and the snapshots come,*)
(* a report on a period that a snapshot is of counts each of its calls that*)
(* was answered before the newest of them, but for calls dropped at most a *)
(* tick after they were kept.                                              *)
THEOREM ReportsCover == Spec => []ReportCoversPeriod
  <1>1. IInv => ReportCoversPeriod
    BY CoverPromises DEF IInv, ReportCoversPeriod
  <1> QED
    BY <1>1, Invariance, PTL

(* The rows, queues and stores of every service keep their types, and the  *)
(* rows of the audit trail the order of their timestamps.                  *)
THEOREM TypesHold == Spec => []TypeOK
  <1>1. IInv => TypeOK
    BY LimitsPromise, TrailPromises, EvidencePromises, ReportsPromises,
       IntegrationsPromises,
       ProfilesPromises, ContractsPromise, NoticesPromises, NotificationsPromises, GatewayPromises,
       MetricsPromises
    DEF IInv, TypeOK, AccountsInv
  <1> QED
    BY <1>1, Invariance, PTL
=============================================================================
