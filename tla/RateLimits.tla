------------------------------ MODULE RateLimits ------------------------------
(***************************************************************************)
(* The two guards that count a client's requests, as each request passes   *)
(* them: AdvancedRateLimitGuard, whose rules count in this process, then   *)
(* RateLimitGuard, which counts per endpoint in Redis and falls back on a  *)
(* count in this process.  One client.                                     *)
(*                                                                         *)
(* Nothing calls addRule, removeRule and resetRateLimit.                   *)
(***************************************************************************)
EXTENDS Handlers, Sequences

CONSTANTS Paths,
          AuthPaths,     \* those the rule "auth" counts
          globalLimit, authLimit,
          MAX_REQUESTS,
          WINDOW_SIZE,   \* of both guards
          MaxTime        \* bound: time

VARIABLES now,
          limitStore,    \* what each rule counted, until when
          redis,         \* what Redis counted of each path
          inMemoryStore, \* and what the fallback did
          passed         \* history: let through in the window Redis keeps

stores == <<limitStore, redis, inMemoryStore>>
vars == <<handlers, now, stores, passed>>

Rules == {"global", "auth"}
Limit(rule) == IF rule = "global" THEN globalLimit ELSE authLimit

(* In the order they were added; skipIf leaves some out.                   *)
ApplicableRules(path) == IF path \in AuthPaths THEN <<"global", "auth">> ELSE <<"global">>

Never == MaxTime + WINDOW_SIZE + 1  \* a key without an expiry
Absent == [count |-> 0, until |-> 0]

Rest == /\ now = 0
        /\ limitStore = [r \in Rules |-> Absent]
        /\ redis = [path \in Paths |-> Absent]
        /\ inMemoryStore = [path \in Paths |-> Absent]
        /\ passed = [path \in Paths |-> 0]

Init == HandlersInit /\ Rest

Path(p) == run[p].path
Pass(p) == End(p) /\ passed' = [passed EXCEPT ![Path(p)] = @ + 1]
Refuse(p) == End(p) /\ UNCHANGED passed
-----------------------------------------------------------------------------
tick ==
    /\ now < MaxTime
    /\ now' = now + 1
    /\ UNCHANGED <<handlers, stores, passed>>

(* A restart empties what this process counted.                            *)
restart ==
    /\ faulty
    /\ pc' = [p \in Procs |-> "idle"]
    /\ run' = [p \in Procs |-> NoRun]
    /\ limitStore' = [r \in Rules |-> Absent]
    /\ inMemoryStore' = [path \in Paths |-> Absent]
    /\ UNCHANGED <<setting, requests, now, redis, passed>>

cleanup ==
    /\ limitStore' = [r \in Rules |->
           IF limitStore[r].until <= now THEN Absent ELSE limitStore[r]]
    /\ UNCHANGED <<handlers, now, redis, inMemoryStore, passed>>
-----------------------------------------------------------------------------
(* When the rules are done the second guard looks at the time.             *)
Following(todo) == IF todo = <<>> THEN "incr" ELSE "rules"
Waiting(path, todo) == [path |-> path, todo |-> todo, since |-> IF todo = <<>> THEN now ELSE 0]

(* A rule's count, which every request raises, also one it then refuses.   *)
Counted(rule) ==
    IF limitStore[rule].until <= now THEN [count |-> 1, until |-> now + WINDOW_SIZE]
    ELSE [limitStore[rule] EXCEPT !.count = @ + 1]

(* A request checks the first rule as it comes.                            *)
request(p, path) ==
    LET rules == ApplicableRules(path)
        entry == Counted(Head(rules))
    IN  /\ MayStart(p)
        /\ limitStore' = [limitStore EXCEPT ![Head(rules)] = entry]
        /\ IF entry.count > Limit(Head(rules)) THEN Request(p, "idle", NoRun)
           ELSE Request(p, Following(Tail(rules)), Waiting(path, Tail(rules)))
        /\ UNCHANGED <<now, redis, inMemoryStore, passed>>

checkRateLimit(p) ==
    /\ pc[p] = "rules"
    /\ LET rule == Head(run[p].todo)
           todo == Tail(run[p].todo)
           entry == Counted(rule)
       IN  /\ limitStore' = [limitStore EXCEPT ![rule] = entry]
           /\ IF entry.count > Limit(rule) THEN End(p)
              ELSE GotoWith(p, Following(todo), Waiting(Path(p), todo))
    /\ UNCHANGED <<now, redis, inMemoryStore, passed>>

(* INCR creates a key without an expiry.                                   *)
Incremented(entry) ==
    IF entry.until <= now THEN [count |-> 1, until |-> Never]
                          ELSE [entry EXCEPT !.count = @ + 1]

incr(p) ==
    /\ pc[p] = "incr"
    /\ LET entry == Incremented(redis[Path(p)])
       IN  /\ redis' = [redis EXCEPT ![Path(p)] = entry]
           /\ CASE entry.count = 1 ->
                      Goto(p, "expire") /\ passed' = [passed EXCEPT ![Path(p)] = 0]
                [] entry.count > 1 /\ entry.count <= MAX_REQUESTS -> Pass(p)
                [] OTHER -> Goto(p, "fallback") /\ UNCHANGED passed
    /\ UNCHANGED <<now, limitStore, inMemoryStore>>

expire(p) ==
    /\ pc[p] = "expire"
    /\ redis' = [redis EXCEPT ![Path(p)].until = now + WINDOW_SIZE]
    /\ Pass(p)
    /\ UNCHANGED <<now, limitStore, inMemoryStore>>

(* Redis could not be asked.                                               *)
redisFails(p) ==
    /\ faulty
    /\ pc[p] \in {"incr", "expire"}
    /\ Goto(p, "fallback")
    /\ UNCHANGED <<now, stores, passed>>

(* A slip in fallback: the count begins again with every request.          *)
ForgetCount(p) ==
    /\ pc[p] = "fallback"
    /\ inMemoryStore' = [inMemoryStore EXCEPT
           ![Path(p)] = [count |-> 1, until |-> run[p].since + WINDOW_SIZE]]
    /\ Pass(p)
    /\ UNCHANGED <<now, limitStore, redis>>

(* The catch block, which the guard's own refusal ends in as well.         *)
fallback(p) ==
    /\ pc[p] = "fallback"
    /\ LET old == inMemoryStore[Path(p)]
           entry == IF old.count = 0 \/ old.until < run[p].since
                    THEN [count |-> 1, until |-> run[p].since + WINDOW_SIZE]
                    ELSE [old EXCEPT !.count = @ + 1]
       IN  /\ inMemoryStore' = [inMemoryStore EXCEPT ![Path(p)] = entry]
           /\ IF entry.count > MAX_REQUESTS THEN Refuse(p) ELSE Pass(p)
    /\ UNCHANGED <<now, limitStore, redis>>
-----------------------------------------------------------------------------
Next == \/ tick
        \/ restart
        \/ cleanup
        \/ \E p \in Procs :
              \/ \E path \in Paths : request(p, path)
              \/ checkRateLimit(p)
              \/ incr(p)
              \/ expire(p)
              \/ redisFails(p)
              \/ fallback(p)

Spec == Init /\ [][Next]_vars
-----------------------------------------------------------------------------
Entry == [count : Nat, until : 0..Never]

TypeOK ==
    /\ now \in 0..MaxTime
    /\ limitStore \in [Rules -> Entry]
    /\ redis \in [Paths -> Entry]
    /\ inMemoryStore \in [Paths -> Entry]
    /\ passed \in [Paths -> Nat]

(* While Redis keeps a count that expires, fewer than thrice MAX_REQUESTS  *)
(* get through: its own, and those of the two windows of the fallback that *)
(* can meet it; as long as requests do not overlap and no call fails.      *)
FewerThanThrice == ~overlap /\ ~faulty => \A path \in Paths :
    redis[path].until \in now + 1..Never - 1 => passed[path] < 3 * MAX_REQUESTS
=============================================================================
