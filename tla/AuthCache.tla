------------------------------- MODULE AuthCache -------------------------------
(***************************************************************************)
(* The authentication of the API gateway: a key hash is looked up in a     *)
(* Redis cache and, on a miss or any error of Redis, in api_clients; the   *)
(* answer, positive or negative, is written back with a TTL and is never   *)
(* invalidated.  Requests of any number of gateways interleave with each   *)
(* other, with the operator who changes a row, and with time.              *)
(***************************************************************************)
EXTENDS Integers

CONSTANTS Keys,       \* hashes of API keys
          Requests,   \* calls that may be in the interceptor at one time
          KeyOf,      \* KeyOf[q]: the key that request q carries
          TTL,        \* cache_ttl_seconds, in ticks of the clock
          Delay       \* a SET takes effect within this many ticks, or never

ASSUME AuthAssumption ==
    /\ KeyOf \in [Requests -> Keys]
    /\ TTL \in Nat \ {0} /\ Delay \in Nat

\* A row of api_clients with status active; or another status, or no row, which
\* no caller can tell apart.
Statuses == {"active", "inactive"}
Horizon  == TTL + Delay

VARIABLES status,     \* status[k]: the row of k in api_clients
          since,      \* since[k][s]: ticks since the row was last s (at most Horizon + 1)
          entry,      \* entry[k]: what the cache holds, [is |-> status, left |-> ticks]
          writes,     \* SETs on their way: [key, is, age]
          lookup,     \* lookup[q]: where q is
          found,      \* found[q]: what the table answered q
          waited      \* waited[q]: ticks since that answer

authVars == <<status, since, entry, writes, lookup, found, waited>>

SetCommands == [key : Keys, is : Statuses, age : 0 .. Delay]
NoEntry == [is |-> "inactive", left |-> 0]
Verdicts == {"admitted", "denied", "unavailable"}

AuthTypeOK ==
    /\ status \in [Keys -> Statuses]
    /\ since \in [Keys -> [Statuses -> 0 .. Horizon + 1]]
    /\ entry \in [Keys -> [is : Statuses, left : 0 .. TTL]]
    /\ writes \subseteq SetCommands
    /\ lookup \in [Requests -> {"idle", "query", "set"} \cup Verdicts]
    /\ \A q \in Requests : lookup[q] # "set" => waited[q] = 0
    /\ found \in [Requests -> Statuses]
    /\ waited \in [Requests -> 0 .. Delay]

AuthInit ==
    /\ status \in [Keys -> Statuses]
    /\ since = [k \in Keys |-> [s \in Statuses |->
                   IF s = status[k] THEN 0 ELSE Horizon + 1]]
    /\ entry = [k \in Keys |-> NoEntry]
    /\ writes = {}
    /\ lookup = [q \in Requests |-> "idle"]
    /\ found = [q \in Requests |-> "inactive"]
    /\ waited = [q \in Requests |-> 0]

-------------------------------------------------------------------------------
(* A request.                                                              *)

Go(q, stage) == lookup' = [lookup EXCEPT ![q] = stage]

\* Only "active" admits; the negative marker and every other status deny.
Verdict(s) == IF s = "active" THEN "admitted" ELSE "denied"

\* What a bug would do: a sliding expiry.
HitAndExtend(q) ==
    /\ lookup[q] = "idle" /\ entry[KeyOf[q]].left > 0
    /\ Go(q, Verdict(entry[KeyOf[q]].is))
    /\ entry' = [entry EXCEPT ![KeyOf[q]].left = TTL]
    /\ UNCHANGED <<status, since, writes, found, waited>>

\* GET finds an entry.
Hit(q) ==
    /\ lookup[q] = "idle" /\ entry[KeyOf[q]].left > 0
    /\ Go(q, Verdict(entry[KeyOf[q]].is))
    /\ UNCHANGED <<status, since, entry, writes, found, waited>>

\* GET finds nothing, or Redis fails: both fall through to the table.
Miss(q) ==
    /\ lookup[q] = "idle" /\ Go(q, "query")
    /\ UNCHANGED <<status, since, entry, writes, found, waited>>

\* The table answers, and trySet sends the answer to the cache.
Query(q) ==
    LET k == KeyOf[q] IN
    /\ lookup[q] = "query" /\ Go(q, "set")
    /\ found' = [found EXCEPT ![q] = status[k]]
    /\ writes' = writes \cup {[key |-> k, is |-> status[k], age |-> 0]}
    /\ UNCHANGED <<status, since, entry, waited>>

\* What a bug would do: on an error of the table, fall back to what the cache
\* last knew, expired or not.
QueryFailsOpen(q) ==
    /\ lookup[q] = "query" /\ Go(q, Verdict(entry[KeyOf[q]].is))
    /\ UNCHANGED <<status, since, entry, writes, found, waited>>

\* PostgreSQL does not answer.
QueryFails(q) ==
    /\ lookup[q] = "query" /\ Go(q, "unavailable")
    /\ UNCHANGED <<status, since, entry, writes, found, waited>>

\* The SET was answered, failed or timed out: the request goes on all the same.
Answer(q) ==
    /\ lookup[q] = "set" /\ Go(q, Verdict(found[q]))
    /\ found' = [found EXCEPT ![q] = "inactive"] /\ waited' = [waited EXCEPT ![q] = 0]
    /\ UNCHANGED <<status, since, entry, writes>>

\* The interceptor is left; another request may follow.
Leave(q) ==
    /\ lookup[q] \in Verdicts /\ Go(q, "idle")
    /\ UNCHANGED <<status, since, entry, writes, found, waited>>

-------------------------------------------------------------------------------
(* Redis, the operator and time.                                           *)

\* A SET takes effect, in any order with others and perhaps after its sender
\* gave up.
Land(w) ==
    /\ w \in writes /\ writes' = writes \ {w}
    /\ entry' = [entry EXCEPT ![w.key] = [is |-> w.is, left |-> TTL]]
    /\ UNCHANGED <<status, since, lookup, found, waited>>

Lose(w) ==
    /\ w \in writes /\ writes' = writes \ {w}
    /\ UNCHANGED <<status, since, entry, lookup, found, waited>>

\* The memory policy of the cache may drop an entry.
Evict(k) ==
    /\ entry[k].left > 0 /\ entry' = [entry EXCEPT ![k].left = 0]
    /\ UNCHANGED <<status, since, writes, lookup, found, waited>>

\* A row is inserted, suspended, reactivated or deleted, by hand or by Provision.
SetStatus(k, s) ==
    /\ s # status[k] /\ status' = [status EXCEPT ![k] = s]
    /\ since' = [since EXCEPT ![k][s] = 0]
    /\ UNCHANGED <<entry, writes, lookup, found, waited>>

Older(k) == [s \in Statuses |-> IF s = status[k] THEN 0
                                ELSE IF since[k][s] > Horizon THEN Horizon + 1
                                ELSE since[k][s] + 1]

Tick ==
    /\ \A w \in writes : w.age < Delay
    /\ \A q \in Requests : lookup[q] = "set" => waited[q] < Delay
    /\ since' = [k \in Keys |-> Older(k)]
    /\ entry' = [k \in Keys |-> [entry[k] EXCEPT !.left = IF @ > 0 THEN @ - 1 ELSE 0]]
    /\ writes' = {[w EXCEPT !.age = @ + 1] : w \in writes}
    /\ waited' = [q \in Requests |-> IF lookup[q] = "set" THEN waited[q] + 1 ELSE waited[q]]
    /\ UNCHANGED <<status, lookup, found>>

Step(q) == Hit(q) \/ Miss(q) \/ Query(q) \/ QueryFails(q) \/ Answer(q) \/ Leave(q)

AuthNext ==
    \/ \E q \in Requests : Step(q)
    \/ \E w \in writes : Land(w) \/ Lose(w)
    \/ \E k \in Keys : Evict(k) \/ \E s \in Statuses : SetStatus(k, s)
    \/ Tick

AuthSafety == AuthInit /\ [][AuthNext]_authVars

\* The client's timeouts end a lookup, a SET arrives or not, time passes.
AuthFairness ==
    /\ \A q \in Requests : WF_authVars(Query(q) \/ QueryFails(q) \/ Answer(q) \/ Leave(q))
    /\ \A w \in SetCommands : WF_authVars(Land(w) \/ Lose(w))
    /\ WF_authVars(Tick)

AuthSpec == AuthSafety /\ AuthFairness

-------------------------------------------------------------------------------
(* Properties.                                                             *)

\* Nobody is admitted who was not active within the TTL and the delay of a
\* SET, nobody denied who was active all that time, however lookups, late SETs,
\* evictions and changes of the row interleave, and whether Redis or
\* PostgreSQL are down (cache.go:19-24, "fails CLOSED on the source of truth").
VerdictsAreFresh ==
    [][\A q \in Requests : lookup'[q] # lookup[q] =>
        /\ lookup'[q] = "admitted" => since[KeyOf[q]]["active"] < Horizon
        /\ lookup'[q] = "denied" =>
               \E s \in Statuses \ {"active"} : since[KeyOf[q]][s] < Horizon]_authVars

\* A change of the row that is not taken back takes effect in the end, although
\* nothing invalidates the cache: a suspended or deleted client is admitted no
\* more, an active one denied no more.
StatusTakesEffect ==
    \A q \in Requests :
        /\ <>[](status[KeyOf[q]] # "active") => <>[](lookup[q] # "admitted")
        /\ <>[](status[KeyOf[q]] = "active") => <>[](lookup[q] # "denied")
===============================================================================
