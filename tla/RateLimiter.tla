------------------------------ MODULE RateLimiter ------------------------------
(***************************************************************************)
(* The limiter of the API gateway for one client (the clients share only   *)
(* the map).  Allow takes the client's token bucket from the map under the *)
(* mutex and a token from the bucket after it; in between, and however     *)
(* long the goroutine sleeps there, the cleanup may drop the bucket, and   *)
(* the next call starts with a full one.  The bucket is that of            *)
(* golang.org/x/time/rate, in whole tokens and ticks.                      *)
(***************************************************************************)
EXTENDS Integers, FiniteSets

CONSTANTS Calls,      \* goroutines that may be in Allow at one time
          Buckets,    \* the rate.Limiter objects
          NoBucket,   \* no entry in the map, no bucket in hand
          Rate,       \* requests_per_second, per tick
          Burst,      \* burst
          Refill,     \* ticks in which an empty bucket fills
          IdleLimit   \* entryIdleLimit, in ticks

ASSUME LimiterAssumption ==
    /\ NoBucket \notin Buckets /\ Burst \in Nat /\ Rate \in Nat
    /\ Refill \in Nat /\ Burst <= Rate * Refill
    /\ IdleLimit \in Nat /\ Refill <= IdleLimit

VARIABLES current,    \* the bucket in the map, or NoBucket
          tokens,     \* tokens[b]
          idle,       \* ticks since lastSeen of the entry (at most IdleLimit + 1)
          hand,       \* hand[c]: the bucket call c took from the map
          slept,      \* slept[c]: ticks since then (at most IdleLimit + 1)
          credit      \* what a single bucket that is never dropped would hold

limiterVars == <<current, tokens, idle, hand, slept, credit>>

Least(x, y) == IF x < y THEN x ELSE y

LimiterTypeOK ==
    /\ current \in Buckets \cup {NoBucket}
    /\ tokens \in [Buckets -> 0 .. Burst]
    /\ idle \in 0 .. IdleLimit + 1
    /\ hand \in [Calls -> Buckets \cup {NoBucket}]
    /\ slept \in [Calls -> 0 .. IdleLimit + 1]
    /\ credit \in Int

LimiterInit ==
    /\ current = NoBucket
    /\ tokens = [b \in Buckets |-> Burst]
    /\ idle = 0
    /\ hand = [c \in Calls |-> NoBucket]
    /\ slept = [c \in Calls |-> 0]
    /\ credit = Burst

\* An object that the map and the calls no longer reach.
Unused(b) == b # current /\ \A c \in Calls : hand[c] # b

Take(c, b) == hand' = [hand EXCEPT ![c] = b] /\ slept' = [slept EXCEPT ![c] = 0]

\* limiterFor, the entry exists: lastSeen is refreshed.
LookUp(c) ==
    /\ hand[c] = NoBucket /\ current # NoBucket
    /\ Take(c, current) /\ idle' = 0
    /\ UNCHANGED <<current, tokens, credit>>

\* limiterFor, no entry: rate.NewLimiter starts full.
Create(c, b) ==
    /\ hand[c] = NoBucket /\ current = NoBucket /\ Unused(b)
    /\ current' = b /\ tokens' = [tokens EXCEPT ![b] = Burst]
    /\ Take(c, b) /\ idle' = 0
    /\ UNCHANGED credit

\* A call that slept so long between the two lines of Allow that its bucket
\* could be dropped, and a new one be emptied, meanwhile.
Straggler(c) == slept[c] > IdleLimit - Refill

Put(c) == hand' = [hand EXCEPT ![c] = NoBucket] /\ slept' = [slept EXCEPT ![c] = 0]

\* What a bug would do: grant a call that finds the bucket empty.
GrantOffByOne(c) ==
    /\ hand[c] # NoBucket /\ tokens[hand[c]] >= 0 /\ Put(c)
    /\ tokens' = [tokens EXCEPT ![hand[c]] = @ - 1]
    /\ credit' = IF Straggler(c) THEN credit ELSE credit - 1
    /\ UNCHANGED <<current, idle>>

\* rate.Limiter.Allow has a token.
Grant(c) ==
    LET b == hand[c] IN
    /\ b # NoBucket /\ tokens[b] > 0 /\ Put(c)
    /\ tokens' = [tokens EXCEPT ![b] = @ - 1]
    /\ credit' = IF Straggler(c) THEN credit ELSE credit - 1
    /\ UNCHANGED <<current, idle>>

\* It has none: SubmitTransaction answers RESOURCE_EXHAUSTED.
Exhausted(c) ==
    /\ hand[c] # NoBucket /\ tokens[hand[c]] = 0 /\ Put(c)
    /\ UNCHANGED <<current, tokens, idle, credit>>

\* What a bug would do: the cutoff without the idle limit.
CleanUpAnyEntry ==
    /\ current # NoBucket /\ idle > 0 /\ current' = NoBucket
    /\ UNCHANGED <<tokens, idle, hand, slept, credit>>

\* The cleanup drops an entry that was not seen for more than the idle limit.
CleanUp ==
    /\ current # NoBucket /\ idle > IdleLimit /\ current' = NoBucket
    /\ UNCHANGED <<tokens, idle, hand, slept, credit>>

LimiterTick ==
    /\ tokens' = [b \in Buckets |-> Least(Burst, tokens[b] + Rate)]
    /\ credit' = Least(Burst, credit + Rate)
    /\ idle' = Least(IdleLimit + 1, idle + 1)
    /\ slept' = [c \in Calls |-> IF hand[c] = NoBucket THEN 0
                                 ELSE Least(IdleLimit + 1, slept[c] + 1)]
    /\ UNCHANGED <<current, hand>>

LimiterNext ==
    \/ \E c \in Calls : \/ LookUp(c) \/ (\E b \in Buckets : Create(c, b))
                        \/ Grant(c) \/ Exhausted(c)
    \/ CleanUp
    \/ LimiterTick

LimiterSpec == LimiterInit /\ [][LimiterNext]_limiterVars

-------------------------------------------------------------------------------
(* Properties.                                                             *)

\* The client never gets more than burst and rate allow, although the cleanup
\* throws buckets away and new ones start full: the calls that were granted in
\* any interval, except stragglers, fit into one bucket that was never dropped.
RateBound == credit >= 0
===============================================================================
