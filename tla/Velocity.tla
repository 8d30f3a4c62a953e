-------------------------------- MODULE Velocity --------------------------------
(***************************************************************************)
(* Record of the fraud engine's velocity store, for one card and one       *)
(* window: a pipeline of writes, then reads, to Redis, one command at a    *)
(* time.  Other deliveries for the card, of other workers or of another    *)
(* engine, run between any two commands, and keys expire.  The engines'    *)
(* clocks agree.  The rules of one window get the same commands, on keys   *)
(* of their own; the sorted set here stands for that of a count rule and   *)
(* of an amount rule, and a transaction for its merchant and terminal.     *)
(***************************************************************************)
EXTENDS Integers, FiniteSets

CONSTANTS Txns,       \* transactions of the card
          Jobs,       \* deliveries to an engine, the redeliveries included
          TxnOf,      \* TxnOf[j]: the transaction that j delivers
          Window,     \* the window of the rule, in ticks
          Bucket,     \* the bucket of the HyperLogLogs, in ticks
          Slack,      \* bound: ticks a call of Record may take
          MaxTime     \* bound: ticks

ASSUME VelocityAssumption ==
    /\ TxnOf \in [Jobs -> Txns] /\ Txns \cap Jobs = {}
    /\ Window \in Nat \ {0} /\ Bucket \in Nat \ {0}
    /\ Slack \in Nat /\ Slack <= Window /\ Slack <= Bucket
    /\ MaxTime \in Nat /\ IsFiniteSet(Txns) /\ IsFiniteSet(Jobs)

NoScore == 0 - 2 * Window
Writes == {"prune", "add", "keep", "value", "keepvalue", "unique", "keepunique"}
Reads  == {"count", "range", "sum", "distinct"}
CardBuckets == 0 .. MaxTime \div Bucket

VARIABLES clock,
          stage,      \* stage[j]: the command j sends next, or how it ended
          now,        \* now[j]: nowMs
          scores,     \* the sorted set: scores[m], or NoScore
          values,     \* the members of the hash with the amounts
          uniques,    \* uniques[b]: the members of the HyperLogLog of bucket b
          lives,      \* lives[b]: ticks that HyperLogLog has to live, 0: no end is set
          ttl,        \* ticks the sorted set and the hash have to live
          ranged,     \* ranged[j]: what ZRANGEBYSCORE answered j
          last,       \* last[t]: the score t was last given, or NoScore
          unkept,     \* transactions with a score that no EXPIRE of theirs kept
          added,      \* added[b]: the transactions that were put in bucket b
          cut,        \* buckets left without an end by a pipeline whose EXPIRE was not sent
          dropped     \* transactions whose amount expired before EXPIRE was sent

velocityVars == <<clock, stage, now, scores, values, uniques, lives, ttl, ranged,
                  last, unkept, added, cut, dropped>>

VelocityTypeOK ==
    /\ clock \in 0 .. MaxTime
    /\ stage \in [Jobs -> {"new", "done", "failed"} \cup Writes \cup Reads]
    /\ now \in [Jobs -> 0 .. MaxTime]
    /\ scores \in [Txns \cup Jobs -> (0 .. MaxTime) \cup {NoScore}]
    /\ values \subseteq Txns \cup Jobs
    /\ uniques \in [CardBuckets -> SUBSET Txns]
    /\ lives \in [CardBuckets -> 0 .. 2 * Bucket] /\ cut \subseteq CardBuckets
    /\ ttl \in [set : 0 .. 2 * Window, hash : 0 .. 2 * Window]
    /\ ranged \in [Jobs -> SUBSET (Txns \cup Jobs)]
    /\ last \in [Txns -> (0 .. MaxTime) \cup {NoScore}] /\ unkept \subseteq Txns
    /\ added \in [CardBuckets -> SUBSET Txns] /\ dropped \subseteq Txns

VelocityInit ==
    /\ clock = 0 /\ stage = [j \in Jobs |-> "new"] /\ now = [j \in Jobs |-> 0]
    /\ scores = [m \in Txns \cup Jobs |-> NoScore]
    /\ values = {} /\ uniques = [b \in CardBuckets |-> {}]
    /\ lives = [b \in CardBuckets |-> 0] /\ cut = {}
    /\ ttl = [set |-> 0, hash |-> 0] /\ ranged = [j \in Jobs |-> {}]
    /\ last = [t \in Txns |-> NoScore] /\ unkept = {}
    /\ added = [b \in CardBuckets |-> {}] /\ dropped = {}

-------------------------------------------------------------------------------
(* The pipeline of writes.                                                 *)

\* What a bug would do: a member for each delivery.
MemberPerDelivery(j) == j

\* The member of the sorted set and the field of the hash: the txn_id.
Member(j) == TxnOf[j]

To(j, next) == stage' = [stage EXCEPT ![j] = next]

Forget(j) == now' = [now EXCEPT ![j] = 0]

\* nowMs is read once.
Begin(j) ==
    /\ stage[j] = "new" /\ To(j, "prune") /\ now' = [now EXCEPT ![j] = clock]
    /\ UNCHANGED <<clock, scores, values, uniques, lives, ttl, ranged, last, unkept,
                   added, cut, dropped>>

Stale(j) == {m \in Txns \cup Jobs : scores[m] <= now[j] - Window}

\* A sorted set that is empty is no key: its time to live is gone.
PruneScores(j) ==
    /\ scores' = [m \in Txns \cup Jobs |-> IF m \in Stale(j) THEN NoScore ELSE scores[m]]
    /\ ttl' = IF Stale(j) = Txns \cup Jobs THEN [ttl EXCEPT !.set = 0] ELSE ttl

\* What a bug would do: delete the amounts of what is pruned, too.
PruneBoth(j) ==
    /\ stage[j] = "prune" /\ To(j, "add") /\ PruneScores(j)
    /\ values' = values \ Stale(j)
    /\ UNCHANGED <<clock, now, uniques, lives, ranged, last, unkept, added, cut,
                   dropped>>

\* ZREMRANGEBYSCORE; the hash is left alone.
Prune(j) ==
    /\ stage[j] = "prune" /\ To(j, "add") /\ PruneScores(j)
    /\ UNCHANGED <<clock, now, values, uniques, lives, ranged, last, unkept, added,
                   cut, dropped>>

\* ZADD: a member that is there gets the new score.
Add(j) ==
    /\ stage[j] = "add" /\ To(j, "keep")
    /\ scores' = [scores EXCEPT ![Member(j)] = now[j]]
    /\ last' = [last EXCEPT ![TxnOf[j]] = now[j]] /\ unkept' = unkept \cup {TxnOf[j]}
    /\ UNCHANGED <<clock, now, values, uniques, lives, ttl, ranged, added, cut,
                   dropped>>

\* EXPIRE; nothing happens if the key is gone.
KeepScores(j) ==
    /\ stage[j] = "keep" /\ To(j, "value")
    /\ ttl' = IF \A m \in Txns \cup Jobs : scores[m] = NoScore
              THEN ttl ELSE [ttl EXCEPT !.set = 2 * Window]
    /\ unkept' = IF scores[Member(j)] = NoScore THEN unkept ELSE unkept \ {TxnOf[j]}
    /\ UNCHANGED <<clock, now, scores, values, uniques, lives, ranged, last, added,
                   cut, dropped>>

\* HSET.
SetValue(j) ==
    /\ stage[j] = "value" /\ To(j, "keepvalue")
    /\ values' = values \cup {Member(j)} /\ dropped' = dropped \ {TxnOf[j]}
    /\ UNCHANGED <<clock, now, scores, uniques, lives, ttl, ranged, last, unkept,
                   added, cut>>

\* EXPIRE of the hash.
KeepValues(j) ==
    /\ stage[j] = "keepvalue" /\ To(j, "unique")
    /\ ttl' = IF values = {} THEN ttl ELSE [ttl EXCEPT !.hash = 2 * Window]
    /\ UNCHANGED <<clock, now, scores, values, uniques, lives, ranged, last, unkept,
                   added, cut, dropped>>

BucketOf(j) == now[j] \div Bucket

\* PFADD, under the key of the bucket that the call began in.
AddUnique(j) ==
    /\ stage[j] = "unique" /\ To(j, "keepunique")
    /\ uniques' = [uniques EXCEPT ![BucketOf(j)] = @ \cup {TxnOf[j]}]
    /\ added' = [added EXCEPT ![BucketOf(j)] = @ \cup {TxnOf[j]}]
    /\ UNCHANGED <<clock, now, scores, values, lives, ttl, ranged, last, unkept,
                   cut, dropped>>

ExpireUnique(j, life) ==
    /\ stage[j] = "keepunique" /\ To(j, "count")
    /\ lives' = IF uniques[BucketOf(j)] = {}
                THEN lives ELSE [lives EXCEPT ![BucketOf(j)] = life]
    /\ cut' = cut \ {BucketOf(j)}
    /\ UNCHANGED <<clock, now, scores, values, uniques, ttl, ranged, last, unkept,
                   added, dropped>>

\* What a bug would do: keep the bucket for as long as it is added to.
KeepUniqueOneBucket(j) == ExpireUnique(j, Bucket)

\* EXPIRE; a bucket is added to for Bucket ticks and lives two of them.
KeepUnique(j) == ExpireUnique(j, 2 * Bucket)

\* Exec returns an error: the commands after some point were not carried out,
\* those before were.  The engine goes on with zero counts.
ExecFails(j) ==
    /\ stage[j] \in Writes \cup {"count"} /\ To(j, "failed") /\ Forget(j)
    /\ cut' = cut \cup {b \in CardBuckets :
                             stage[j] = "keepunique" /\ b = BucketOf(j) /\ lives[b] = 0}
    /\ UNCHANGED <<clock, scores, values, uniques, lives, ttl, ranged, last, unkept,
                   added, dropped>>

-------------------------------------------------------------------------------
(* The reads.  Each may fail, which counts as a zero.                      *)

NoWrite == UNCHANGED <<clock, scores, values, uniques, lives, ttl, last, unkept,
                       added, cut, dropped>>

InWindow(j) == {m \in Txns \cup Jobs : scores[m] >= now[j] - Window}

Counted(j) == Cardinality(InWindow(j))

\* ZCOUNT.
Count(j) == stage[j] = "count" /\ To(j, "range") /\ NoWrite /\ UNCHANGED <<now, ranged>>

\* ZRANGEBYSCORE; a failure skips the sum.
RangeScores(j) ==
    /\ stage[j] = "range" /\ NoWrite /\ UNCHANGED now
    /\ \/ To(j, "sum") /\ ranged' = [ranged EXCEPT ![j] = InWindow(j)]
       \/ To(j, "distinct") /\ UNCHANGED ranged

\* HMGET; a member without a value is left out of the sum.
Summed(j) == ranged[j] \cap values

Sum(j) ==
    /\ stage[j] = "sum" /\ To(j, "distinct") /\ NoWrite /\ UNCHANGED now
    /\ ranged' = [ranged EXCEPT ![j] = {}]

\* PFCOUNT.
CountUnique(j) ==
    /\ stage[j] = "distinct" /\ To(j, "done") /\ Forget(j) /\ NoWrite /\ UNCHANGED ranged

VelocityTick ==
    /\ clock < MaxTime
    /\ \A j \in Jobs : stage[j] \in Writes \cup Reads => clock - now[j] < Slack
    /\ clock' = clock + 1
    /\ scores' = IF ttl.set = 1 THEN [m \in Txns \cup Jobs |-> NoScore] ELSE scores
    /\ values' = IF ttl.hash = 1 THEN {} ELSE values
    /\ dropped' = IF ttl.hash = 1
                  THEN dropped \cup {TxnOf[j] : j \in {i \in Jobs : stage[i] = "keepvalue"}}
                  ELSE dropped
    /\ ttl' = [set |-> IF ttl.set = 0 THEN 0 ELSE ttl.set - 1,
               hash |-> IF ttl.hash = 0 THEN 0 ELSE ttl.hash - 1]
    /\ uniques' = [b \in CardBuckets |-> IF lives[b] = 1 THEN {} ELSE uniques[b]]
    /\ lives' = [b \in CardBuckets |-> IF lives[b] = 0 THEN 0 ELSE lives[b] - 1]
    /\ UNCHANGED <<stage, now, ranged, last, unkept, added, cut>>

VelocityNext ==
    \/ \E j \in Jobs :
        \/ Begin(j) \/ Prune(j) \/ Add(j) \/ KeepScores(j) \/ SetValue(j)
        \/ KeepValues(j) \/ AddUnique(j) \/ KeepUnique(j) \/ ExecFails(j)
        \/ Count(j) \/ RangeScores(j) \/ Sum(j) \/ CountUnique(j)
    \/ VelocityTick

VelocitySpec == VelocityInit /\ [][VelocityNext]_velocityVars

-------------------------------------------------------------------------------
(* Properties.                                                             *)

\* A redelivery is not counted twice, and pruning takes nothing that is in the
\* window: when ZCOUNT is answered, the number is at most that of the transactions
\* since Window ticks before the delivery began, and at least that of the last
\* Window ticks.  A transaction whose own EXPIRE was not sent, or came after the
\* set was gone, may be missing: the set may be about to expire when it is added,
\* kept alive by nobody since earlier EXPIREs failed (store.go:64-70, 109-112).
CountsTheWindow ==
    \A j \in Jobs : stage[j] = "count" =>
        /\ Cardinality({t \in Txns \ unkept : last[t] > clock - Window}) <= Counted(j)
        /\ Counted(j) <= Cardinality({t \in Txns : last[t] >= now[j] - Window})

\* A transaction that ZRANGEBYSCORE returned has its amount in the sum, although
\* another delivery may prune it before HMGET: unless the hash, which is never
\* pruned, expired just before its own EXPIRE was sent (store.go:89-90).
SumsTheWindow ==
    \A j \in Jobs : stage[j] = "sum" =>
        \A t \in ranged[j] : t \in Summed(j) \/ t \in dropped
                             \/ \E i \in Jobs : TxnOf[i] = t /\ stage[i] \in
                                    {"keep", "value", "failed"}

\* The merchants that are counted are those of the transactions of the bucket
\* in which the delivery began, its own among them: none is lost to the expiry of
\* the key, although calls run past the end of the bucket (a fixed bucket of five
\* minutes, not the last five minutes), and a bucket lives for ever only if a
\* pipeline was cut before its EXPIRE and none was sent since (store.go:94-102).
UniqueInBucket ==
    /\ \A j \in Jobs : stage[j] \in Reads =>
           /\ TxnOf[j] \in uniques[BucketOf(j)]
           /\ uniques[BucketOf(j)] = added[BucketOf(j)]
    /\ \A b \in CardBuckets \ cut : uniques[b] # {} /\ lives[b] = 0 =>
           \E j \in Jobs : stage[j] = "keepunique" /\ BucketOf(j) = b
=================================================================================
