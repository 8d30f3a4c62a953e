------------------------------ MODULE Gateway ------------------------------
(***************************************************************************)
(* SubmitTransaction of the API gateway.  Several gateway processes share  *)
(* the idempotency keys in Redis and the transactions topic.  A call takes *)
(* the steps of the handler: rate limit and validation, CheckAndSet (SET   *)
(* NX, and GET when the key exists), the schema id under the mutex of the  *)
(* producer, the write to Kafka, the answer.  A client may send the same   *)
(* idempotency key in any number of calls, at the same time or one after   *)
(* the other.                                                              *)
(*                                                                         *)
(* The handler draws a fresh txn_id for every call, so that a call and the *)
(* transaction it would create go by the same name here.                   *)
(***************************************************************************)
EXTENDS Naturals, FiniteSets

CONSTANTS Calls,
          Keys,
          KeyOf,            \* the idempotency key each call carries
          Gateways,
          GatewayOf,        \* the process each call is sent to
          Lenient,          \* those whose on_redis_unavailable is not "reject"
          Deadlined,        \* the calls whose client set a deadline
          None,             \* no transaction
          MaxExpiries,      \* bound on the number of keys that expire
          MaxCrashes        \* bound on the number of crashes

ASSUME GatewayAssumption ==
    /\ IsFiniteSet(Calls)
    /\ KeyOf \in [Calls -> Keys]
    /\ GatewayOf \in [Calls -> Gateways]
    /\ Lenient \subseteq Gateways
    /\ Deadlined \subseteq Calls
    /\ None \notin Calls
    /\ MaxExpiries \in Nat
    /\ MaxCrashes \in Nat

VARIABLES stage,            \* where each call stands
          answer,           \* what each call was answered
          original,         \* the transaction an ALREADY_EXISTS names
          claim,            \* Redis: the transaction stored under each key
          hasSchema,        \* the gateways that know their schema id
          writing,          \* writes Kafka may still carry out
          enqueued,         \* the transactions on the topic
          kafkaUp,          \* whether Kafka answers writes, but to try again
          unclaimed,        \* calls that went on without a key of their own
          expiries,         \* how often each key expired
          crashes

calls == <<stage, answer, original>>
topic == <<writing, enqueued, kafkaUp>>
vars == <<calls, claim, hasSchema, topic, unclaimed, expiries, crashes>>

Stages == {"unsent", "setnx", "get", "schema", "fetching", "write", "over"}
Answers == {"none", "rejected", "duplicate", "internal", "accepted", "died"}
InFlight == {c \in Calls : stage[c] \notin {"unsent", "over"}}

(* The mutex of a producer has one owner at a time.                        *)
TypeOK ==
    /\ stage \in [Calls -> Stages]
    /\ answer \in [Calls -> Answers]
    /\ original \in [Calls -> Calls \cup {None}]
    /\ claim \in [Keys -> Calls \cup {None}]
    /\ hasSchema \subseteq Gateways
    /\ writing \subseteq Calls
    /\ enqueued \subseteq Calls
    /\ kafkaUp \in BOOLEAN
    /\ unclaimed \subseteq Calls
    /\ expiries \in [Keys -> 0..MaxExpiries]
    /\ crashes \in 0..MaxCrashes
    /\ \A c, d \in Calls :
          stage[c] = "fetching" /\ stage[d] = "fetching"
              /\ GatewayOf[c] = GatewayOf[d] => c = d

Init ==
    /\ stage = [c \in Calls |-> "unsent"]
    /\ answer = [c \in Calls |-> "none"]
    /\ original = [c \in Calls |-> None]
    /\ claim = [k \in Keys |-> None]
    /\ hasSchema = {}
    /\ writing = {}
    /\ enqueued = {}
    /\ kafkaUp \in BOOLEAN
    /\ unclaimed = {}
    /\ expiries = [k \in Keys |-> 0]
    /\ crashes = 0

-----------------------------------------------------------------------------
Goto(c, s) == stage' = [stage EXCEPT ![c] = s] /\ UNCHANGED <<answer, original>>

Reply(c, a) ==
    /\ stage' = [stage EXCEPT ![c] = "over"]
    /\ answer' = [answer EXCEPT ![c] = a]
    /\ UNCHANGED original

ReplyDuplicate(c, t) ==
    /\ stage' = [stage EXCEPT ![c] = "over"]
    /\ answer' = [answer EXCEPT ![c] = "duplicate"]
    /\ original' = [original EXCEPT ![c] = t]

(* Variations that the properties below rule out: a schema id that is read *)
(* without the mutex, a mutex that is held until the write is done, a SET  *)
(* without NX, a claim before the other checks.                            *)
LockSchemaWithoutMutex(c) ==
    /\ stage[c] = "schema"
    /\ Goto(c, IF GatewayOf[c] \in hasSchema THEN "write" ELSE "fetching")
    /\ UNCHANGED <<claim, hasSchema, topic, unclaimed, expiries, crashes>>

ClaimAnyway(c) ==
    /\ stage[c] = "setnx"
    /\ claim' = [claim EXCEPT ![KeyOf[c]] = c]
    /\ Goto(c, "schema")
    /\ UNCHANGED <<hasSchema, topic, unclaimed, expiries, crashes>>

ReceiveAfterClaim(c) ==
    /\ stage[c] = "unsent"
    /\ \/ Goto(c, "setnx") /\ claim' = claim
       \/ /\ Reply(c, "rejected")
          /\ claim' = [claim EXCEPT ![KeyOf[c]] = IF @ = None THEN c ELSE @]
    /\ UNCHANGED <<hasSchema, topic, unclaimed, expiries, crashes>>

MutexHeldOverWrite(g) ==
    \A d \in Calls : GatewayOf[d] = g => stage[d] \notin {"fetching", "write"}

-----------------------------------------------------------------------------
(* The call is received: the rate limiter and the validator reject it, or  *)
(* it goes on.                                                             *)
Receive(c) ==
    /\ stage[c] = "unsent"
    /\ Goto(c, "setnx") \/ Reply(c, "rejected")
    /\ UNCHANGED <<claim, hasSchema, topic, unclaimed, expiries, crashes>>

(* SET NX creates the key. *)
Claim(c) ==
    /\ stage[c] = "setnx"
    /\ claim[KeyOf[c]] = None
    /\ claim' = [claim EXCEPT ![KeyOf[c]] = c]
    /\ Goto(c, "schema")
    /\ UNCHANGED <<hasSchema, topic, unclaimed, expiries, crashes>>

(* SET NX finds the key.  That may be the call's own: the Redis client     *)
(* sends the command again when the reply to the first one is late.        *)
ClaimExists(c) ==
    /\ stage[c] = "setnx"
    /\ claim' = [claim EXCEPT ![KeyOf[c]] = IF @ = None THEN c ELSE @]
    /\ Goto(c, "get")
    /\ UNCHANGED <<hasSchema, topic, unclaimed, expiries, crashes>>

(* What an error of Redis amounts to, which CheckAndSet either ignores or  *)
(* returns.                                                                *)
RedisError(c) ==
    \/ /\ GatewayOf[c] \in Lenient
       /\ Goto(c, "schema")
       /\ unclaimed' = unclaimed \cup {c}
    \/ /\ GatewayOf[c] \notin Lenient
       /\ Reply(c, "internal")
       /\ unclaimed' = unclaimed

(* SET NX returns an error, and may have created the key all the same. *)
ClaimFails(c) ==
    /\ stage[c] = "setnx"
    /\ \/ claim' = claim
       \/ /\ claim[KeyOf[c]] = None
          /\ claim' = [claim EXCEPT ![KeyOf[c]] = c]
    /\ RedisError(c)
    /\ UNCHANGED <<hasSchema, topic, expiries, crashes>>

GetFindsOriginal(c) ==
    /\ stage[c] = "get"
    /\ claim[KeyOf[c]] # None
    /\ ReplyDuplicate(c, claim[KeyOf[c]])
    /\ UNCHANGED <<claim, hasSchema, topic, unclaimed, expiries, crashes>>

(* The key expired since: the call counts as new, and stores no key.       *)
GetFindsNothing(c) ==
    /\ stage[c] = "get"
    /\ claim[KeyOf[c]] = None
    /\ Goto(c, "schema")
    /\ unclaimed' = unclaimed \cup {c}
    /\ UNCHANGED <<claim, hasSchema, topic, expiries, crashes>>

GetFails(c) ==
    /\ stage[c] = "get"
    /\ RedisError(c)
    /\ UNCHANGED <<claim, hasSchema, topic, expiries, crashes>>

-----------------------------------------------------------------------------
(* getSchemaID under the mutex: known, or asked of the registry while the  *)
(* mutex is held.  Only a success is remembered.                           *)
MutexFree(g) == \A d \in Calls : GatewayOf[d] = g => stage[d] # "fetching"

LockSchema(c) ==
    /\ stage[c] = "schema"
    /\ MutexFree(GatewayOf[c])
    /\ Goto(c, IF GatewayOf[c] \in hasSchema THEN "write" ELSE "fetching")
    /\ UNCHANGED <<claim, hasSchema, topic, unclaimed, expiries, crashes>>

SchemaFetched(c) ==
    /\ stage[c] = "fetching"
    /\ hasSchema' = hasSchema \cup {GatewayOf[c]}
    /\ Goto(c, "write")
    /\ UNCHANGED <<claim, topic, unclaimed, expiries, crashes>>

(* Publish returns the error of the registry; the key stays claimed.       *)
SchemaFails(c) ==
    /\ stage[c] = "fetching"
    /\ Reply(c, "internal")
    /\ UNCHANGED <<claim, hasSchema, topic, unclaimed, expiries, crashes>>

(* WriteMessages waits for its batch, which is tried Retries + 1 times:     *)
(* 2^31 times as configured, so that it stays in the hands of the writer    *)
(* until Kafka has it or refuses it for good.                              *)
WriteSucceeds(c) ==
    /\ stage[c] = "write" /\ kafkaUp
    /\ enqueued' = enqueued \cup {c}
    /\ Reply(c, "accepted")
    /\ UNCHANGED <<claim, hasSchema, writing, kafkaUp, unclaimed, expiries, crashes>>

(* WriteMessages returns an error, of Kafka or because the client is gone   *)
(* or its deadline is over; the key stays claimed.  The batch may still be *)
(* on its way to the broker, when the context ended the wait.              *)
WriteFails(c) ==
    /\ stage[c] = "write"
    /\ writing' \in {writing, writing \cup {c}}
    /\ Reply(c, "internal")
    /\ UNCHANGED <<claim, hasSchema, enqueued, kafkaUp, unclaimed, expiries, crashes>>

(* The broker has the batch after all, or it is dropped. *)
LateWrite(c) ==
    /\ c \in writing
    /\ writing' = writing \ {c}
    /\ enqueued' \in {enqueued, enqueued \cup {c}}
    /\ UNCHANGED <<calls, claim, hasSchema, kafkaUp, unclaimed, expiries, crashes>>

(* An outage of Kafka begins or ends. *)
Outage ==
    /\ kafkaUp' = ~kafkaUp
    /\ UNCHANGED <<calls, claim, hasSchema, writing, enqueued, unclaimed, expiries, crashes>>

-----------------------------------------------------------------------------
(* The TTL of a key runs out: a day, which no call is at work for unless    *)
(* it waits for Kafka.                                                     *)
Expire(k) ==
    /\ claim[k] # None
    /\ claim[k] \in InFlight => stage[claim[k]] = "write"
    /\ expiries[k] < MaxExpiries
    /\ claim' = [claim EXCEPT ![k] = None]
    /\ expiries' = [expiries EXCEPT ![k] = @ + 1]
    /\ UNCHANGED <<calls, hasSchema, topic, unclaimed, crashes>>

(* A gateway dies with its calls; a write it had begun may be on the topic. *)
Crash(g) ==
    LET dying == {c \in InFlight : GatewayOf[c] = g}
    IN  /\ crashes < MaxCrashes
        /\ crashes' = crashes + 1
        /\ stage' = [c \in Calls |-> IF c \in dying THEN "over" ELSE stage[c]]
        /\ answer' = [c \in Calls |-> IF c \in dying THEN "died" ELSE answer[c]]
        /\ \E sent \in SUBSET {c \in dying : stage[c] = "write"} :
              writing' = writing \cup sent
        /\ hasSchema' = hasSchema \ {g}
        /\ UNCHANGED <<original, claim, enqueued, kafkaUp, unclaimed, expiries>>

Handle(c) == \/ Claim(c) \/ ClaimExists(c) \/ ClaimFails(c)
             \/ GetFindsOriginal(c) \/ GetFindsNothing(c) \/ GetFails(c)
             \/ LockSchema(c) \/ SchemaFetched(c) \/ SchemaFails(c)

WriteReturns(c) == WriteSucceeds(c) \/ WriteFails(c)

Next == \/ \E c \in Calls : Receive(c) \/ Handle(c) \/ WriteReturns(c) \/ LateWrite(c)
        \/ \E k \in Keys : Expire(k)
        \/ \E g \in Gateways : Crash(g)
        \/ Outage

(* Every call that was received goes on: the commands to Redis and the     *)
(* request to the registry have timeouts, a mutex that is free is taken.   *)
(* A write has none of its own: it returns if Kafka goes on answering, or  *)
(* when the deadline of the client is over.  Clients send what they like,  *)
(* and an outage may last.                                                 *)
Fairness ==
    /\ \A c \in Calls : WF_vars(Handle(c)) /\ WF_vars(kafkaUp /\ WriteReturns(c))
    /\ \A c \in Deadlined : WF_vars(WriteReturns(c))

Safety == Init /\ [][Next]_vars
Spec == Safety /\ Fairness

-----------------------------------------------------------------------------
OnItsWay == enqueued \cup writing

(* A key admits one transaction, and one more for every time it expired    *)
(* and every call that went on without claiming it because Redis failed or *)
(* because the key expired under it: whatever the interleaving of calls    *)
(* with the same key on different gateways, whatever fails between the     *)
(* claim and the write (CheckAndSet, SubmitTransaction).                   *)
OneTransactionPerClaim ==
    \A k \in Keys :
        Cardinality({c \in OnItsWay : KeyOf[c] = k})
            <= 1 + expiries[k] + Cardinality({c \in unclaimed : KeyOf[c] = k})

(* The transaction an ALREADY_EXISTS names is one with the same key whose  *)
(* own call passed the checks and was not itself found to be a duplicate   *)
(* of another: it is on the topic, or its call is still at work, failed,   *)
(* or died (CheckAndSet, SubmitTransaction).  The one duplicate a call may *)
(* be found to be is of itself, after a repeated SET NX.                   *)
DuplicateNamesClaimant ==
    \A c \in Calls : answer[c] = "duplicate" =>
        LET t == original[c]
        IN  /\ t \in Calls
            /\ KeyOf[t] = KeyOf[c]
            /\ \/ t \in OnItsWay \/ t \in InFlight
               \/ answer[t] \in {"internal", "died"}
               \/ original[t] = t

(* A call that a gateway received gets as far as the write whatever other  *)
(* calls wait for: none waits for good on Redis or for the mutex, not      *)
(* behind a write that hangs either.  It is over in the end, answered or   *)
(* dead with its gateway, if its client set a deadline or if Kafka answers *)
(* from some time on; in an outage it may wait for as long as that lasts   *)
(* (SubmitTransaction, getSchemaID, WriteMessages).                        *)
EveryCallEnds ==
    /\ \A c \in Calls : c \in InFlight ~> stage[c] \in {"write", "over"}
    /\ \A c \in Deadlined : c \in InFlight ~> stage[c] = "over"
    /\ \A c \in Calls : <>[]kafkaUp => (c \in InFlight ~> stage[c] = "over")

(* API_SPEC.md of SubmitTransaction: "INTERNAL: Idempotency store or Kafka *)
(* publish failed unexpectedly - safe to retry".  A retry that is answered *)
(* ALREADY_EXISTS must not name a transaction that nothing will enqueue.   *)
InternalIsSafeToRetry ==
    \A c \in Calls :
        answer[c] = "duplicate" /\ answer[original[c]] = "internal"
            => original[c] \in OnItsWay
=============================================================================
