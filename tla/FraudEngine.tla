---------------------------- MODULE FraudEngine ----------------------------
(***************************************************************************)
(* The fraud engine's pipeline: every replica fetches transactions in      *)
(* order (Processor.Run) and hands each one to a goroutine of a bounded    *)
(* pool, which evaluates it, asks the Risk Service for a score under a     *)
(* second bound, publishes the result and commits the offset of this one   *)
(* message, also when the handler failed.  The goroutines finish in any    *)
(* order, so offsets are committed in any order.                           *)
(*                                                                         *)
(* The Redis state the evaluation updates on its way (velocity windows,    *)
(* circuit breaker) decides which score a result carries, not whether it   *)
(* is published, and is not part of this module.                           *)
(***************************************************************************)
EXTENDS ConsumerGroup

CONSTANTS Undecodable,    \* messages that fail deserializeTransaction
          PoolSize,       \* concurrency.worker_pool_size
          MaxRisk         \* concurrency.max_concurrent_risk_calls

ASSUME EngineAssumption ==
    /\ Undecodable \subseteq Messages
    /\ PoolSize \in Nat \ {0}
    /\ MaxRisk \in Nat \ {0}

VARIABLES fetched,        \* per replica the message waiting for the pool (0: none)
          jobs,           \* the messages in the hands of goroutines
          schema,         \* per replica what schemaOnce left behind
          stopping,       \* the replicas whose context is cancelled
          published,      \* how often each message's result was written
          failed          \* the messages some handler returned an error for

local == <<fetched, jobs, schema, stopping>>
outcome == <<published, failed>>
vars == <<groupVars, local, outcome>>

Stages == {"wait", "call", "publish", "commit"}

(* gen tells the deliveries of one message to one replica apart. *)
Job == [rep : Replicas, msg : Messages, gen : Nat, stage : Stages]

JobsOf(r) == {j \in jobs : j.rep = r}

TypeOK ==
    /\ GroupTypeOK
    /\ fetched \in [Replicas -> 0..N]
    /\ jobs \subseteq Job
    /\ \A r \in Replicas : Cardinality(JobsOf(r)) <= PoolSize
    /\ \A r \in Replicas : Cardinality({j \in JobsOf(r) : j.stage = "call"}) <= MaxRisk
    /\ schema \in [Replicas -> {"unset", "cached", "failed"}]
    /\ stopping \subseteq Replicas
    /\ published \in [Messages -> Nat]
    /\ failed \subseteq Messages

Init ==
    /\ GroupInit
    /\ fetched = [r \in Replicas |-> 0]
    /\ jobs = {}
    /\ schema = [r \in Replicas |-> "unset"]
    /\ stopping = {}
    /\ published = [m \in Messages |-> 0]
    /\ failed = {}

Advance(j, stage) == jobs' = (jobs \ {j}) \cup {[j EXCEPT !.stage = stage]}

(* Variations that the properties below rule out: a slot of sem given to   *)
(* one caller too many, a shutdown that does not wait for the pool, a      *)
(* failed write tried again within the handler, a handler that returns     *)
(* early without an error.                                                 *)
StartRiskCallOffByOne(j) ==
    /\ j.stage = "wait"
    /\ Cardinality({k \in JobsOf(j.rep) : k.stage = "call"}) <= MaxRisk
    /\ Advance(j, "call")
    /\ UNCHANGED <<groupVars, fetched, schema, stopping, outcome>>

ExitWithoutWait(r) ==
    /\ r \in stopping
    /\ fetched[r] = 0
    /\ LeaveByStop(r)
    /\ jobs' = jobs \ JobsOf(r)
    /\ schema' = [schema EXCEPT ![r] = "unset"]
    /\ stopping' = stopping \ {r}
    /\ UNCHANGED <<fetched, outcome>>

PublishFailsAndRetries(j) ==
    /\ j.stage = "publish"
    /\ schema[j.rep] # "failed"
    /\ published' = [published EXCEPT ![j.msg] = @ + 1]
    /\ UNCHANGED <<groupVars, local, failed>>

PublishFailsAndDrops(j) ==
    /\ j.stage = "publish"
    /\ jobs' = jobs \ {j}
    /\ UNCHANGED <<groupVars, fetched, schema, stopping, outcome>>

-----------------------------------------------------------------------------
(* FetchMessage returned a message; the loop now waits for workerSem. *)
Fetch(r) ==
    /\ fetched[r] = 0
    /\ \E m \in Messages : Deliver(r, m) /\ fetched' = [fetched EXCEPT ![r] = m]
    /\ UNCHANGED <<jobs, schema, stopping, outcome>>

(* A slot of the pool is free: a goroutine takes the message and runs      *)
(* handle up to the features.  A message that does not decode ends it with *)
(* an error; a failure of Redis is replaced by neutral values.             *)
Dispatch(r) ==
    /\ fetched[r] # 0
    /\ Cardinality(JobsOf(r)) < PoolSize
    /\ \E stage \in {"wait", "commit"} :
          /\ (stage = "commit") <=> (fetched[r] \in Undecodable)
          /\ failed' = IF stage = "commit" THEN failed \cup {fetched[r]} ELSE failed
          /\ jobs' = jobs \cup {[rep |-> r, msg |-> fetched[r],
                                 gen |-> crashes + moves, stage |-> stage]}
    /\ fetched' = [fetched EXCEPT ![r] = 0]
    /\ UNCHANGED <<groupVars, schema, stopping, published>>

-----------------------------------------------------------------------------
(* callRiskService takes one of the slots of sem ... *)
StartRiskCall(j) ==
    /\ j.stage = "wait"
    /\ Cardinality({k \in JobsOf(j.rep) : k.stage = "call"}) < MaxRisk
    /\ Advance(j, "call")
    /\ UNCHANGED <<groupVars, fetched, schema, stopping, outcome>>

(* ... and gives it back with a score, or with the fallback when the       *)
(* circuit is open or the call fails or times out.                         *)
EndRiskCall(j) ==
    /\ j.stage = "call"
    /\ Advance(j, "publish")
    /\ UNCHANGED <<groupVars, fetched, schema, stopping, outcome>>

-----------------------------------------------------------------------------
(* serializeFraudResult: the schema id is fetched once per process, and so *)
(* is the error if that fails.                                             *)
SchemaCached(r) ==
    /\ schema[r] \in {"unset", "cached"}
    /\ schema' = [schema EXCEPT ![r] = "cached"]

SchemaFailed(r) ==
    /\ schema[r] \in {"unset", "failed"}
    /\ schema' = [schema EXCEPT ![r] = "failed"]

PublishSucceeds(j) ==
    /\ j.stage = "publish"
    /\ SchemaCached(j.rep)
    /\ published' = [published EXCEPT ![j.msg] = @ + 1]
    /\ Advance(j, "commit")
    /\ UNCHANGED <<groupVars, fetched, stopping, failed>>

(* No schema id, or WriteMessages returned an error, when the broker may   *)
(* have the result all the same.                                           *)
PublishFails(j) ==
    /\ j.stage = "publish"
    /\ \/ SchemaFailed(j.rep) /\ published' = published
       \/ /\ SchemaCached(j.rep)
          /\ published' \in {published, [published EXCEPT ![j.msg] = @ + 1]}
    /\ failed' = failed \cup {j.msg}
    /\ Advance(j, "commit")
    /\ UNCHANGED <<groupVars, fetched, stopping>>

(* The goroutine commits the offset of its message, whatever handle        *)
(* returned, and ends.                                                     *)
Commit(j) ==
    /\ j.stage = "commit"
    /\ CommitMessages({j.msg})
    /\ jobs' = jobs \ {j}
    /\ UNCHANGED <<fetched, schema, stopping, outcome>>

-----------------------------------------------------------------------------
(* SIGTERM cancels the context; Run returns when the loop is back at its   *)
(* FetchMessage, which may still return a message, and the pool is empty.  *)
Stop(r) ==
    /\ r \notin stopping
    /\ ToldToStop
    /\ stopping' = stopping \cup {r}
    /\ UNCHANGED <<fetched, jobs, schema, outcome>>

Exit(r) ==
    /\ r \in stopping
    /\ fetched[r] = 0
    /\ JobsOf(r) = {}
    /\ LeaveByStop(r)
    /\ schema' = [schema EXCEPT ![r] = "unset"]
    /\ stopping' = stopping \ {r}
    /\ UNCHANGED <<fetched, jobs, outcome>>

Crash(r) ==
    /\ LeaveByCrash(r)
    /\ fetched' = [fetched EXCEPT ![r] = 0]
    /\ jobs' = jobs \ JobsOf(r)
    /\ schema' = [schema EXCEPT ![r] = "unset"]
    /\ stopping' = stopping \ {r}
    /\ UNCHANGED outcome

Rebalance(p, r) == Assign(p, r) /\ UNCHANGED <<local, outcome>>

Work(j) == \/ StartRiskCall(j) \/ EndRiskCall(j)
           \/ PublishSucceeds(j) \/ PublishFails(j) \/ Commit(j)

Next == \/ \E r \in Replicas : \/ Fetch(r) \/ Dispatch(r)
                               \/ Stop(r) \/ Exit(r) \/ Crash(r)
        \/ \E j \in jobs : Work(j)
        \/ \E p \in Partitions, r \in Replicas : Rebalance(p, r)

(* The loops go on, every goroutine that can take a step goes on in the    *)
(* end (calls return or time out, the slot of a channel goes to a waiting  *)
(* sender), and the group assigns every partition.  Nothing is assumed of  *)
(* the outcome of a call, a write or a commit.                             *)
Fairness ==
    /\ \A r \in Replicas : /\ WF_vars(Fetch(r))
                           /\ WF_vars(Dispatch(r))
                           /\ WF_vars(\E j \in JobsOf(r) : Work(j))
                           /\ WF_vars(Exit(r))
    /\ \A p \in Partitions :
          WF_vars(owner[p] = NoOwner /\ \E r \in Replicas : Rebalance(p, r))

Safety == Init /\ [][Next]_vars
Spec == Safety /\ Fairness

-----------------------------------------------------------------------------
Published == {m \in Messages : published[m] > 0}

(* A message has an outcome when its result was published or when its      *)
(* handler returned an error, which Run logs.                              *)
Settled == Published \cup failed

Held == {fetched[r] : r \in Replicas} \cup {j.msg : j \in jobs}

Lost == Behind(committed) \ (Settled \cup Held)

Contract == INSTANCE AtLeastOnce
                WITH settled <- Settled, lost <- Lost, Window <- PoolSize - 1

(* A crash loses at most worker_pool_size - 1 transactions: those in the   *)
(* hands of other goroutines when one committed a later offset.  Nothing   *)
(* is lost without a crash, whatever the order of the goroutines, although *)
(* offsets move back and forth (Processor.Run).                            *)
LosesOnlyToCrashes == Contract!Safety

(* Every other transaction is published or ends with an error in the log:  *)
(* neither of the two bounds, nor a write or a schema fetch that fails,    *)
(* blocks the pipeline for good (Run, callRiskService).                    *)
EveryMessageSettles == Contract!Progress

(* A result is published again only because its transaction was delivered  *)
(* again: one delivery makes at most one write, and only a crash, a stop   *)
(* or a rebalance rewinds the position of the reader, never a commit of a  *)
(* smaller offset than the one committed before.                           *)
WritesBounded == \A m \in Messages : published[m] <= 1 + crashes + moves

(* fraud-engine.yaml: "manual commit after full pipeline completes".  The  *)
(* committed offset covers what precedes it.                               *)
CommitsOnlyCompleted == Behind(committed) \subseteq Settled
=============================================================================
