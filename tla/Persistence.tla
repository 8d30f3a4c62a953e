---------------------------- MODULE Persistence ----------------------------
(***************************************************************************)
(* The persistence service: every replica runs one loop (Processor.Run)    *)
(* that collects fraud results into a batch, writes the batch to the       *)
(* transactions table in one transaction when it is full or the flush      *)
(* ticker fires, and then commits the offsets of the batch.  A batch that  *)
(* cannot be written goes to the DLQ message by message.  A message that   *)
(* does not decode goes to the DLQ at once, and its offset is committed    *)
(* while the batch in memory may hold messages that precede it.            *)
(***************************************************************************)
EXTENDS ConsumerGroup, Sequences

CONSTANTS Txn,          \* the transaction each message is a verdict on
          Undecodable,  \* messages that fail decodeConfluentProto
          MaxBatchSize,
          MaxAttempts   \* retry.max_attempts

ASSUME PersistenceAssumption ==
    /\ DOMAIN Txn = Messages
    /\ Undecodable \subseteq Messages
    /\ MaxBatchSize \in Nat \ {0}
    /\ MaxAttempts \in Nat \ {0}

VARIABLES phase,        \* where each replica's loop stands
          batch,        \* the messages it collected, in the order fetched
          bad,          \* the undecodable message it handles (0: none)
          attempt,      \* the upsert attempt it is at
          unsent,       \* the rest of the batch that is to go to the DLQ
          stopping,     \* the replicas whose context is cancelled
          rows,         \* the message each transaction's row was written from
          stored,       \* the messages whose upsert was committed
          parked,       \* the messages whose DLQ publish succeeded
          abandoned     \* the messages whose DLQ publish returned an error

local == <<phase, batch, bad, attempt, unsent, stopping>>
outcome == <<rows, stored, parked, abandoned>>
vars == <<groupVars, local, outcome>>

Phases == {"loop", "poison", "poisonCommit", "upsert", "dlq", "commit"}
Transactions == {Txn[m] : m \in Messages}
InBatch(r) == {batch[r][i] : i \in DOMAIN batch[r]}

TypeOK ==
    /\ GroupTypeOK
    /\ phase \in [Replicas -> Phases]
    /\ batch \in [Replicas -> Seq(Messages)]
    /\ \A r \in Replicas : Len(batch[r]) <= MaxBatchSize
    /\ bad \in [Replicas -> 0..N]
    /\ attempt \in [Replicas -> 1..MaxAttempts]
    /\ unsent \in [Replicas -> Seq(Messages)]
    /\ stopping \subseteq Replicas
    /\ rows \in [Transactions -> 0..N]
    /\ stored \subseteq Messages
    /\ parked \subseteq Messages
    /\ abandoned \subseteq Messages

Init ==
    /\ GroupInit
    /\ phase = [r \in Replicas |-> "loop"]
    /\ batch = [r \in Replicas |-> <<>>]
    /\ bad = [r \in Replicas |-> 0]
    /\ attempt = [r \in Replicas |-> 1]
    /\ unsent = [r \in Replicas |-> <<>>]
    /\ stopping = {}
    /\ rows = [t \in Transactions |-> 0]
    /\ stored = {}
    /\ parked = {}
    /\ abandoned = {}

(* Variations that the properties below rule out: a batch that is flushed  *)
(* too late, a shutdown that forgets the batch, an insert that leaves an   *)
(* existing row alone, a write given up without the DLQ, an empty flush    *)
(* that no ticker starts.                                                  *)
FetchGoodOffByOne(r) ==
    /\ phase[r] = "loop"
    /\ \E m \in Messages \ Undecodable :
          /\ Deliver(r, m)
          /\ batch' = [batch EXCEPT ![r] = Append(@, m)]
          /\ phase' = [phase EXCEPT ![r] =
                          IF Len(batch[r]) >= MaxBatchSize THEN "upsert" ELSE "loop"]
    /\ UNCHANGED <<bad, attempt, unsent, stopping, outcome>>

ExitWithoutFlush(r) ==
    /\ r \in stopping
    /\ phase[r] = "loop"
    /\ LeaveByStop(r)
    /\ batch' = [batch EXCEPT ![r] = <<>>]
    /\ stopping' = stopping \ {r}
    /\ UNCHANGED <<phase, bad, attempt, unsent, outcome>>

WrittenOnce(b) ==
    [t \in Transactions |->
        IF rows[t] = 0 /\ \E i \in DOMAIN b : Txn[b[i]] = t
        THEN b[CHOOSE i \in DOMAIN b : Txn[b[i]] = t]
        ELSE rows[t]]

UpsertFailsAndDrops(r) ==
    /\ phase[r] = "upsert"
    /\ phase' = [phase EXCEPT ![r] = "commit"]
    /\ attempt' = [attempt EXCEPT ![r] = 1]
    /\ UNCHANGED <<groupVars, batch, bad, unsent, stopping, outcome>>

FlushWhenFull(r) ==
    /\ phase[r] = "loop"
    /\ Len(batch[r]) = MaxBatchSize
    /\ phase' = [phase EXCEPT ![r] = "upsert"]
    /\ UNCHANGED <<groupVars, batch, bad, attempt, unsent, stopping, outcome>>

-----------------------------------------------------------------------------
(* flush: processBatch starts.  Under a cancelled context the upsert fails *)
(* at once and withRetry does not wait for another attempt.                *)
StartFlush(r, b) ==
    /\ IF r \in stopping
       THEN /\ phase' = [phase EXCEPT ![r] = "dlq"]
            /\ unsent' = [unsent EXCEPT ![r] = b]
       ELSE /\ phase' = [phase EXCEPT ![r] = "upsert"]
            /\ unsent' = unsent

(* A message is fetched and decodes: it joins the batch, which is flushed  *)
(* when that fills it.                                                     *)
FetchGood(r) ==
    /\ phase[r] = "loop"
    /\ \E m \in Messages \ Undecodable :
          /\ Deliver(r, m)
          /\ batch' = [batch EXCEPT ![r] = Append(@, m)]
          /\ IF Len(batch[r]) + 1 >= MaxBatchSize
             THEN StartFlush(r, Append(batch[r], m))
             ELSE UNCHANGED <<phase, unsent>>
    /\ UNCHANGED <<bad, attempt, stopping, outcome>>

FetchBad(r) ==
    /\ phase[r] = "loop"
    /\ \E m \in Undecodable :
          /\ Deliver(r, m)
          /\ bad' = [bad EXCEPT ![r] = m]
    /\ phase' = [phase EXCEPT ![r] = "poison"]
    /\ UNCHANGED <<batch, attempt, unsent, stopping, outcome>>

(* The ticker fired, or the context is cancelled and this is the last flush. *)
Flush(r) ==
    /\ phase[r] = "loop"
    /\ batch[r] # <<>>
    /\ StartFlush(r, batch[r])
    /\ UNCHANGED <<groupVars, batch, bad, attempt, stopping, outcome>>

-----------------------------------------------------------------------------
(* One DLQ publish.  An error is logged and otherwise ignored.             *)
PublishDLQ(m) ==
    \/ parked' = parked \cup {m} /\ abandoned' = abandoned
    \/ abandoned' = abandoned \cup {m} /\ parked' = parked

ParkBad(r) ==
    /\ phase[r] = "poison"
    /\ PublishDLQ(bad[r])
    /\ phase' = [phase EXCEPT ![r] = "poisonCommit"]
    /\ UNCHANGED <<groupVars, batch, bad, attempt, unsent, stopping, rows, stored>>

(* The offset of the undecodable message alone is committed.               *)
CommitBad(r) ==
    /\ phase[r] = "poisonCommit"
    /\ CommitMessages({bad[r]})
    /\ phase' = [phase EXCEPT ![r] = "loop"]
    /\ bad' = [bad EXCEPT ![r] = 0]
    /\ UNCHANGED <<batch, attempt, unsent, stopping, outcome>>

-----------------------------------------------------------------------------
(* The rows after the upserts of b, in order: the last one wins.           *)
Written(b) ==
    [t \in Transactions |->
        IF \E i \in DOMAIN b : Txn[b[i]] = t
        THEN b[CHOOSE i \in DOMAIN b :
                   Txn[b[i]] = t /\ \A j \in DOMAIN b : Txn[b[j]] = t => j <= i]
        ELSE rows[t]]

(* UpsertBatch sends one pgx batch, which the server runs as one           *)
(* transaction: every row is written, or none is.                          *)
Apply(r) ==
    /\ rows' = Written(batch[r])
    /\ stored' = stored \cup InBatch(r)

UpsertSucceeds(r) ==
    /\ phase[r] = "upsert"
    /\ Apply(r)
    /\ phase' = [phase EXCEPT ![r] = "commit"]
    /\ attempt' = [attempt EXCEPT ![r] = 1]
    /\ UNCHANGED <<groupVars, batch, bad, unsent, stopping, parked, abandoned>>

(* An error is returned; the transaction may have been committed before    *)
(* the connection broke.  A row the table rejects makes every attempt fail *)
(* and takes its whole batch to the DLQ.                                   *)
UpsertFails(r) ==
    /\ phase[r] = "upsert"
    /\ Apply(r) \/ UNCHANGED <<rows, stored>>
    /\ \/ /\ attempt[r] < MaxAttempts
          /\ r \notin stopping
          /\ attempt' = [attempt EXCEPT ![r] = @ + 1]
          /\ UNCHANGED <<phase, unsent>>
       \/ /\ attempt[r] = MaxAttempts \/ r \in stopping
          /\ phase' = [phase EXCEPT ![r] = "dlq"]
          /\ unsent' = [unsent EXCEPT ![r] = batch[r]]
          /\ attempt' = [attempt EXCEPT ![r] = 1]
    /\ UNCHANGED <<groupVars, batch, bad, stopping, parked, abandoned>>

ParkNext(r) ==
    /\ phase[r] = "dlq"
    /\ unsent[r] # <<>>
    /\ PublishDLQ(Head(unsent[r]))
    /\ unsent' = [unsent EXCEPT ![r] = Tail(@)]
    /\ phase' = [phase EXCEPT ![r] = IF Len(unsent[r]) = 1 THEN "commit" ELSE "dlq"]
    /\ UNCHANGED <<groupVars, batch, bad, attempt, stopping, rows, stored>>

(* The offsets of the batch are committed, and the batch is emptied,       *)
(* whatever became of its messages.                                        *)
CommitBatch(r) ==
    /\ phase[r] = "commit"
    /\ CommitMessages(InBatch(r))
    /\ batch' = [batch EXCEPT ![r] = <<>>]
    /\ phase' = [phase EXCEPT ![r] = "loop"]
    /\ UNCHANGED <<bad, attempt, unsent, stopping, outcome>>

-----------------------------------------------------------------------------
(* SIGTERM cancels the context.  The loop flushes and returns when it is   *)
(* back at its FetchMessage, which may still return a message first.       *)
Stop(r) ==
    /\ r \notin stopping
    /\ ToldToStop
    /\ stopping' = stopping \cup {r}
    /\ UNCHANGED <<phase, batch, bad, attempt, unsent, outcome>>

Exit(r) ==
    /\ r \in stopping
    /\ phase[r] = "loop"
    /\ batch[r] = <<>>
    /\ LeaveByStop(r)
    /\ stopping' = stopping \ {r}
    /\ UNCHANGED <<phase, batch, bad, attempt, unsent, outcome>>

(* The process dies; all it held in memory is gone. *)
Crash(r) ==
    /\ LeaveByCrash(r)
    /\ phase' = [phase EXCEPT ![r] = "loop"]
    /\ batch' = [batch EXCEPT ![r] = <<>>]
    /\ bad' = [bad EXCEPT ![r] = 0]
    /\ attempt' = [attempt EXCEPT ![r] = 1]
    /\ unsent' = [unsent EXCEPT ![r] = <<>>]
    /\ stopping' = stopping \ {r}
    /\ UNCHANGED outcome

Rebalance(p, r) == Assign(p, r) /\ UNCHANGED <<local, outcome>>

Handle(r) == \/ ParkBad(r) \/ CommitBad(r)
             \/ UpsertSucceeds(r) \/ UpsertFails(r)
             \/ ParkNext(r) \/ CommitBatch(r)

Next == \/ \E r \in Replicas : \/ FetchGood(r) \/ FetchBad(r) \/ Flush(r)
                               \/ Handle(r)
                               \/ Stop(r) \/ Exit(r) \/ Crash(r)
        \/ \E p \in Partitions, r \in Replicas : Rebalance(p, r)

(* The loops go on, the ticker fires, and the group assigns every          *)
(* partition.  Nothing is assumed of the outcome of an upsert, a publish   *)
(* or a commit.                                                            *)
Fairness ==
    /\ \A r \in Replicas : /\ WF_vars(FetchGood(r) \/ FetchBad(r))
                           /\ WF_vars(Flush(r))
                           /\ WF_vars(Handle(r))
                           /\ WF_vars(Exit(r))
    /\ \A p \in Partitions :
          WF_vars(owner[p] = NoOwner /\ \E r \in Replicas : Rebalance(p, r))

Safety == Init /\ [][Next]_vars
Spec == Safety /\ Fairness

-----------------------------------------------------------------------------
(* A message has an outcome when it is in the table, when it is in the     *)
(* DLQ, or when the error of its DLQ publish was logged.                   *)
Settled == stored \cup parked \cup abandoned

Held == UNION {InBatch(r) \cup {bad[r]} : r \in Replicas}

Overtaken == Behind(committed) \ Settled

Lost == Overtaken \ Held

Contract == INSTANCE AtLeastOnce
                WITH settled <- Settled, lost <- Lost, Window <- MaxBatchSize - 1

(* The service loses at most max_batch_size - 1 messages for each crash,   *)
(* and none without a crash: those are the messages of an unflushed batch  *)
(* whose offsets an undecodable message overtook (Run, processBatch).      *)
LosesOnlyToCrashes == Contract!Safety

(* Every other message reaches the table, the DLQ or the log in the end,   *)
(* whatever the interleaving of failed writes, failed commits, crashes,    *)
(* stops and rebalances: a batch that is not full waits for the ticker or  *)
(* the shutdown, not for another message (Run).                            *)
EveryMessageSettles == Contract!Progress

(* A committed offset passes a message without an outcome only through the *)
(* commit of an undecodable message behind it in the same partition, never *)
(* through that of a batch (Run, processBatch).                            *)
OnlyPoisonOvertakes ==
    \A m \in Overtaken :
        \E u \in Undecodable : Part[u] = Part[m] /\ m < u /\ u <= committed[Part[m]]

(* The service is idle, with nothing left to read. *)
CaughtUp ==
    /\ \A r \in Replicas : phase[r] = "loop" /\ batch[r] = <<>>
    /\ \A p \in Partitions : owner[p] # NoOwner
    /\ \A m \in Messages : m <= position[Part[m]]

(* No crash makes the group pass over m once it was read: nothing behind   *)
(* it can overtake it, or no second crash came while it was read again.    *)
ReadAgain(m) ==
    crashes <= 1 \/ \A u \in Undecodable : Part[u] = Part[m] => u < m

(* As long as no partition moved, the row of a transaction whose verdicts  *)
(* are in one partition, and none of them in the DLQ, holds the newest of  *)
(* them whenever the service has caught up, although a restart replays     *)
(* older ones over it.  A second crash may leave an older one behind when  *)
(* an undecodable message overtook the replay (upsertSQL, UpsertBatch).    *)
NewestVerdictWins ==
    CaughtUp /\ moves = 0 =>
        \A m \in stored :
            /\ \A k \in parked \cup abandoned : Txn[k] # Txn[m]
            /\ \A k \in Messages : Txn[k] = Txn[m] => Part[k] = Part[m]
            /\ ReadAgain(m)
            => m <= rows[Txn[m]]

(* persistence-svc.yaml: "Commit Kafka offset only after successful DB     *)
(* write (or DLQ publish)".  The committed offset covers what precedes it. *)
CommitsOnlyStoredOrParked == Behind(committed) \subseteq stored \cup parked
=============================================================================
