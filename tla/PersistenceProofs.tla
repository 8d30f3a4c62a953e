------------------------- MODULE PersistenceProofs -------------------------
(***************************************************************************)
(* Proofs about the persistence service, for any number of messages,       *)
(* transactions, replicas and partitions, any batch size and any bounds    *)
(* on crashes, rebalances and attempts.                                    *)
(*                                                                         *)
(* TypeCorrect: the type invariant; no batch exceeds its limit.            *)
(* OnlyPoisonPasses: only the commit of an undecodable message passes a    *)
(*   message without an outcome.                                           *)
(* LossesNeedCrashes: the service implements the safety part of the        *)
(*   contract AtLeastOnce with a window of MaxBatchSize - 1.               *)
(* NewestVerdictStays: as long as no partition moves, the row of a         *)
(*   transaction is its newest verdict once the service caught up.         *)
(***************************************************************************)
EXTENDS Persistence, ConsumerGroupProofs, SequenceTheorems

-----------------------------------------------------------------------------
(* The types, with what a loop may hold in each of its phases. *)
TypeInv ==
    /\ TypeOK
    /\ \A r \in Replicas :
          /\ phase[r] \in {"poison", "poisonCommit"} => bad[r] \in Undecodable
          /\ phase[r] \notin {"poison", "poisonCommit"} => bad[r] = 0
          /\ phase[r] \in {"loop", "poison", "poisonCommit"} => Len(batch[r]) < MaxBatchSize

(* What batches are made of. *)
LEMMA BatchElements ==
    ASSUME TypeInv, NEW r \in Replicas
    PROVE  /\ batch[r] \in Seq(Messages)
           /\ Len(batch[r]) \in Nat
           /\ DOMAIN batch[r] = 1..Len(batch[r])
           /\ \A i \in 1..Len(batch[r]) : batch[r][i] \in Messages
           /\ InBatch(r) \subseteq Messages
<1>1. batch[r] \in Seq(Messages)
    BY DEF TypeInv, TypeOK
<1>2. Len(batch[r]) \in Nat /\ DOMAIN batch[r] = 1..Len(batch[r])
    BY <1>1, LenProperties
<1>3. \A i \in 1..Len(batch[r]) : batch[r][i] \in Messages
    BY <1>1, ElementOfSeq
<1> QED
    BY <1>1, <1>2, <1>3 DEF InBatch

(* The upserts of a batch leave each row to one of its verdicts, or alone. *)
LEMMA WrittenType ==
    ASSUME TypeInv, NEW r \in Replicas
    PROVE  Written(batch[r]) \in [Transactions -> 0..N]
<1> DEFINE b == batch[r]
<1>1. /\ Len(b) \in Nat /\ DOMAIN b = 1..Len(b)
      /\ \A i \in DOMAIN b : b[i] \in Messages
    BY BatchElements
<1> SUFFICES ASSUME NEW t \in Transactions
             PROVE  Written(b)[t] \in 0..N
    BY DEF Written
<1>2. CASE \E i \in DOMAIN b : Txn[b[i]] = t
    <2> DEFINE I == {i \in DOMAIN b : Txn[b[i]] = t}
    <2>1. I \in SUBSET (0..Len(b)) /\ I # {}
        BY <1>1, <1>2
    <2> HIDE DEF I
    <2>2. \E i \in I : \A j \in I : j <= i
        BY <1>1, <2>1, GreatestExists
    <2>3. \E i \in DOMAIN b : Txn[b[i]] = t /\ \A j \in DOMAIN b : Txn[b[j]] = t => j <= i
        BY <2>2 DEF I
    <2>4. PICK i \in DOMAIN b : Written(b)[t] = b[i]
        BY <1>2, <2>3 DEF Written
    <2> QED
        BY <1>1, <2>4, MessagesType
<1>3. CASE ~ \E i \in DOMAIN b : Txn[b[i]] = t
    BY <1>3 DEF Written, TypeInv, TypeOK
<1> QED
    BY <1>2, <1>3

LEMMA InitType == Init => TypeInv
<1> SUFFICES ASSUME Init PROVE TypeInv
    OBVIOUS
<1> USE PersistenceAssumption DEF Init
<1>1. GroupTypeOK
    BY GroupInitType
<1>2. <<>> \in Seq(Messages) /\ Len(<<>>) = 0
    BY EmptySeq
<1>3. rows \in [Transactions -> 0..N]
    BY GroupAssumption
<1>4. bad \in [Replicas -> 0..N]
    BY GroupAssumption
<1> QED
    BY <1>1, <1>2, <1>3, <1>4 DEF TypeInv, TypeOK, Phases

(* A batch without a further message is as long as before; with one it is  *)
(* shorter than the limit unless the flush starts.                         *)
LEMMA FetchGoodType ==
    ASSUME TypeInv, NEW r \in Replicas, FetchGood(r)
    PROVE  TypeInv'
<1> USE PersistenceAssumption DEF TypeInv, TypeOK, Phases
<1>1. PICK m \in Messages \ Undecodable :
          /\ Deliver(r, m)
          /\ batch' = [batch EXCEPT ![r] = Append(@, m)]
          /\ IF Len(batch[r]) + 1 >= MaxBatchSize
             THEN StartFlush(r, Append(batch[r], m))
             ELSE UNCHANGED <<phase, unsent>>
    BY DEF FetchGood
<1>2. GroupTypeOK'
    BY <1>1, DeliverType
<1>3. /\ Append(batch[r], m) \in Seq(Messages)
      /\ Len(Append(batch[r], m)) = Len(batch[r]) + 1
      /\ Len(batch[r]) \in Nat
    BY <1>1, AppendProperties, LenProperties
<1>4. batch' \in [Replicas -> Seq(Messages)]
    BY <1>1, <1>3
<1>5. Len(batch[r]) + 1 <= MaxBatchSize
    BY <1>3 DEF FetchGood
<1>6. \A q \in Replicas : Len(batch'[q]) <= MaxBatchSize
    BY <1>1, <1>3, <1>5
<1>7. /\ phase' \in [Replicas -> Phases]
      /\ unsent' \in [Replicas -> Seq(Messages)]
      /\ \A q \in Replicas : q # r => phase'[q] = phase[q]
      /\ phase'[r] \notin {"poison", "poisonCommit"}
      /\ phase'[r] = "loop" => Len(batch[r]) + 1 < MaxBatchSize
    <2>1. CASE Len(batch[r]) + 1 >= MaxBatchSize
        BY <1>1, <1>3, <2>1 DEF StartFlush
    <2>2. CASE ~ (Len(batch[r]) + 1 >= MaxBatchSize)
        BY <1>1, <1>3, <2>2 DEF FetchGood
    <2> QED
        BY <2>1, <2>2
<1>8. bad[r] = 0
    BY DEF FetchGood
<1>9. \A q \in Replicas :
          /\ phase'[q] \in {"poison", "poisonCommit"} => bad'[q] \in Undecodable
          /\ phase'[q] \notin {"poison", "poisonCommit"} => bad'[q] = 0
    BY <1>7, <1>8 DEF FetchGood
<1>10. \A q \in Replicas : phase'[q] \in {"loop", "poison", "poisonCommit"} =>
                                Len(batch'[q]) < MaxBatchSize
    BY <1>1, <1>3, <1>7
<1> QED
    BY <1>2, <1>4, <1>6, <1>7, <1>9, <1>10 DEF FetchGood, outcome

(* Steps that handle a message leave the group alone or commit. *)
LEMMA PublishType ==
    ASSUME TypeInv, NEW m \in Messages, PublishDLQ(m)
    PROVE  parked' \subseteq Messages /\ abandoned' \subseteq Messages
BY DEF TypeInv, TypeOK, PublishDLQ

LEMMA ApplyType ==
    ASSUME TypeInv, NEW r \in Replicas, Apply(r) \/ UNCHANGED <<rows, stored>>
    PROVE  rows' \in [Transactions -> 0..N] /\ stored' \subseteq Messages
<1>1. CASE Apply(r)
    BY <1>1, WrittenType, BatchElements DEF Apply, TypeInv, TypeOK
<1>2. CASE UNCHANGED <<rows, stored>>
    BY <1>2 DEF TypeInv, TypeOK
<1> QED
    BY <1>1, <1>2

LEMMA StepType == TypeInv /\ [Next]_vars => TypeInv'
<1> SUFFICES ASSUME TypeInv, [Next]_vars
             PROVE  TypeInv'
    OBVIOUS
<1> USE PersistenceAssumption DEF TypeInv, TypeOK, Phases
<1>1. ASSUME NEW r \in Replicas, FetchBad(r)
      PROVE  TypeInv'
    <2>1. PICK m \in Undecodable : Deliver(r, m) /\ bad' = [bad EXCEPT ![r] = m]
        BY <1>1 DEF FetchBad
    <2>2. m \in Messages /\ m \in 0..N
        BY <2>1, MessagesType
    <2>3. GroupTypeOK'
        BY <2>1, <2>2, DeliverType
    <2>4. phase' = [phase EXCEPT ![r] = "poison"]
        BY <1>1 DEF FetchBad
    <2> QED
        BY <1>1, <2>1, <2>2, <2>3, <2>4 DEF FetchBad, outcome
<1>2. ASSUME NEW r \in Replicas, Flush(r)
      PROVE  TypeInv'
    <2>1. GroupTypeOK'
        BY <1>2, GroupUnchangedType DEF Flush
    <2>2. /\ phase' \in [Replicas -> Phases]
          /\ unsent' \in [Replicas -> Seq(Messages)]
          /\ \A q \in Replicas : q # r => phase'[q] = phase[q]
          /\ phase'[r] \notin {"poison", "poisonCommit", "loop"}
        BY <1>2 DEF Flush, StartFlush
    <2>3. phase[r] = "loop"
        BY <1>2 DEF Flush
    <2> QED
        BY <1>2, <2>1, <2>2, <2>3 DEF Flush, outcome
<1>3. ASSUME NEW r \in Replicas, ParkBad(r)
      PROVE  TypeInv'
    <2>1. GroupTypeOK'
        BY <1>3, GroupUnchangedType DEF ParkBad
    <2>2. bad[r] \in Messages
        BY <1>3 DEF ParkBad
    <2>3. parked' \subseteq Messages /\ abandoned' \subseteq Messages
        BY <1>3, <2>2, PublishType DEF ParkBad
    <2> QED
        BY <1>3, <2>1, <2>3 DEF ParkBad
<1>4. ASSUME NEW r \in Replicas, CommitBad(r)
      PROVE  TypeInv'
    <2>1. bad[r] \in Messages
        BY <1>4 DEF CommitBad
    <2>2. GroupTypeOK'
        BY <1>4, <2>1, CommitType DEF CommitBad
    <2>3. bad' \in [Replicas -> 0..N] /\ bad'[r] = 0 /\ phase'[r] = "loop"
        BY <1>4, GroupAssumption DEF CommitBad
    <2>4. Len(batch[r]) < MaxBatchSize
        BY <1>4 DEF CommitBad
    <2> QED
        BY <1>4, <2>2, <2>3, <2>4 DEF CommitBad, outcome
<1>5. ASSUME NEW r \in Replicas, UpsertSucceeds(r)
      PROVE  TypeInv'
    <2>1. GroupTypeOK'
        BY <1>5, GroupUnchangedType DEF UpsertSucceeds
    <2>2. rows' \in [Transactions -> 0..N] /\ stored' \subseteq Messages
        BY <1>5, ApplyType DEF UpsertSucceeds
    <2> QED
        BY <1>5, <2>1, <2>2 DEF UpsertSucceeds
<1>6. ASSUME NEW r \in Replicas, UpsertFails(r)
      PROVE  TypeInv'
    <2>1. GroupTypeOK'
        BY <1>6, GroupUnchangedType DEF UpsertFails
    <2>2. rows' \in [Transactions -> 0..N] /\ stored' \subseteq Messages
        BY <1>6, ApplyType DEF UpsertFails
    <2>3. attempt' \in [Replicas -> 1..MaxAttempts]
        <3>1. CASE attempt[r] < MaxAttempts /\ attempt' = [attempt EXCEPT ![r] = @ + 1]
            BY <3>1
        <3>2. CASE attempt' = [attempt EXCEPT ![r] = 1]
            BY <3>2
        <3> QED
            BY <1>6, <3>1, <3>2 DEF UpsertFails
    <2>4. /\ phase' \in [Replicas -> Phases]
          /\ unsent' \in [Replicas -> Seq(Messages)]
          /\ \A q \in Replicas : q # r => phase'[q] = phase[q]
          /\ phase'[r] \in {"upsert", "dlq"} /\ phase[r] = "upsert"
        BY <1>6 DEF UpsertFails
    <2>5. UNCHANGED <<batch, bad, stopping, parked, abandoned>>
        BY <1>6 DEF UpsertFails
    <2> QED
        BY <2>1, <2>2, <2>3, <2>4, <2>5
<1>7. ASSUME NEW r \in Replicas, ParkNext(r)
      PROVE  TypeInv'
    <2>1. GroupTypeOK'
        BY <1>7, GroupUnchangedType DEF ParkNext
    <2>2. Head(unsent[r]) \in Messages /\ Tail(unsent[r]) \in Seq(Messages)
        BY <1>7, HeadTailProperties DEF ParkNext
    <2>3. parked' \subseteq Messages /\ abandoned' \subseteq Messages
        BY <1>7, <2>2, PublishType DEF ParkNext
    <2>4. unsent' \in [Replicas -> Seq(Messages)]
        BY <1>7, <2>2 DEF ParkNext
    <2>5. /\ phase' \in [Replicas -> Phases]
          /\ \A q \in Replicas : q # r => phase'[q] = phase[q]
          /\ phase'[r] \in {"commit", "dlq"} /\ phase[r] = "dlq"
        BY <1>7 DEF ParkNext
    <2> QED
        BY <1>7, <2>1, <2>3, <2>4, <2>5 DEF ParkNext
<1>8. ASSUME NEW r \in Replicas, CommitBatch(r)
      PROVE  TypeInv'
    <2>1. GroupTypeOK'
        BY <1>8, BatchElements, CommitType DEF CommitBatch
    <2>2. <<>> \in Seq(Messages) /\ Len(<<>>) = 0
        BY EmptySeq
    <2>3. /\ batch' \in [Replicas -> Seq(Messages)]
          /\ \A q \in Replicas : q # r => batch'[q] = batch[q] /\ phase'[q] = phase[q]
          /\ Len(batch'[r]) = 0 /\ phase'[r] = "loop" /\ phase[r] = "commit"
        BY <1>8, <2>2 DEF CommitBatch
    <2> QED
        BY <1>8, <2>1, <2>3 DEF CommitBatch, outcome
<1>9. ASSUME NEW r \in Replicas, Stop(r)
      PROVE  TypeInv'
    BY <1>9, ToldToStopType DEF Stop, outcome
<1>10. ASSUME NEW r \in Replicas, Exit(r)
       PROVE  TypeInv'
    BY <1>10, LeaveType DEF Exit, outcome
<1>11. ASSUME NEW r \in Replicas, Crash(r)
       PROVE  TypeInv'
    <2>1. GroupTypeOK'
        BY <1>11, LeaveType DEF Crash
    <2>2. <<>> \in Seq(Messages) /\ Len(<<>>) = 0
        BY EmptySeq
    <2>3. /\ batch' \in [Replicas -> Seq(Messages)]
          /\ unsent' \in [Replicas -> Seq(Messages)]
          /\ \A q \in Replicas : q # r => batch'[q] = batch[q] /\ phase'[q] = phase[q]
          /\ Len(batch'[r]) = 0 /\ phase'[r] = "loop"
        BY <1>11, <2>2 DEF Crash
    <2>4. bad' \in [Replicas -> 0..N] /\ attempt' \in [Replicas -> 1..MaxAttempts]
        BY <1>11, GroupAssumption DEF Crash
    <2> QED
        BY <1>11, <2>1, <2>3, <2>4 DEF Crash, outcome
<1>12. ASSUME NEW p \in Partitions, NEW r \in Replicas, Rebalance(p, r)
       PROVE  TypeInv'
    BY <1>12, AssignType DEF Rebalance, local, outcome
<1>13. CASE UNCHANGED vars
    BY <1>13, GroupUnchangedType DEF vars, local, outcome
<1> QED
    BY <1>1, <1>2, <1>3, <1>4, <1>5, <1>6, <1>7, <1>8, <1>9, <1>10, <1>11, <1>12, <1>13,
       FetchGoodType
    DEF Next, Handle

(* Type correctness of the persistence service: no batch exceeds its limit. *)
THEOREM TypeCorrect == Safety => []TypeOK
<1>1. TypeInv => TypeOK
    BY DEF TypeInv
<1> QED
    BY InitType, StepType, <1>1, PTL DEF Safety

-----------------------------------------------------------------------------
(* The inductive invariant of the loss bound.  Dropped is the set of the   *)
(* messages that crashes took from unflushed batches after an undecodable  *)
(* one had overtaken them.  A message is exposed to that when it is in it  *)
(* already, or in a batch and not the one that fills it: a full batch is   *)
(* flushed before anything else is fetched.                                *)
Early(r) == {batch[r][i] : i \in DOMAIN batch[r] \ {MaxBatchSize}}

Exposed(Dropped) == Dropped \cup UNION {Early(r) : r \in Replicas}

Before(m, k) == Part[m] = Part[k] /\ m < k

Overtakes(u, m, offset) == Before(m, u) /\ u <= offset

(* m may be behind the offset. *)
Fine(m, offset, Dropped) ==
    \/ m \in Settled
    \/ m \in Exposed(Dropped) /\ \E u \in Undecodable : Overtakes(u, m, offset)

OffsetsCovered(Dropped) ==
    \A m \in Messages :
        m <= committed[Part[m]] => Fine(m, committed[Part[m]], Dropped)

(* What was fetched from a partition with an owner is fine, or the owner   *)
(* has it in hand.                                                         *)
PositionsCovered(Dropped) ==
    \A m \in Messages : owner[Part[m]] # NoOwner /\ m <= position[Part[m]] =>
        \/ Fine(m, position[Part[m]], Dropped)
        \/ m \in InBatch(owner[Part[m]])
        \/ m = bad[owner[Part[m]]]

(* So is what precedes a message in a batch, or it is in the batch too. *)
BatchCovered(r, Dropped) ==
    \A k \in InBatch(r) : \A m \in Messages :
        Before(m, k) => Fine(m, k, Dropped) \/ m \in InBatch(r)

(* What an undecodable message overtakes is exposed, if not settled. *)
BadCovered(r, Dropped) ==
    bad[r] # 0 => \A m \in Messages :
        Before(m, bad[r]) => m \in Settled \/ m \in Exposed(Dropped)

(* What a replica is about to commit has an outcome. *)
CommitsDue(r) ==
    /\ phase[r] = "poisonCommit" => bad[r] \in Settled
    /\ phase[r] = "commit" => InBatch(r) \subseteq Settled
    /\ phase[r] = "dlq" =>
          InBatch(r) \subseteq Settled \cup {unsent[r][i] : i \in DOMAIN unsent[r]}

Covered(Dropped) ==
    /\ OffsetsCovered(Dropped)
    /\ PositionsCovered(Dropped)
    /\ \A r \in Replicas : BatchCovered(r, Dropped) /\ BadCovered(r, Dropped)
    /\ \A r \in Replicas : CommitsDue(r)

DroppedByCrashes(Dropped) ==
    /\ Dropped \in SUBSET Messages
    /\ Cardinality(Dropped) <= (MaxBatchSize - 1) * crashes

Accounted == \E Dropped : DroppedByCrashes(Dropped) /\ Covered(Dropped)

(* Steps that fetch nothing, empty no hands and move no offset.  What they *)
(* have to show is that a commit that is due remains justified.            *)
SameHands == UNCHANGED <<committed, position, owner, batch, bad>>

AllCommitsDue == \A r \in Replicas : CommitsDue(r)'

LEMMA HandsKeepCovered ==
    ASSUME TypeInv, SameHands, Settled \subseteq Settled', AllCommitsDue,
           NEW Dropped, Covered(Dropped)
    PROVE  Covered(Dropped)'
<1>1. /\ Exposed(Dropped)' = Exposed(Dropped)
      /\ \A r \in Replicas : InBatch(r)' = InBatch(r)
    BY DEF SameHands, Exposed, Early, InBatch
<1>2. OffsetsCovered(Dropped)'
    BY <1>1 DEF SameHands, Covered, OffsetsCovered, Fine
<1>3. PositionsCovered(Dropped)'
    <2> SUFFICES ASSUME NEW m \in Messages,
                        owner[Part[m]] # NoOwner, m <= position[Part[m]]
                 PROVE  \/ Fine(m, position[Part[m]], Dropped)'
                        \/ m \in InBatch(owner[Part[m]])'
                        \/ m = bad[owner[Part[m]]]'
        BY DEF PositionsCovered, SameHands
    <2>1. \/ Fine(m, position[Part[m]], Dropped)
          \/ m \in InBatch(owner[Part[m]])
          \/ m = bad[owner[Part[m]]]
        BY DEF Covered, PositionsCovered
    <2> QED
        BY <1>1, <2>1 DEF SameHands, Fine, InBatch
<1>4. ASSUME NEW r \in Replicas
      PROVE  BatchCovered(r, Dropped)' /\ BadCovered(r, Dropped)'
    BY <1>1 DEF SameHands, Covered, BatchCovered, BadCovered, Fine
<1> QED
    BY <1>2, <1>3, <1>4 DEF Covered, AllCommitsDue

(* A message joins the batch of r, and no other.  What was exposed remains *)
(* so, and what was in the batch, which was not full, becomes exposed.     *)
LEMMA BatchGrows ==
    ASSUME TypeInv, NEW r \in Replicas, NEW k \in Messages,
           Len(batch[r]) < MaxBatchSize,
           batch' = [batch EXCEPT ![r] = Append(@, k)],
           NEW Dropped
    PROVE  /\ InBatch(r)' = InBatch(r) \cup {k}
           /\ \A q \in Replicas : q # r => InBatch(q)' = InBatch(q)
           /\ Exposed(Dropped) \subseteq Exposed(Dropped)'
<1>1. /\ batch[r] \in Seq(Messages) /\ Len(batch[r]) \in Nat
      /\ DOMAIN batch[r] = 1..Len(batch[r])
    BY BatchElements
<1>2. batch'[r] = Append(batch[r], k) /\ \A q \in Replicas : q # r => batch'[q] = batch[q]
    BY DEF TypeInv, TypeOK
<1>3. /\ Len(batch'[r]) = Len(batch[r]) + 1
      /\ DOMAIN batch'[r] = 1..(Len(batch[r]) + 1)
      /\ \A i \in 1..Len(batch[r]) : batch'[r][i] = batch[r][i]
      /\ batch'[r][Len(batch[r]) + 1] = k
    BY <1>1, <1>2, AppendProperties, LenProperties
<1>4. 1..(Len(batch[r]) + 1) = (1..Len(batch[r])) \cup {Len(batch[r]) + 1}
    BY <1>1
<1>5. InBatch(r)' = InBatch(r) \cup {k}
    BY <1>1, <1>3, <1>4 DEF InBatch
<1>6. Early(r) \subseteq Early(r)'
    BY <1>1, <1>3, <1>4 DEF Early
<1>7. \A q \in Replicas : q # r => Early(q)' = Early(q) /\ InBatch(q)' = InBatch(q)
    BY <1>2 DEF Early, InBatch
<1> QED
    BY <1>5, <1>6, <1>7 DEF Exposed

LEMMA OpenBatchIsEarly ==
    ASSUME TypeInv, PersistenceAssumption, NEW r \in Replicas,
           Len(batch[r]) < MaxBatchSize, NEW Dropped
    PROVE  InBatch(r) \subseteq Exposed(Dropped)
<1>1. Len(batch[r]) \in Nat /\ DOMAIN batch[r] = 1..Len(batch[r])
    BY BatchElements
<1>2. MaxBatchSize \notin DOMAIN batch[r]
    BY <1>1
<1> QED
    BY <1>2 DEF Exposed, Early, InBatch

LEMMA OutcomeUnchanged ==
    ASSUME UNCHANGED outcome
    PROVE  Settled' = Settled
BY DEF outcome, Settled

(* The next message of an owned partition is delivered to its owner, that  *)
(* handles no undecodable one: what precedes it is fine, or in the batch.  *)
LEMMA DeliveredNext ==
    ASSUME TypeInv, NEW Dropped, Covered(Dropped),
           NEW r \in Replicas, bad[r] = 0, NEW k \in Messages, Deliver(r, k),
           NEW m \in Messages, Before(m, k)
    PROVE  \/ m \in Settled
           \/ m \in InBatch(r)
           \/ m \in Exposed(Dropped) /\ \E u \in Undecodable : Overtakes(u, m, k)
<1>1. /\ owner[Part[m]] = r /\ r # NoOwner
      /\ m <= position[Part[m]] /\ position[Part[m]] < k
    BY GroupAssumption DEF Deliver, Before
<1>2. m # bad[r]
    BY DEF Messages
<1>3. Fine(m, position[Part[m]], Dropped) \/ m \in InBatch(r)
    BY <1>1, <1>2 DEF Covered, PositionsCovered
<1>4. position[Part[m]] \in Nat /\ Undecodable \subseteq Nat /\ k \in Nat
    BY MessagesType, PersistenceAssumption, GroupAssumption DEF TypeInv, TypeOK, GroupTypeOK
<1> QED
    BY <1>1, <1>3, <1>4 DEF Fine, Overtakes

(* After a delivery the positions are covered, whether the message joined  *)
(* the batch or is the undecodable one in hand.                            *)
LEMMA DeliveryCoversPositions ==
    ASSUME TypeInv, NEW Dropped, Covered(Dropped),
           NEW r \in Replicas, bad[r] = 0, NEW k \in Messages, Deliver(r, k),
           Settled' = Settled, Exposed(Dropped) \subseteq Exposed(Dropped)',
           \A q \in Replicas : InBatch(q) \subseteq InBatch(q)',
           \A q \in Replicas : q # r => bad'[q] = bad[q],
           k \in InBatch(r)' \/ k = bad'[r]
    PROVE  PositionsCovered(Dropped)'
<1> SUFFICES ASSUME NEW m \in Messages,
                    owner'[Part[m]] # NoOwner, m <= position'[Part[m]]
             PROVE  \/ Fine(m, position[Part[m]], Dropped)'
                    \/ m \in InBatch(owner[Part[m]])'
                    \/ m = bad'[owner'[Part[m]]]
    BY DEF PositionsCovered
<1>1. /\ owner' = owner
      /\ position' = [position EXCEPT ![Part[k]] = k]
      /\ owner[Part[k]] = r
    BY DEF Deliver
<1>2. Part[m] \in Partitions /\ owner[Part[m]] \in Replicas
    BY <1>1, MessagesType DEF TypeInv, TypeOK, GroupTypeOK
<1>3. CASE Part[m] = Part[k]
    <2>1. position'[Part[m]] = k
        BY <1>1, <1>2, <1>3 DEF TypeInv, TypeOK, GroupTypeOK
    <2>2. CASE m = k
        BY <1>1, <1>2, <1>3, <2>2 DEF InBatch
    <2>3. CASE m # k
        <3>1. Before(m, k)
            BY <1>3, <2>1, <2>3, MessagesType DEF Before
        <3>2. \/ m \in Settled
              \/ m \in InBatch(r)
              \/ m \in Exposed(Dropped) /\ \E u \in Undecodable : Overtakes(u, m, k)
            BY <3>1, DeliveredNext
        <3> QED
            BY <1>1, <1>2, <1>3, <2>1, <3>2 DEF Fine, InBatch
    <2> QED
        BY <2>2, <2>3
<1>4. CASE Part[m] # Part[k]
    <2>1. position'[Part[m]] = position[Part[m]]
        BY <1>1, <1>2, <1>4 DEF TypeInv, TypeOK, GroupTypeOK
    <2>2. \/ Fine(m, position[Part[m]], Dropped)
          \/ m \in InBatch(owner[Part[m]])
          \/ m = bad[owner[Part[m]]]
        BY <1>1, <2>1 DEF Covered, PositionsCovered
    <2>3. CASE Fine(m, position[Part[m]], Dropped)
        BY <2>1, <2>3 DEF Fine
    <2>4. CASE m \in InBatch(owner[Part[m]])
        <3>1. PICK q \in Replicas : q = owner[Part[m]] /\ q = owner'[Part[m]]
            BY <1>1, <1>2
        <3>2. m \in InBatch(q)'
            BY <2>4, <3>1
        <3> QED
            BY <3>1, <3>2 DEF InBatch
    <2>5. CASE m = bad[owner[Part[m]]]
        <3>1. owner[Part[m]] # r
            BY <2>5 DEF Messages
        <3> QED
            BY <1>1, <1>2, <2>5, <3>1
    <2> QED
        BY <2>2, <2>3, <2>4, <2>5
<1> QED
    BY <1>3, <1>4

LEMMA FetchGoodCovered ==
    ASSUME TypeInv, NEW Dropped, Covered(Dropped), NEW r \in Replicas, FetchGood(r)
    PROVE  Covered(Dropped)'
<1>1. PICK k \in Messages \ Undecodable :
          /\ Deliver(r, k)
          /\ batch' = [batch EXCEPT ![r] = Append(@, k)]
          /\ IF Len(batch[r]) + 1 >= MaxBatchSize
             THEN StartFlush(r, Append(batch[r], k))
             ELSE UNCHANGED <<phase, unsent>>
    BY DEF FetchGood
<1>2. /\ Settled' = Settled /\ bad' = bad
      /\ phase[r] = "loop" /\ bad[r] = 0 /\ Len(batch[r]) < MaxBatchSize
    BY OutcomeUnchanged DEF FetchGood, TypeInv
<1>3. /\ InBatch(r)' = InBatch(r) \cup {k}
      /\ \A q \in Replicas : q # r => InBatch(q)' = InBatch(q)
      /\ Exposed(Dropped) \subseteq Exposed(Dropped)'
    BY <1>1, <1>2, BatchGrows
<1>4. OffsetsCovered(Dropped)'
    BY <1>1, <1>2, <1>3 DEF Deliver, Covered, OffsetsCovered, Fine
<1>5. PositionsCovered(Dropped)'
    BY <1>1, <1>2, <1>3, DeliveryCoversPositions
<1>6. ASSUME NEW q \in Replicas
      PROVE  BatchCovered(q, Dropped)'
    <2> SUFFICES ASSUME NEW l \in InBatch(q)', NEW m \in Messages, Before(m, l)
                 PROVE  Fine(m, l, Dropped)' \/ m \in InBatch(q)'
        BY DEF BatchCovered, Before
    <2>1. CASE l \in InBatch(q)
        <3>1. Fine(m, l, Dropped) \/ m \in InBatch(q)
            BY <2>1 DEF Covered, BatchCovered
        <3>2. InBatch(q) \subseteq InBatch(q)'
            BY <1>3
        <3> QED
            BY <1>2, <1>3, <3>1, <3>2 DEF Fine
    <2>2. CASE l \notin InBatch(q)
        <3>1. q = r /\ l = k
            BY <1>3, <2>2
        <3>2. \/ m \in Settled
              \/ m \in InBatch(r)
              \/ m \in Exposed(Dropped) /\ \E u \in Undecodable : Overtakes(u, m, k)
            BY <1>1, <1>2, <3>1, DeliveredNext
        <3> QED
            BY <1>2, <1>3, <3>1, <3>2 DEF Fine
    <2> QED
        BY <2>1, <2>2
<1>7. ASSUME NEW q \in Replicas
      PROVE  BadCovered(q, Dropped)'
    BY <1>2, <1>3 DEF Covered, BadCovered
<1>8. ASSUME NEW q \in Replicas
      PROVE  CommitsDue(q)'
    <2>1. CASE q # r
        <3>1. phase'[q] = phase[q] /\ unsent'[q] = unsent[q]
            BY <1>1, <2>1 DEF StartFlush, TypeInv, TypeOK
        <3> QED
            BY <1>2, <1>3, <2>1, <3>1 DEF Covered, CommitsDue
    <2>2. CASE q = r
        <3>1. phase'[r] \in {"loop", "upsert", "dlq"}
            BY <1>1, <1>2 DEF StartFlush, TypeInv, TypeOK
        <3>2. phase'[r] = "dlq" => unsent'[r] = batch'[r]
            BY <1>1, <1>2 DEF StartFlush, TypeInv, TypeOK
        <3> QED
            BY <2>2, <3>1, <3>2 DEF CommitsDue, InBatch
    <2> QED
        BY <2>1, <2>2
<1> QED
    BY <1>4, <1>5, <1>6, <1>7, <1>8 DEF Covered

LEMMA FetchBadCovered ==
    ASSUME TypeInv, NEW Dropped, Covered(Dropped), NEW r \in Replicas, FetchBad(r)
    PROVE  Covered(Dropped)'
<1>1. PICK k \in Undecodable : Deliver(r, k) /\ bad' = [bad EXCEPT ![r] = k]
    BY DEF FetchBad
<1>2. k \in Messages
    BY PersistenceAssumption
<1>3. /\ Settled' = Settled /\ batch' = batch /\ unsent' = unsent
      /\ phase[r] = "loop" /\ bad[r] = 0 /\ Len(batch[r]) < MaxBatchSize
      /\ phase'[r] = "poison" /\ bad'[r] = k
      /\ \A q \in Replicas : q # r => phase'[q] = phase[q] /\ bad'[q] = bad[q]
    BY <1>1, OutcomeUnchanged DEF FetchBad, TypeInv, TypeOK
<1>4. /\ Exposed(Dropped)' = Exposed(Dropped)
      /\ \A q \in Replicas : InBatch(q)' = InBatch(q)
    BY <1>3 DEF Exposed, Early, InBatch
<1>5. OffsetsCovered(Dropped)'
    BY <1>1, <1>3, <1>4 DEF Deliver, Covered, OffsetsCovered, Fine
<1>6. PositionsCovered(Dropped)'
    BY <1>1, <1>2, <1>3, <1>4, DeliveryCoversPositions
<1>7. ASSUME NEW q \in Replicas
      PROVE  BatchCovered(q, Dropped)'
    BY <1>3, <1>4 DEF Covered, BatchCovered, Fine
<1>8. ASSUME NEW q \in Replicas
      PROVE  BadCovered(q, Dropped)'
    <2>1. CASE q # r
        BY <1>3, <1>4, <2>1 DEF Covered, BadCovered
    <2>2. CASE q = r
        <3>1. ASSUME NEW m \in Messages, Before(m, k)
              PROVE  m \in Settled \/ m \in Exposed(Dropped)
            BY <1>1, <1>2, <1>3, <3>1, DeliveredNext, OpenBatchIsEarly, PersistenceAssumption
        <3> QED
            BY <1>3, <1>4, <2>2, <3>1 DEF BadCovered
    <2> QED
        BY <2>1, <2>2
<1>9. ASSUME NEW q \in Replicas
      PROVE  CommitsDue(q)'
    BY <1>3, <1>4 DEF Covered, CommitsDue
<1> QED
    BY <1>5, <1>6, <1>7, <1>8, <1>9 DEF Covered

(* A commit of S moves an offset to a message of S or leaves it: it is     *)
(* enough that S has an outcome and that what precedes its members is fine.*)
LEMMA CommitCoversOffsets ==
    ASSUME TypeInv, NEW Dropped, Covered(Dropped),
           NEW S \in SUBSET Messages, CommitMessages(S), S \subseteq Settled,
           Settled' = Settled, Exposed(Dropped) \subseteq Exposed(Dropped)' \cup Settled,
           \A k \in S : \A m \in Messages : Before(m, k) => Fine(m, k, Dropped)
    PROVE  OffsetsCovered(Dropped)'
<1> SUFFICES ASSUME NEW m \in Messages, m <= committed'[Part[m]]
             PROVE  Fine(m, committed[Part[m]], Dropped)'
    BY DEF OffsetsCovered
<1>1. Part[m] \in Partitions /\ m \in Nat
    BY MessagesType
<1>2. CASE committed'[Part[m]] = committed[Part[m]]
    <2>1. Fine(m, committed[Part[m]], Dropped)
        BY <1>2 DEF Covered, OffsetsCovered
    <2> QED
        BY <1>2, <2>1 DEF Fine
<1>3. CASE /\ committed' = Stored(S)
           /\ \E k \in S : Part[k] = Part[m]
    <2>1. PICK k \in S : k = committed'[Part[m]] /\ Part[k] = Part[m]
        BY <1>1, <1>3, StoredLast
    <2>2. CASE m = k
        BY <2>2 DEF Fine
    <2>3. CASE m # k
        <3>1. Before(m, k)
            BY <1>1, <2>1, <2>3, MessagesType DEF Before
        <3>2. Fine(m, k, Dropped)
            BY <3>1
        <3> QED
            BY <2>1, <3>2 DEF Fine
    <2> QED
        BY <2>2, <2>3
<1> QED
    BY <1>1, <1>2, <1>3, StoredElsewhere DEF CommitMessages

(* An undecodable message is committed: it excuses what it overtakes. *)
LEMMA CommitBadCovered ==
    ASSUME TypeInv, NEW Dropped, Covered(Dropped), NEW r \in Replicas, CommitBad(r)
    PROVE  Covered(Dropped)'
<1>1. /\ bad[r] \in Undecodable /\ bad[r] \in Messages /\ bad[r] \in Settled
      /\ bad[r] # 0
    <2>1. bad[r] \in Undecodable /\ bad[r] \in Settled
        BY DEF CommitBad, TypeInv, Covered, CommitsDue
    <2>2. bad[r] \in Messages
        BY <2>1, PersistenceAssumption
    <2>3. 0 \notin Messages
        BY DEF Messages
    <2> QED
        BY <2>1, <2>2, <2>3
<1>2. /\ Settled' = Settled /\ batch' = batch /\ unsent' = unsent
      /\ UNCHANGED <<position, owner>> /\ CommitMessages({bad[r]})
      /\ phase'[r] = "loop" /\ bad'[r] = 0
      /\ \A q \in Replicas : q # r => phase'[q] = phase[q] /\ bad'[q] = bad[q]
    BY OutcomeUnchanged DEF CommitBad, CommitMessages, TypeInv, TypeOK
<1>3. /\ Exposed(Dropped)' = Exposed(Dropped)
      /\ \A q \in Replicas : InBatch(q)' = InBatch(q)
    BY <1>2 DEF Exposed, Early, InBatch
<1>4. OffsetsCovered(Dropped)'
    <2>1. ASSUME NEW m \in Messages, Before(m, bad[r])
          PROVE  Fine(m, bad[r], Dropped)
        <3>1. m \in Settled \/ m \in Exposed(Dropped)
            BY <1>1, <2>1 DEF Covered, BadCovered
        <3>2. Overtakes(bad[r], m, bad[r])
            BY <1>1, <2>1, MessagesType DEF Overtakes
        <3> QED
            BY <1>1, <3>1, <3>2 DEF Fine
    <2> QED
        BY <1>1, <1>2, <1>3, <2>1, CommitCoversOffsets
<1>5. PositionsCovered(Dropped)'
    <2> SUFFICES ASSUME NEW m \in Messages,
                        owner[Part[m]] # NoOwner, m <= position[Part[m]]
                 PROVE  \/ Fine(m, position[Part[m]], Dropped)'
                        \/ m \in InBatch(owner[Part[m]])'
                        \/ m = bad'[owner[Part[m]]]
        BY <1>2 DEF PositionsCovered
    <2>1. PICK q \in Replicas : q = owner[Part[m]]
        BY MessagesType DEF TypeInv, TypeOK, GroupTypeOK
    <2>2. \/ Fine(m, position[Part[m]], Dropped)
          \/ m \in InBatch(q)
          \/ m = bad[q]
        BY <2>1 DEF Covered, PositionsCovered
    <2>3. CASE Fine(m, position[Part[m]], Dropped)
        BY <1>2, <1>3, <2>3 DEF Fine
    <2>4. CASE m \in InBatch(q)
        <3>1. m \in InBatch(q)'
            BY <1>3, <2>4
        <3> QED
            BY <1>2, <2>1, <3>1 DEF InBatch
    <2>5. CASE m = bad[q] /\ q = r
        BY <1>1, <1>2, <2>5 DEF Fine
    <2>6. CASE m = bad[q] /\ q # r
        BY <1>2, <2>1, <2>6
    <2> QED
        BY <2>2, <2>3, <2>4, <2>5, <2>6
<1>6. ASSUME NEW q \in Replicas
      PROVE  BatchCovered(q, Dropped)'
    BY <1>2, <1>3 DEF Covered, BatchCovered, Fine
<1>7. ASSUME NEW q \in Replicas
      PROVE  BadCovered(q, Dropped)'
    BY <1>2, <1>3 DEF Covered, BadCovered
<1>8. ASSUME NEW q \in Replicas
      PROVE  CommitsDue(q)'
    BY <1>2, <1>3 DEF Covered, CommitsDue
<1> QED
    BY <1>4, <1>5, <1>6, <1>7, <1>8 DEF Covered

(* A batch is committed: all of it has an outcome, so nothing in it was    *)
(* exposed for good.                                                       *)
LEMMA CommitBatchCovered ==
    ASSUME TypeInv, NEW Dropped, Covered(Dropped), NEW r \in Replicas, CommitBatch(r)
    PROVE  Covered(Dropped)'
<1>1. InBatch(r) \subseteq Messages /\ InBatch(r) \subseteq Settled
    BY BatchElements DEF CommitBatch, Covered, CommitsDue
<1>2. /\ Settled' = Settled /\ bad' = bad /\ unsent' = unsent
      /\ UNCHANGED <<position, owner>> /\ CommitMessages(InBatch(r))
      /\ phase'[r] = "loop" /\ batch'[r] = <<>>
      /\ \A q \in Replicas : q # r => phase'[q] = phase[q] /\ batch'[q] = batch[q]
    BY OutcomeUnchanged DEF CommitBatch, CommitMessages, TypeInv, TypeOK
<1>3. /\ InBatch(r)' = {}
      /\ \A q \in Replicas : q # r => InBatch(q)' = InBatch(q) /\ Early(q)' = Early(q)
    BY <1>2 DEF Early, InBatch
<1>4. Exposed(Dropped) \subseteq Exposed(Dropped)' \cup Settled
    BY <1>1, <1>3 DEF Exposed, Early, InBatch
<1>5. OffsetsCovered(Dropped)'
    <2>1. \A k \in InBatch(r) : \A m \in Messages : Before(m, k) => Fine(m, k, Dropped)
        BY <1>1 DEF Covered, BatchCovered, Fine
    <2> QED
        BY <1>1, <1>2, <1>4, <2>1, CommitCoversOffsets
<1>6. PositionsCovered(Dropped)'
    <2> SUFFICES ASSUME NEW m \in Messages,
                        owner[Part[m]] # NoOwner, m <= position[Part[m]]
                 PROVE  \/ Fine(m, position[Part[m]], Dropped)'
                        \/ m \in InBatch(owner[Part[m]])'
                        \/ m = bad'[owner[Part[m]]]
        BY <1>2 DEF PositionsCovered
    <2>1. PICK q \in Replicas : q = owner[Part[m]]
        BY MessagesType DEF TypeInv, TypeOK, GroupTypeOK
    <2>2. \/ Fine(m, position[Part[m]], Dropped)
          \/ m \in InBatch(q)
          \/ m = bad[q]
        BY <2>1 DEF Covered, PositionsCovered
    <2>3. CASE Fine(m, position[Part[m]], Dropped)
        BY <1>2, <1>4, <2>3 DEF Fine
    <2>4. CASE m \in InBatch(q) /\ q = r
        BY <1>1, <1>2, <2>4 DEF Fine
    <2>5. CASE m \in InBatch(q) /\ q # r
        <3>1. m \in InBatch(q)'
            BY <1>3, <2>5
        <3> QED
            BY <1>2, <2>1, <3>1 DEF InBatch
    <2>6. CASE m = bad[q]
        BY <1>2, <2>1, <2>6
    <2> QED
        BY <2>2, <2>3, <2>4, <2>5, <2>6
<1>7. ASSUME NEW q \in Replicas
      PROVE  BatchCovered(q, Dropped)'
    <2>1. CASE q = r
        BY <1>3, <2>1 DEF BatchCovered
    <2>2. CASE q # r
        BY <1>2, <1>3, <1>4, <2>2 DEF Covered, BatchCovered, Fine
    <2> QED
        BY <2>1, <2>2
<1>8. ASSUME NEW q \in Replicas
      PROVE  BadCovered(q, Dropped)'
    BY <1>2, <1>4 DEF Covered, BadCovered
<1>9. ASSUME NEW q \in Replicas
      PROVE  CommitsDue(q)'
    BY <1>2, <1>3 DEF Covered, CommitsDue
<1> QED
    BY <1>5, <1>6, <1>7, <1>8, <1>9 DEF Covered

(* A replica leaves with empty hands, or what it held is dropped: it owns  *)
(* nothing any more, and the others keep what they hold.                   *)
LEMMA LeaveCovered ==
    ASSUME TypeInv, NEW Dropped, NEW Now, Covered(Dropped), NEW r \in Replicas,
           Leave(r), Settled' = Settled,
           Exposed(Dropped) \subseteq Exposed(Now)',
           batch'[r] = <<>>, bad'[r] = 0, phase'[r] = "loop",
           \A q \in Replicas : q # r => /\ batch'[q] = batch[q]
                                        /\ bad'[q] = bad[q]
                                        /\ phase'[q] = phase[q]
                                        /\ unsent'[q] = unsent[q]
    PROVE  Covered(Now)'
<1>1. /\ UNCHANGED <<committed, position>>
      /\ owner' = [p \in Partitions |-> IF owner[p] = r THEN NoOwner ELSE owner[p]]
    BY DEF Leave
<1>2. /\ InBatch(r)' = {}
      /\ \A q \in Replicas : q # r => InBatch(q)' = InBatch(q)
    BY DEF InBatch
<1>3. OffsetsCovered(Now)'
    BY <1>1 DEF Covered, OffsetsCovered, Fine
<1>4. PositionsCovered(Now)'
    <2> SUFFICES ASSUME NEW m \in Messages,
                        owner'[Part[m]] # NoOwner, m <= position[Part[m]]
                 PROVE  \/ Fine(m, position[Part[m]], Now)'
                        \/ m \in InBatch(owner[Part[m]])'
                        \/ m = bad'[owner'[Part[m]]]
        BY <1>1 DEF PositionsCovered
    <2>1. /\ owner'[Part[m]] = owner[Part[m]]
          /\ owner[Part[m]] # r /\ owner[Part[m]] # NoOwner
        BY <1>1, MessagesType
    <2>2. PICK q \in Replicas : q = owner[Part[m]]
        BY <2>1, MessagesType DEF TypeInv, TypeOK, GroupTypeOK
    <2>3. \/ Fine(m, position[Part[m]], Dropped)
          \/ m \in InBatch(q)
          \/ m = bad[q]
        BY <2>1, <2>2 DEF Covered, PositionsCovered
    <2>4. CASE Fine(m, position[Part[m]], Dropped)
        BY <1>1, <2>4 DEF Fine
    <2>5. CASE m \in InBatch(q)
        <3>1. m \in InBatch(q)'
            BY <1>2, <2>1, <2>2, <2>5
        <3> QED
            BY <2>1, <2>2, <3>1 DEF InBatch
    <2>6. CASE m = bad[q]
        BY <2>1, <2>2, <2>6
    <2> QED
        BY <2>3, <2>4, <2>5, <2>6
<1>5. ASSUME NEW q \in Replicas
      PROVE  BatchCovered(q, Now)' /\ BadCovered(q, Now)' /\ CommitsDue(q)'
    <2>1. CASE q = r
        BY <1>2, <2>1 DEF BatchCovered, BadCovered, CommitsDue
    <2>2. CASE q # r
        <3>1. BatchCovered(q, Now)'
            BY <1>2, <2>2 DEF Covered, BatchCovered, Fine
        <3>2. BadCovered(q, Now)'
            BY <2>2 DEF Covered, BadCovered
        <3>3. CommitsDue(q)'
            BY <1>2, <2>2 DEF Covered, CommitsDue
        <3> QED
            BY <3>1, <3>2, <3>3
    <2> QED
        BY <2>1, <2>2
<1> QED
    BY <1>3, <1>4, <1>5 DEF Covered

LEMMA ExitCovered ==
    ASSUME TypeInv, NEW Dropped, Covered(Dropped), NEW r \in Replicas, Exit(r)
    PROVE  Covered(Dropped)'
<1>1. /\ Leave(r) /\ Settled' = Settled
      /\ UNCHANGED <<phase, batch, bad, unsent>>
      /\ phase[r] = "loop" /\ batch[r] = <<>> /\ bad[r] = 0
    BY OutcomeUnchanged DEF Exit, LeaveByStop, TypeInv
<1>2. Exposed(Dropped)' = Exposed(Dropped)
    BY <1>1 DEF Exposed, Early
<1> QED
    BY <1>1, <1>2, LeaveCovered

(* A crash drops the early part of a batch, and only that counts: what the *)
(* last slot of a full batch held is not overtaken.                        *)
LEMMA CrashCovered ==
    ASSUME TypeInv, NEW Dropped, Covered(Dropped), NEW r \in Replicas, Crash(r),
           NEW Taken, Taken = Early(r)
    PROVE  Covered(Dropped \cup Taken)'
<1>1. /\ Leave(r) /\ Settled' = Settled
      /\ phase'[r] = "loop" /\ batch'[r] = <<>> /\ bad'[r] = 0
      /\ \A q \in Replicas : q # r => /\ batch'[q] = batch[q]
                                      /\ bad'[q] = bad[q]
                                      /\ phase'[q] = phase[q]
                                      /\ unsent'[q] = unsent[q]
    BY OutcomeUnchanged DEF Crash, LeaveByCrash, TypeInv, TypeOK
<1>2. \A q \in Replicas : q # r => Early(q)' = Early(q)
    BY <1>1 DEF Early
<1>3. Exposed(Dropped) \subseteq Exposed(Dropped \cup Taken)'
    BY <1>2 DEF Exposed
<1> QED
    BY <1>1, <1>3, LeaveCovered

(* A partition that is assigned is read from its committed offset. *)
LEMMA AssignCovered ==
    ASSUME TypeInv, NEW Dropped, Covered(Dropped),
           NEW p \in Partitions, NEW r \in Replicas, Rebalance(p, r)
    PROVE  Covered(Dropped)'
<1>1. /\ Settled' = Settled
      /\ UNCHANGED <<phase, batch, bad, unsent, committed>>
      /\ owner' = [owner EXCEPT ![p] = r]
      /\ position' = [position EXCEPT ![p] = committed[p]]
    BY OutcomeUnchanged DEF Rebalance, Assign, local
<1>2. /\ Exposed(Dropped)' = Exposed(Dropped)
      /\ \A q \in Replicas : InBatch(q)' = InBatch(q)
    BY <1>1 DEF Exposed, Early, InBatch
<1>3. OffsetsCovered(Dropped)'
    BY <1>1, <1>2 DEF Covered, OffsetsCovered, Fine
<1>4. PositionsCovered(Dropped)'
    <2> SUFFICES ASSUME NEW m \in Messages,
                        owner'[Part[m]] # NoOwner, m <= position'[Part[m]]
                 PROVE  \/ Fine(m, position[Part[m]], Dropped)'
                        \/ m \in InBatch(owner[Part[m]])'
                        \/ m = bad'[owner'[Part[m]]]
        BY DEF PositionsCovered
    <2>1. Part[m] \in Partitions
        BY MessagesType
    <2>2. CASE Part[m] = p
        <3>1. position'[Part[m]] = committed[Part[m]]
            BY <1>1, <2>1, <2>2 DEF TypeInv, TypeOK, GroupTypeOK
        <3>2. Fine(m, committed[Part[m]], Dropped)
            BY <3>1 DEF Covered, OffsetsCovered
        <3> QED
            BY <1>1, <1>2, <3>1, <3>2 DEF Fine
    <2>3. CASE Part[m] # p
        <3>1. owner'[Part[m]] = owner[Part[m]] /\ position'[Part[m]] = position[Part[m]]
            BY <1>1, <2>1, <2>3 DEF TypeInv, TypeOK, GroupTypeOK
        <3>2. PICK q \in Replicas : q = owner[Part[m]] /\ q = owner'[Part[m]]
            BY <2>1, <3>1 DEF TypeInv, TypeOK, GroupTypeOK
        <3>3. \/ Fine(m, position[Part[m]], Dropped)
              \/ m \in InBatch(q)
              \/ m = bad[q]
            BY <3>1, <3>2 DEF Covered, PositionsCovered
        <3>4. Fine(m, position[Part[m]], Dropped) =>
                  Fine(m, position[Part[m]], Dropped)'
            BY <1>1, <1>2, <3>1 DEF Fine
        <3>5. m \in InBatch(q) => m \in InBatch(owner[Part[m]])'
            BY <1>1, <3>2 DEF InBatch
        <3> QED
            BY <1>1, <3>2, <3>3, <3>4, <3>5
    <2> QED
        BY <2>2, <2>3
<1>5. ASSUME NEW q \in Replicas
      PROVE  BatchCovered(q, Dropped)' /\ BadCovered(q, Dropped)' /\ CommitsDue(q)'
    BY <1>1, <1>2 DEF Covered, BatchCovered, BadCovered, CommitsDue, Fine
<1> QED
    BY <1>3, <1>4, <1>5 DEF Covered

(* The steps between a fetch and a commit. *)
LEMMA FlushCovered ==
    ASSUME TypeInv, NEW Dropped, Covered(Dropped), NEW r \in Replicas, Flush(r)
    PROVE  Covered(Dropped)'
<1>1. SameHands /\ Settled' = Settled
    BY OutcomeUnchanged DEF Flush, SameHands, groupVars
<1>2. /\ \A q \in Replicas : q # r => phase'[q] = phase[q] /\ unsent'[q] = unsent[q]
      /\ phase'[r] \in {"upsert", "dlq"}
      /\ phase'[r] = "dlq" => unsent'[r] = batch[r]
    BY DEF Flush, StartFlush, TypeInv, TypeOK
<1>3. ASSUME NEW q \in Replicas
      PROVE  CommitsDue(q)'
    <2>1. CASE q = r
        BY <1>1, <1>2, <2>1 DEF CommitsDue, InBatch, SameHands
    <2>2. CASE q # r
        BY <1>1, <1>2, <2>2 DEF Covered, CommitsDue, InBatch, SameHands
    <2> QED
        BY <2>1, <2>2
<1> QED
    BY <1>1, <1>3, HandsKeepCovered DEF AllCommitsDue

LEMMA ParkBadCovered ==
    ASSUME TypeInv, NEW Dropped, Covered(Dropped), NEW r \in Replicas, ParkBad(r)
    PROVE  Covered(Dropped)'
<1>1. SameHands /\ unsent' = unsent /\ phase' = [phase EXCEPT ![r] = "poisonCommit"]
    BY DEF ParkBad, SameHands, groupVars
<1>2. Settled \subseteq Settled' /\ bad[r] \in Settled'
    BY DEF ParkBad, PublishDLQ, Settled
<1>3. AllCommitsDue
    BY <1>1, <1>2
    DEF AllCommitsDue, Covered, CommitsDue, InBatch, SameHands, TypeInv, TypeOK
<1> QED
    BY <1>1, <1>2, <1>3, HandsKeepCovered

LEMMA UpsertCovered ==
    ASSUME TypeInv, NEW Dropped, Covered(Dropped), NEW r \in Replicas,
           UpsertSucceeds(r) \/ UpsertFails(r)
    PROVE  Covered(Dropped)'
<1>1. SameHands
    BY DEF UpsertSucceeds, UpsertFails, SameHands, groupVars
<1>2. Settled \subseteq Settled'
    BY DEF UpsertSucceeds, UpsertFails, Apply, Settled
<1>3. \A q \in Replicas : q # r => phase'[q] = phase[q] /\ unsent'[q] = unsent[q]
    BY DEF UpsertSucceeds, UpsertFails, TypeInv, TypeOK
<1>4. \/ phase'[r] = "commit" /\ InBatch(r) \subseteq Settled'
      \/ phase'[r] = "dlq" /\ unsent'[r] = batch[r]
      \/ phase'[r] = "upsert"
    <2>1. CASE UpsertSucceeds(r)
        BY <2>1 DEF UpsertSucceeds, Apply, Settled, TypeInv, TypeOK
    <2>2. CASE UpsertFails(r)
        BY <2>2 DEF UpsertFails, TypeInv, TypeOK
    <2> QED
        BY <2>1, <2>2
<1>5. ASSUME NEW q \in Replicas
      PROVE  CommitsDue(q)'
    <2>1. CASE q = r
        BY <1>1, <1>4, <2>1 DEF CommitsDue, InBatch, SameHands
    <2>2. CASE q # r
        BY <1>1, <1>2, <1>3, <2>2 DEF Covered, CommitsDue, InBatch, SameHands
    <2> QED
        BY <2>1, <2>2
<1> QED
    BY <1>1, <1>2, <1>5, HandsKeepCovered DEF AllCommitsDue

(* The head of what is left to park gets an outcome, the tail remains. *)
LEMMA ParkNextCovered ==
    ASSUME TypeInv, NEW Dropped, Covered(Dropped), NEW r \in Replicas, ParkNext(r)
    PROVE  Covered(Dropped)'
<1>1. SameHands
    BY DEF ParkNext, SameHands, groupVars
<1>2. Settled \subseteq Settled' /\ Head(unsent[r]) \in Settled'
    BY DEF ParkNext, PublishDLQ, Settled
<1>3. /\ \A q \in Replicas : q # r => phase'[q] = phase[q] /\ unsent'[q] = unsent[q]
      /\ phase[r] = "dlq" /\ unsent'[r] = Tail(unsent[r])
      /\ phase'[r] = IF Len(unsent[r]) = 1 THEN "commit" ELSE "dlq"
    BY DEF ParkNext, TypeInv, TypeOK
<1>4. /\ unsent[r] \in Seq(Messages) /\ unsent[r] # <<>>
      /\ Len(unsent[r]) \in Nat \ {0} /\ DOMAIN unsent[r] = 1..Len(unsent[r])
    BY LenProperties, EmptySeq DEF ParkNext, TypeInv, TypeOK
<1>5. /\ Tail(unsent[r]) \in Seq(Messages)
      /\ DOMAIN Tail(unsent[r]) = 1..(Len(unsent[r]) - 1)
      /\ \A i \in 1..(Len(unsent[r]) - 1) : Tail(unsent[r])[i] = unsent[r][i + 1]
    BY <1>4, HeadTailProperties, LenProperties
<1>6. Head(unsent[r]) = unsent[r][1]
    BY <1>4
<1>7. ASSUME NEW i \in DOMAIN unsent[r]
      PROVE  \/ unsent[r][i] \in Settled'
             \/ \E j \in DOMAIN Tail(unsent[r]) : Tail(unsent[r])[j] = unsent[r][i]
    <2>1. CASE i = 1
        BY <1>2, <1>6, <2>1
    <2>2. CASE i # 1
        <3>1. i - 1 \in 1..(Len(unsent[r]) - 1) /\ (i - 1) + 1 = i
            BY <1>4, <2>2
        <3> QED
            BY <1>5, <3>1
    <2> QED
        BY <2>1, <2>2
<1>8. InBatch(r) \subseteq Settled' \cup {Tail(unsent[r])[j] : j \in DOMAIN Tail(unsent[r])}
    BY <1>2, <1>3, <1>7 DEF Covered, CommitsDue
<1>9. Len(unsent[r]) = 1 => DOMAIN Tail(unsent[r]) = {}
    BY <1>5
<1>10. ASSUME NEW q \in Replicas
       PROVE  CommitsDue(q)'
    <2>1. CASE q = r
        <3>1. InBatch(r)' = InBatch(r)
            BY <1>1 DEF InBatch, SameHands
        <3>2. CASE Len(unsent[r]) = 1
            <4>1. InBatch(r)' \subseteq Settled' /\ phase'[r] = "commit"
                BY <1>3, <1>8, <1>9, <3>1, <3>2
            <4> QED
                BY <2>1, <4>1 DEF CommitsDue
        <3>3. CASE Len(unsent[r]) # 1
            <4>1. InBatch(r)' \subseteq Settled' \cup {unsent'[r][j] : j \in DOMAIN unsent'[r]}
                BY <1>3, <1>8, <3>1
            <4>2. phase'[r] = "dlq"
                BY <1>3, <3>3
            <4> QED
                BY <2>1, <4>1, <4>2 DEF CommitsDue
        <3> QED
            BY <3>2, <3>3
    <2>2. CASE q # r
        BY <1>1, <1>2, <1>3, <2>2 DEF Covered, CommitsDue, InBatch, SameHands
    <2> QED
        BY <2>1, <2>2
<1> QED
    BY <1>1, <1>2, <1>10, HandsKeepCovered DEF AllCommitsDue

LEMMA StopCovered ==
    ASSUME TypeInv, NEW Dropped, Covered(Dropped), NEW r \in Replicas, Stop(r)
    PROVE  Covered(Dropped)'
<1>1. SameHands /\ Settled' = Settled /\ UNCHANGED <<phase, unsent>>
    BY OutcomeUnchanged DEF Stop, ToldToStop, SameHands
<1>2. AllCommitsDue
    BY <1>1 DEF AllCommitsDue, Covered, CommitsDue, InBatch, SameHands
<1> QED
    BY <1>1, <1>2, HandsKeepCovered

(* At most MaxBatchSize - 1 messages of a replica are exposed. *)
LEMMA EarlyIsSmall ==
    ASSUME TypeInv, NEW r \in Replicas
    PROVE  /\ Early(r) \subseteq Messages
           /\ IsFiniteSet(Early(r))
           /\ Cardinality(Early(r)) <= MaxBatchSize - 1
<1> DEFINE I == DOMAIN batch[r] \ {MaxBatchSize}
           f == [i \in I |-> batch[r][i]]
<1>1. /\ DOMAIN batch[r] = 1..Len(batch[r]) /\ Len(batch[r]) \in Nat
      /\ Len(batch[r]) <= MaxBatchSize /\ MaxBatchSize \in Nat \ {0}
      /\ \A i \in DOMAIN batch[r] : batch[r][i] \in Messages
    BY BatchElements, PersistenceAssumption DEF TypeInv, TypeOK
<1>2. I \in SUBSET (1..(MaxBatchSize - 1))
    BY <1>1
<1>3. /\ IsFiniteSet(1..(MaxBatchSize - 1))
      /\ Cardinality(1..(MaxBatchSize - 1)) = MaxBatchSize - 1
    <2>1. 1 \in Int /\ MaxBatchSize - 1 \in Int
        BY <1>1
    <2>2. /\ IsFiniteSet(1..(MaxBatchSize - 1))
          /\ Cardinality(1..(MaxBatchSize - 1)) =
                IF 1 > MaxBatchSize - 1 THEN 0 ELSE (MaxBatchSize - 1) - 1 + 1
        BY <2>1, FS_Interval, Zenon
    <2> QED
        BY <1>1, <2>2
<1>4. /\ IsFiniteSet(I) /\ Cardinality(I) <= MaxBatchSize - 1
      /\ Cardinality(I) \in Nat
    BY <1>2, <1>3, FS_Subset, FS_CardinalityType
<1>5. Early(r) = {f[i] : i \in I} /\ f \in [I -> Early(r)]
    BY DEF Early
<1>6. f \in Surjection(I, Early(r))
    BY <1>5 DEF Surjection
<1>7. IsFiniteSet(Early(r)) /\ Cardinality(Early(r)) <= Cardinality(I)
    BY <1>4, <1>6, FS_Surjection
<1>8. Cardinality(Early(r)) \in Nat
    BY <1>7, FS_CardinalityType
<1>9. Early(r) \subseteq Messages
    BY <1>1 DEF Early
<1> QED
    BY <1>1, <1>4, <1>7, <1>8, <1>9

LEMMA InitAccounted == Init => Accounted
<1> SUFFICES ASSUME Init PROVE Accounted
    OBVIOUS
<1>1. DroppedByCrashes({})
    <2>1. MaxBatchSize - 1 \in Nat /\ (MaxBatchSize - 1) * 0 = 0
        BY PersistenceAssumption
    <2> QED
        BY <2>1, FS_EmptySet DEF DroppedByCrashes, Init, GroupInit
<1>2. Covered({})
    BY MessagesType DEF Init, GroupInit, Covered, OffsetsCovered, PositionsCovered, BatchCovered,
           BadCovered, CommitsDue, InBatch, Messages
<1> QED
    BY <1>1, <1>2 DEF Accounted

LEMMA StepAccounted == TypeInv /\ Accounted /\ [Next]_vars => Accounted'
<1> SUFFICES ASSUME TypeInv, Accounted, [Next]_vars
             PROVE  Accounted'
    OBVIOUS
<1>1. PICK Dropped : DroppedByCrashes(Dropped) /\ Covered(Dropped)
    BY DEF Accounted
<1>2. ASSUME NEW r \in Replicas, Crash(r)
      PROVE  Accounted'
    <2>1. PICK Taken : Taken = Early(r)
        OBVIOUS
    <2>2. Covered(Dropped \cup Taken)'
        BY <1>1, <1>2, <2>1, CrashCovered
    <2>3. Taken \in SUBSET Messages /\ Cardinality(Taken) <= MaxBatchSize - 1
        BY <2>1, EarlyIsSmall
    <2>4. crashes \in Nat /\ crashes' = crashes + 1 /\ MaxBatchSize - 1 \in Nat
        BY <1>2, PersistenceAssumption, GroupAssumption
        DEF Crash, LeaveByCrash, TypeInv, TypeOK, GroupTypeOK
    <2>5. Cardinality(Dropped \cup Taken) <= (MaxBatchSize - 1) * (crashes + 1)
        BY <1>1, <2>3, <2>4, CrashPays DEF DroppedByCrashes
    <2>6. DroppedByCrashes(Dropped \cup Taken)'
        BY <1>1, <2>3, <2>4, <2>5 DEF DroppedByCrashes
    <2> QED
        BY <2>2, <2>6 DEF Accounted
<1>3. ASSUME crashes' = crashes, Covered(Dropped)'
      PROVE  Accounted'
    BY <1>1, <1>3 DEF Accounted, DroppedByCrashes
<1>4. ASSUME NEW r \in Replicas, FetchGood(r) \/ FetchBad(r)
      PROVE  Accounted'
    BY <1>1, <1>3, <1>4, FetchGoodCovered, FetchBadCovered DEF FetchGood, FetchBad, Deliver
<1>5. ASSUME NEW r \in Replicas, Flush(r) \/ ParkBad(r)
      PROVE  Accounted'
    BY <1>1, <1>3, <1>5, FlushCovered, ParkBadCovered DEF Flush, ParkBad, groupVars
<1>6. ASSUME NEW r \in Replicas, UpsertSucceeds(r) \/ UpsertFails(r) \/ ParkNext(r)
      PROVE  Accounted'
    BY <1>1, <1>3, <1>6, UpsertCovered, ParkNextCovered
    DEF UpsertSucceeds, UpsertFails, ParkNext, groupVars
<1>7. ASSUME NEW r \in Replicas, CommitBad(r) \/ CommitBatch(r)
      PROVE  Accounted'
    BY <1>1, <1>3, <1>7, CommitBadCovered, CommitBatchCovered
    DEF CommitBad, CommitBatch, CommitMessages
<1>8. ASSUME NEW r \in Replicas, Exit(r)
      PROVE  Accounted'
    BY <1>1, <1>3, <1>8, ExitCovered DEF Exit, LeaveByStop
<1>9. ASSUME NEW r \in Replicas, Stop(r)
      PROVE  Accounted'
    BY <1>1, <1>3, <1>9, StopCovered DEF Stop, ToldToStop
<1>10. ASSUME NEW p \in Partitions, NEW r \in Replicas, Rebalance(p, r)
       PROVE  Accounted'
    BY <1>1, <1>3, <1>10, AssignCovered DEF Rebalance, Assign
<1>11. CASE UNCHANGED vars
    <2>1. Accounted' = Accounted
        BY <1>11 DEF vars, groupVars, local, outcome, Accounted, DroppedByCrashes, Covered,
            OffsetsCovered, PositionsCovered, BatchCovered, BadCovered, CommitsDue, Fine,
            Exposed, Early, InBatch, Settled
    <2> QED
        BY <2>1
<1> QED
    BY <1>2, <1>4, <1>5, <1>6, <1>7, <1>8, <1>9, <1>10, <1>11 DEF Next, Handle

LEMMA AlwaysAccounted == Safety => [](TypeInv /\ Accounted)
BY InitType, StepType, InitAccounted, StepAccounted, PTL DEF Safety

-----------------------------------------------------------------------------
(* The commit of an undecodable message is the only way in which the       *)
(* committed offset passes a message without an outcome.                   *)
THEOREM OnlyPoisonPasses == Safety => []OnlyPoisonOvertakes
<1>1. TypeInv /\ Accounted => OnlyPoisonOvertakes
    BY DEF Accounted, Covered, OffsetsCovered, Fine, Overtakes, Before,
           OnlyPoisonOvertakes, Overtaken, Behind
<1> QED
    BY AlwaysAccounted, <1>1, PTL

-----------------------------------------------------------------------------
(* What Accounted means for the contract: the lost ones were dropped. *)
LEMMA LostWereDropped ==
    ASSUME NEW Dropped, Covered(Dropped)
    PROVE  Lost \subseteq Dropped
<1> SUFFICES ASSUME NEW m \in Lost
             PROVE  m \in Dropped
    OBVIOUS
<1>1. /\ m \in Messages /\ m <= committed[Part[m]]
      /\ m \notin Settled
      /\ \A r \in Replicas : m \notin InBatch(r)
    BY DEF Lost, Overtaken, Behind, Held
<1>2. m \in Exposed(Dropped)
    BY <1>1 DEF Covered, OffsetsCovered, Fine
<1>3. \A r \in Replicas : Early(r) \subseteq InBatch(r)
    BY DEF Early, InBatch
<1> QED
    BY <1>1, <1>2, <1>3 DEF Exposed

LEMMA LossWithinBound == TypeInv /\ Accounted => Contract!LossBound
<1> SUFFICES ASSUME TypeInv, Accounted
             PROVE  Contract!LossBound
    OBVIOUS
<1>1. PICK Dropped : DroppedByCrashes(Dropped) /\ Covered(Dropped)
    BY DEF Accounted
<1>2. Dropped \in SUBSET Messages /\ IsFiniteSet(Dropped)
    BY <1>1, MessagesFinite, FS_Subset DEF DroppedByCrashes
<1>3. Lost \in SUBSET Dropped
    BY <1>1, LostWereDropped
<1>4. Cardinality(Lost) <= Cardinality(Dropped) /\ IsFiniteSet(Lost)
    BY <1>2, <1>3, FS_Subset
<1>5. Cardinality(Lost) \in Nat /\ Cardinality(Dropped) \in Nat
    BY <1>2, <1>4, FS_CardinalityType
<1>6. Cardinality(Dropped) <= (MaxBatchSize - 1) * crashes
    BY <1>1 DEF DroppedByCrashes
<1>7. (MaxBatchSize - 1) * crashes \in Nat
    BY PersistenceAssumption, GroupAssumption DEF TypeInv, TypeOK, GroupTypeOK
<1>8. Contract!Cardinality(Lost) = Cardinality(Lost)
    BY DEF Contract!Cardinality, Cardinality
<1> QED
    BY <1>4, <1>5, <1>6, <1>7, <1>8 DEF Contract!LossBound

LEMMA InitRefines == Init => Contract!Init
<1> SUFFICES ASSUME Init PROVE Contract!Init
    OBVIOUS
<1>1. Settled = {} /\ crashes = 0
    BY DEF Init, GroupInit, Settled
<1>2. Lost = {}
    BY MessagesType DEF Init, GroupInit, Lost, Overtaken, Behind, Messages
<1> QED
    BY <1>1, <1>2 DEF Contract!Init

LEMMA StepRefines ==
    TypeInv /\ TypeInv' /\ Accounted' /\ [Next]_vars => [Contract!Next]_(Contract!vars)
<1> SUFFICES ASSUME TypeInv, TypeInv', Accounted', [Next]_vars
             PROVE  Contract!Next \/ UNCHANGED Contract!vars
    OBVIOUS
<1>1. Contract!LossBound'
    <2>1. TypeInv' /\ Accounted' => Contract!LossBound'
        BY LossWithinBound, PTL
    <2> QED
        BY <2>1
<1>2. Settled' \subseteq Messages /\ Lost' \subseteq Messages \ Settled'
    BY DEF TypeInv, TypeOK, Settled, Lost, Overtaken, Behind
<1>3. ASSUME Settled \subseteq Settled', crashes' = crashes
      PROVE  Contract!Next
    BY <1>1, <1>2, <1>3 DEF Contract!Next, Contract!Resolve
<1>4. ASSUME NEW r \in Replicas, Crash(r)
      PROVE  Contract!Next
    <2>1. Settled' = Settled /\ crashes' = crashes + 1
        BY <1>4, OutcomeUnchanged DEF Crash, LeaveByCrash
    <2> QED
        BY <1>1, <1>2, <2>1 DEF Contract!Next, Contract!Crash
<1>5. ASSUME UNCHANGED outcome, crashes' = crashes
      PROVE  Contract!Next
    BY <1>3, <1>5, OutcomeUnchanged
<1>6. ASSUME NEW r \in Replicas, UpsertSucceeds(r) \/ UpsertFails(r)
      PROVE  Contract!Next
    BY <1>3, <1>6 DEF UpsertSucceeds, UpsertFails, Apply, Settled, groupVars
<1>7. ASSUME NEW r \in Replicas, ParkBad(r) \/ ParkNext(r)
      PROVE  Contract!Next
    BY <1>3, <1>7 DEF ParkBad, ParkNext, PublishDLQ, Settled, groupVars
<1>8. ASSUME NEW r \in Replicas, FetchGood(r) \/ FetchBad(r) \/ Flush(r)
      PROVE  Contract!Next
    BY <1>5, <1>8 DEF FetchGood, FetchBad, Flush, Deliver, groupVars
<1>9. ASSUME NEW r \in Replicas, CommitBad(r) \/ CommitBatch(r) \/ Stop(r) \/ Exit(r)
      PROVE  Contract!Next
    BY <1>5, <1>9
    DEF CommitBad, CommitBatch, CommitMessages, Stop, ToldToStop, Exit, LeaveByStop
<1>10. ASSUME NEW p \in Partitions, NEW r \in Replicas, Rebalance(p, r)
       PROVE  Contract!Next
    BY <1>5, <1>10 DEF Rebalance, Assign
<1>11. CASE UNCHANGED vars
    BY <1>5, <1>11 DEF vars, groupVars
<1> QED
    BY <1>4, <1>6, <1>7, <1>8, <1>9, <1>10, <1>11 DEF Next, Handle

(* The persistence service implements the safety part of the contract with *)
(* a window of MaxBatchSize - 1: a crash makes at most the messages of one *)
(* unfilled batch unreachable, and nothing else makes any.                 *)
THEOREM LossesNeedCrashes == Safety => LosesOnlyToCrashes
BY AlwaysAccounted, InitRefines, StepRefines, PTL
   DEF Safety, LosesOnlyToCrashes, Contract!Safety

-----------------------------------------------------------------------------
(* The rows.  As long as no partition moved, a batch is the owner's alone  *)
(* and holds, without a gap, what was read of a partition and can be       *)
(* stored.  So an older verdict is written over a newer one only while     *)
(* the newer one is to be read again, or is read and yet to be written:    *)
(* after a crash, and for as long as no other crash makes the group pass   *)
(* over it.                                                                *)

(* No undecodable message can make the group pass over m. *)
Unpassed(m) == \A u \in Undecodable : Part[u] = Part[m] => u < m

ToRead(m) ==
    IF owner[Part[m]] = NoOwner THEN committed[Part[m]] < m ELSE position[Part[m]] < m

Kept(m) ==
    /\ \A k \in parked \cup abandoned : Txn[k] # Txn[m]
    /\ \A k \in Messages : Txn[k] = Txn[m] => Part[k] = Part[m]

Gathered(r) ==
    \A m \in InBatch(r) :
        /\ owner[Part[m]] = r /\ m <= position[Part[m]] /\ m \notin Undecodable
        /\ \A k \in Messages : Before(m, k) /\ k <= position[Part[m]] =>
               k \in InBatch(r) \/ k \in Undecodable
        /\ Unpassed(m) => committed[Part[m]] < m

InTurn(r) == \A i, j \in DOMAIN batch[r] :
                 i < j /\ Part[batch[r][i]] = Part[batch[r][j]] => batch[r][i] < batch[r][j]

BadHeld(r) ==
    bad[r] # 0 => owner[Part[bad[r]]] = r /\ bad[r] <= position[Part[bad[r]]]

WrittenOrParked(r) ==
    /\ phase[r] = "commit" => \A m \in InBatch(r) : Kept(m) => m <= rows[Txn[m]]
    /\ phase[r] = "dlq" =>
          InBatch(r) \subseteq parked \cup abandoned
                               \cup {unsent[r][i] : i \in DOMAIN unsent[r]}

OffsetsReached == \A p \in Partitions : owner[p] # NoOwner => committed[p] <= position[p]

FirstReading == crashes = 0 => \A m \in stored : ~ ToRead(m)

RowsNewest ==
    \A m \in stored : Kept(m) /\ ReadAgain(m) =>
        \/ m <= rows[Txn[m]]
        \/ crashes > 0 /\ (ToRead(m) \/ \E r \in Replicas : m \in InBatch(r))

Offsets == stopping = {} /\ OffsetsReached

Rows == stored \cap Undecodable = {} /\ FirstReading /\ RowsNewest

Hands == \A r \in Replicas : Gathered(r) /\ InTurn(r) /\ BadHeld(r)

Steady == Offsets /\ Rows /\ Hands /\ \A r \in Replicas : WrittenOrParked(r)

SteadyInv == moves = 0 => Steady

(* The numbers of partitions and replicas that the proofs compare. *)
LEMMA OffsetTypes ==
    ASSUME TypeInv
    PROVE  /\ \A p \in Partitions : /\ committed[p] \in Nat /\ position[p] \in Nat
                                    /\ owner[p] \in Replicas \cup {NoOwner}
           /\ \A r \in Replicas : bad[r] \in Nat /\ r # NoOwner
           /\ \A r \in Replicas : bad[r] # 0 => bad[r] \in Messages
           /\ crashes \in Nat /\ moves \in Nat
BY GroupAssumption DEF TypeInv, TypeOK, GroupTypeOK, Messages

(* Steps that fetch nothing, empty no hands, move no offset and write no   *)
(* row keep everything but what is due before a commit.                    *)
LEMMA HandsKeepSteady ==
    ASSUME Steady, SameHands, UNCHANGED <<crashes, stopping, rows, stored>>,
           parked \subseteq parked', abandoned \subseteq abandoned',
           \A r \in Replicas : WrittenOrParked(r)'
    PROVE  Steady'
<1>1. /\ \A r \in Replicas : InBatch(r)' = InBatch(r)
      /\ \A m \in Messages : ToRead(m)' = ToRead(m)
      /\ \A m : Kept(m)' => Kept(m)
    BY DEF SameHands, InBatch, ToRead, Kept
<1>2. Offsets'
    BY DEF SameHands, Steady, Offsets, OffsetsReached
<1>3. Hands'
    BY <1>1 DEF SameHands, Steady, Hands, Gathered, InTurn, BadHeld
<1>4. Rows'
    <2>1. FirstReading'
        BY <1>1 DEF SameHands, Steady, Rows, FirstReading, ToRead
    <2>2. RowsNewest'
        BY <1>1 DEF SameHands, Steady, Rows, RowsNewest, ToRead, ReadAgain
    <2> QED
        BY <2>1, <2>2 DEF Steady, Rows
<1> QED
    BY <1>2, <1>3, <1>4 DEF Steady

(* A message is delivered and joins the batch, unless it is undecodable. *)
LEMMA DeliverySteady ==
    ASSUME TypeInv, Steady, NEW r \in Replicas, NEW k \in Messages, Deliver(r, k),
           \/ k \in Undecodable /\ batch' = batch
           \/ /\ k \notin Undecodable /\ Len(batch[r]) < MaxBatchSize
              /\ batch' = [batch EXCEPT ![r] = Append(@, k)],
           UNCHANGED <<stopping, outcome>>
    PROVE  /\ Offsets' /\ Rows'
           /\ \A q \in Replicas : Gathered(q)' /\ InTurn(q)'
           /\ \A p \in Partitions : position[p] <= position'[p]
<1>1. /\ Part[k] \in Partitions /\ k \in Nat
      /\ owner[Part[k]] = r /\ r # NoOwner /\ position[Part[k]] < k
      /\ \A m \in Messages : Before(m, k) => m <= position[Part[k]]
      /\ UNCHANGED <<committed, owner, crashes>>
    BY MessagesType, OffsetTypes DEF Deliver, Before
<1>2. \A p \in Partitions : position'[p] = IF p = Part[k] THEN k ELSE position[p]
    BY DEF Deliver, TypeInv, TypeOK, GroupTypeOK
<1>3. \A p \in Partitions : position[p] <= position'[p]
    BY <1>1, <1>2, OffsetTypes
<1>4. /\ \A q \in Replicas : q # r => InBatch(q)' = InBatch(q) /\ batch'[q] = batch[q]
      /\ InBatch(r) \subseteq InBatch(r)' /\ InBatch(r)' \subseteq InBatch(r) \cup {k}
      /\ k \in InBatch(r)' <=> k \notin Undecodable
    <2>1. k \in Undecodable => k \notin InBatch(r)
        BY DEF Steady, Hands, Gathered
    <2>2. CASE k \in Undecodable /\ batch' = batch
        BY <2>1, <2>2 DEF InBatch
    <2>3. CASE /\ k \notin Undecodable /\ Len(batch[r]) < MaxBatchSize
               /\ batch' = [batch EXCEPT ![r] = Append(@, k)]
        <3>1. \A q \in Replicas : q # r => batch'[q] = batch[q]
            BY <2>3 DEF TypeInv, TypeOK
        <3> QED
            BY <2>3, <3>1, BatchGrows
    <2> QED
        BY <2>2, <2>3
<1>5. \A q \in Replicas : InBatch(q) \subseteq Messages
    BY BatchElements
<1>6. Offsets'
  <2>1. stopping' = {}
      BY DEF Steady, Offsets
  <2>2. ASSUME NEW p \in Partitions, owner[p] # NoOwner PROVE committed[p] <= position'[p]
    <3>1. committed[p] <= position[p] /\ position[p] <= position'[p]
        BY <1>3, <2>2 DEF Steady, Offsets, OffsetsReached
    <3>2. committed[p] \in Nat /\ position[p] \in Nat /\ position'[p] \in Nat
        BY <1>1, <1>2, OffsetTypes
    <3> QED
        BY <3>1, <3>2
  <2> QED
      BY <1>1, <2>1, <2>2 DEF Offsets, OffsetsReached
<1>7. ASSUME NEW q \in Replicas PROVE Gathered(q)'
  <2> SUFFICES ASSUME NEW m \in InBatch(q)'
               PROVE  /\ owner[Part[m]] = q /\ m <= position'[Part[m]] /\ m \notin Undecodable
                      /\ \A n \in Messages : Before(m, n) /\ n <= position'[Part[m]] =>
                             n \in InBatch(q)' \/ n \in Undecodable
                      /\ Unpassed(m) => committed[Part[m]] < m
      BY <1>1 DEF Gathered, Unpassed
  <2>1. CASE m \in InBatch(q)
    <3>1. m \in Messages /\ m \in Nat /\ Part[m] \in Partitions
        BY <1>5, <2>1, MessagesType
    <3>2. /\ owner[Part[m]] = q /\ m <= position[Part[m]] /\ m \notin Undecodable
          /\ \A n \in Messages : Before(m, n) /\ n <= position[Part[m]] =>
                 n \in InBatch(q) \/ n \in Undecodable
          /\ Unpassed(m) => committed[Part[m]] < m
        BY <2>1 DEF Steady, Hands, Gathered
    <3>3. m <= position'[Part[m]]
        BY <1>1, <1>2, <3>1, <3>2, OffsetTypes
    <3>4. ASSUME NEW n \in Messages, Before(m, n), n <= position'[Part[m]]
          PROVE  n \in InBatch(q)' \/ n \in Undecodable
      <4>1. n \in Nat
          BY MessagesType
      <4>2. CASE n <= position[Part[m]]
          BY <1>4, <3>2, <3>4, <4>2
      <4>3. CASE ~ n <= position[Part[m]]
        <5>1. Part[m] = Part[k] /\ n <= k
            BY <1>2, <3>1, <3>4, <4>3
        <5>2. ~ Before(n, k)
            BY <1>1, <4>3, <5>1
        <5>3. n = k
            BY <1>1, <3>4, <4>1, <5>1, <5>2 DEF Before
        <5>4. q = r
            BY <1>1, <3>2, <5>1
        <5> QED
            BY <1>4, <5>3, <5>4
      <4> QED
          BY <4>2, <4>3
    <3> QED
        BY <3>2, <3>3, <3>4
  <2>2. CASE m \notin InBatch(q)
    <3>1. m = k /\ q = r /\ k \notin Undecodable
        BY <1>4, <2>2
    <3>2. k <= position'[Part[k]] /\ \A n \in Messages : ~ (Before(k, n) /\ n <= position'[Part[k]])
        BY <1>1, <1>2, MessagesType DEF Before
    <3>3. committed[Part[k]] < k
        BY <1>1, OffsetTypes DEF Steady, Offsets, OffsetsReached
    <3> QED
        BY <1>1, <3>1, <3>2, <3>3
  <2> QED
      BY <2>1, <2>2
<1>8. ASSUME NEW q \in Replicas PROVE InTurn(q)'
  <2>1. InTurn(q) /\ Gathered(q)
      BY DEF Steady, Hands
  <2>2. CASE batch'[q] = batch[q]
      BY <2>1, <2>2 DEF InTurn
  <2>3. CASE q = r /\ batch' = [batch EXCEPT ![r] = Append(@, k)]
    <3>1. /\ batch[r] \in Seq(Messages) /\ Len(batch[r]) \in Nat
          /\ DOMAIN batch[r] = 1..Len(batch[r])
        BY BatchElements
    <3>2. batch'[r] = Append(batch[r], k)
        BY <2>3 DEF TypeInv, TypeOK
    <3>3. /\ DOMAIN batch'[r] = 1..(Len(batch[r]) + 1)
          /\ \A i \in 1..Len(batch[r]) : batch'[r][i] = batch[r][i]
          /\ batch'[r][Len(batch[r]) + 1] = k
        BY <3>1, <3>2, AppendProperties, LenProperties
    <3> SUFFICES ASSUME NEW i \in DOMAIN batch'[r], NEW j \in DOMAIN batch'[r], i < j,
                        Part[batch'[r][i]] = Part[batch'[r][j]]
                 PROVE  batch'[r][i] < batch'[r][j]
        BY <2>3 DEF InTurn
    <3>4. i \in DOMAIN batch[r]
        BY <3>1, <3>3
    <3>5. CASE j \in DOMAIN batch[r]
        BY <2>1, <2>3, <3>1, <3>3, <3>4, <3>5 DEF InTurn
    <3>6. CASE j \notin DOMAIN batch[r]
      <4>1. j = Len(batch[r]) + 1 /\ batch'[r][j] = k /\ batch'[r][i] = batch[r][i]
          BY <3>1, <3>3, <3>4, <3>6
      <4>2. batch[r][i] \in InBatch(r) /\ batch[r][i] \in Nat
          BY <3>1, <3>4, BatchElements, MessagesType DEF InBatch
      <4>3. batch[r][i] <= position[Part[k]]
          BY <2>1, <2>3, <4>1, <4>2 DEF Gathered
      <4> QED
          BY <1>1, <4>1, <4>2, <4>3, OffsetTypes
    <3> QED
        BY <3>5, <3>6
  <2> QED
      BY <1>4, <2>2, <2>3
<1>9. Rows'
  <2>1. stored' = stored /\ rows' = rows /\ stored \cap Undecodable = {} /\ stored \subseteq Messages
      BY DEF outcome, Steady, Rows, TypeInv, TypeOK
  <2>2. ASSUME NEW m \in Messages, ToRead(m)'
        PROVE  ToRead(m)
    <3>1. m \in Nat /\ Part[m] \in Partitions
        BY MessagesType
    <3>2. CASE owner[Part[m]] = NoOwner
        BY <1>1, <2>2, <3>2 DEF ToRead
    <3>3. CASE owner[Part[m]] # NoOwner
      <4>1. position'[Part[m]] < m /\ position[Part[m]] <= position'[Part[m]]
          BY <1>1, <1>3, <2>2, <3>1, <3>3 DEF ToRead
      <4>2. position[Part[m]] \in Nat /\ position'[Part[m]] \in Nat
          BY <1>1, <1>2, <3>1, OffsetTypes
      <4>3. position[Part[m]] < m
          BY <3>1, <4>1, <4>2
      <4> QED
          BY <3>3, <4>3 DEF ToRead
    <3> QED
        BY <3>2, <3>3
  <2>3. ASSUME NEW m \in Messages, ToRead(m), m \notin Undecodable
        PROVE  ToRead(m)' \/ \E q \in Replicas : m \in InBatch(q)'
    <3>1. m \in Nat /\ Part[m] \in Partitions
        BY MessagesType
    <3>2. CASE Part[m] # Part[k]
        BY <1>1, <1>2, <2>3, <3>1, <3>2 DEF ToRead
    <3>3. CASE Part[m] = Part[k]
      <4>1. position[Part[k]] < m
          BY <1>1, <2>3, <3>3 DEF ToRead
      <4>2. ~ Before(m, k)
          BY <1>1, <3>1, <4>1, OffsetTypes
      <4>3. CASE m = k
          BY <1>4, <2>3, <4>3
      <4>4. CASE k < m
          BY <1>1, <1>2, <3>1, <3>3, <4>4 DEF ToRead
      <4> QED
          BY <1>1, <3>1, <3>3, <4>2, <4>3, <4>4 DEF Before
    <3> QED
        BY <3>2, <3>3
  <2>4. FirstReading'
      BY <1>1, <2>1, <2>2 DEF Steady, Rows, FirstReading
  <2>5. RowsNewest'
    <3> SUFFICES ASSUME NEW m \in stored, Kept(m)', ReadAgain(m)', ~ m <= rows[Txn[m]]
                 PROVE  crashes > 0 /\ (ToRead(m)' \/ \E q \in Replicas : m \in InBatch(q)')
        BY <1>1, <2>1 DEF RowsNewest
    <3>1. Kept(m) /\ ReadAgain(m)
        BY <1>1 DEF Kept, ReadAgain, outcome
    <3>2. crashes > 0 /\ (ToRead(m) \/ \E q \in Replicas : m \in InBatch(q))
        BY <3>1 DEF Steady, Rows, RowsNewest
    <3>3. m \in Messages /\ m \notin Undecodable
        BY <2>1
    <3>4. CASE ToRead(m)
        BY <2>3, <3>2, <3>3, <3>4
    <3>5. CASE \E q \in Replicas : m \in InBatch(q)
        BY <1>4, <3>2, <3>5
    <3> QED
        BY <3>2, <3>4, <3>5
  <2> QED
      BY <2>1, <2>4, <2>5 DEF Rows
<1> QED
    BY <1>3, <1>6, <1>7, <1>8, <1>9

LEMMA FetchSteady ==
    ASSUME TypeInv, Steady, NEW r \in Replicas, FetchGood(r) \/ FetchBad(r)
    PROVE  Steady'
<1>1. ASSUME NEW k \in Messages, Deliver(r, k), UNCHANGED <<stopping, outcome>>,
             \A q \in Replicas : q # r => /\ UNCHANGED <<phase[q], bad[q], unsent[q]>>
                                          /\ InBatch(q)' = InBatch(q),
             phase'[r] \in {"loop", "upsert", "poison"},
             bad'[r] \in {0, k},
             \/ k \in Undecodable /\ batch' = batch
             \/ /\ k \notin Undecodable /\ Len(batch[r]) < MaxBatchSize
                /\ batch' = [batch EXCEPT ![r] = Append(@, k)]
      PROVE  Steady'
  <2>1. /\ Offsets' /\ Rows'
        /\ \A q \in Replicas : Gathered(q)' /\ InTurn(q)'
        /\ \A p \in Partitions : position[p] <= position'[p]
      BY <1>1, DeliverySteady
  <2>2. /\ owner' = owner /\ owner[Part[k]] = r /\ position'[Part[k]] = k /\ k \in Nat
        /\ \A p \in Partitions : position[p] \in Nat /\ position'[p] \in Nat
      BY <1>1, MessagesType, OffsetTypes DEF Deliver, TypeInv, TypeOK, GroupTypeOK
  <2>3. ASSUME NEW q \in Replicas PROVE BadHeld(q)'
    <3>1. CASE q = r
        BY <1>1, <2>2, <3>1 DEF BadHeld
    <3>2. CASE q # r
      <4> SUFFICES ASSUME bad[q] # 0
                   PROVE  owner[Part[bad[q]]] = q /\ bad[q] <= position'[Part[bad[q]]]
          BY <1>1, <2>2, <3>2 DEF BadHeld
      <4>1. bad[q] \in Nat /\ Part[bad[q]] \in Partitions
          BY OffsetTypes, MessagesType
      <4>2. owner[Part[bad[q]]] = q /\ bad[q] <= position[Part[bad[q]]]
          BY DEF Steady, Hands, BadHeld
      <4> QED
          BY <2>1, <2>2, <4>1, <4>2
    <3> QED
        BY <3>1, <3>2
  <2>4. ASSUME NEW q \in Replicas PROVE WrittenOrParked(q)'
    <3>1. CASE q = r
        BY <1>1, <3>1 DEF WrittenOrParked
    <3>2. CASE q # r
        BY <1>1, <3>2 DEF WrittenOrParked, Steady, Kept, outcome
    <3> QED
        BY <3>1, <3>2
  <2> QED
      BY <2>1, <2>3, <2>4 DEF Steady, Hands
<1>2. stopping = {}
    BY DEF Steady, Offsets
<1>3. CASE FetchGood(r)
  <2>1. PICK k \in Messages \ Undecodable :
            /\ Deliver(r, k)
            /\ batch' = [batch EXCEPT ![r] = Append(@, k)]
            /\ IF Len(batch[r]) + 1 >= MaxBatchSize
               THEN StartFlush(r, Append(batch[r], k))
               ELSE UNCHANGED <<phase, unsent>>
      BY <1>3 DEF FetchGood
  <2>2. /\ phase[r] = "loop" /\ bad[r] = 0 /\ Len(batch[r]) < MaxBatchSize
        /\ UNCHANGED <<bad, stopping, outcome>>
      BY <1>3 DEF FetchGood, TypeInv
  <2>3. /\ phase'[r] \in {"loop", "upsert"} /\ unsent' = unsent
        /\ \A q \in Replicas : q # r => phase'[q] = phase[q]
      BY <1>2, <2>1, <2>2 DEF StartFlush, TypeInv, TypeOK
  <2>4. \A q \in Replicas : q # r => InBatch(q)' = InBatch(q)
      BY <2>1, <2>2, BatchGrows
  <2> QED
      BY <1>1, <2>1, <2>2, <2>3, <2>4
<1>4. CASE FetchBad(r)
  <2>1. PICK k \in Undecodable : Deliver(r, k) /\ bad' = [bad EXCEPT ![r] = k]
      BY <1>4 DEF FetchBad
  <2>2. k \in Messages
      BY PersistenceAssumption
  <2>3. UNCHANGED <<batch, unsent, stopping, outcome>> /\ phase' = [phase EXCEPT ![r] = "poison"]
      BY <1>4 DEF FetchBad
  <2>4. /\ phase'[r] = "poison" /\ bad'[r] = k
        /\ \A q \in Replicas : q # r => /\ UNCHANGED <<phase[q], bad[q], unsent[q]>>
                                        /\ InBatch(q)' = InBatch(q)
      BY <2>1, <2>3 DEF TypeInv, TypeOK, InBatch
  <2> QED
      BY <1>1, <2>1, <2>2, <2>3, <2>4
<1> QED
    BY <1>3, <1>4

LEMMA FlushSteady ==
    ASSUME TypeInv, Steady, NEW r \in Replicas, Flush(r) \/ ParkBad(r)
    PROVE  Steady'
<1>1. /\ SameHands /\ UNCHANGED <<crashes, stopping, rows, stored>>
      /\ parked \subseteq parked' /\ abandoned \subseteq abandoned'
    BY DEF Flush, ParkBad, PublishDLQ, SameHands, groupVars, outcome
<1>2. /\ phase'[r] \in {"upsert", "poisonCommit"} /\ unsent' = unsent
      /\ \A q \in Replicas : q # r => phase'[q] = phase[q]
  <2>1. stopping = {}
      BY DEF Steady, Offsets
  <2> QED
      BY <2>1 DEF Flush, ParkBad, StartFlush, TypeInv, TypeOK
<1>3. ASSUME NEW q \in Replicas PROVE WrittenOrParked(q)'
  <2>1. CASE q = r
      BY <1>2, <2>1 DEF WrittenOrParked
  <2>2. CASE q # r
    <3>1. InBatch(q)' = InBatch(q) /\ \A m : Kept(m)' => Kept(m)
        BY <1>1 DEF SameHands, InBatch, Kept
    <3> QED
        BY <1>1, <1>2, <2>2, <3>1 DEF WrittenOrParked, Steady
  <2> QED
      BY <2>1, <2>2
<1> QED
    BY <1>1, <1>3, HandsKeepSteady

(* What of the batch is not parked remains to be parked; once all of it    *)
(* is, no message of the batch is kept.                                    *)
LEMMA ParkNextSteady ==
    ASSUME TypeInv, Steady, NEW r \in Replicas, ParkNext(r)
    PROVE  Steady'
<1> DEFINE Gone == parked \cup abandoned
<1>1. /\ SameHands /\ UNCHANGED <<crashes, stopping, rows, stored>>
      /\ parked \subseteq parked' /\ abandoned \subseteq abandoned'
      /\ Head(unsent[r]) \in Gone'
    BY DEF ParkNext, PublishDLQ, SameHands, groupVars
<1>2. /\ \A q \in Replicas : q # r => phase'[q] = phase[q] /\ unsent'[q] = unsent[q]
      /\ phase[r] = "dlq" /\ unsent'[r] = Tail(unsent[r])
      /\ phase'[r] = IF Len(unsent[r]) = 1 THEN "commit" ELSE "dlq"
    BY DEF ParkNext, TypeInv, TypeOK
<1>3. /\ unsent[r] \in Seq(Messages) /\ unsent[r] # <<>>
      /\ Len(unsent[r]) \in Nat \ {0} /\ DOMAIN unsent[r] = 1..Len(unsent[r])
    BY LenProperties, EmptySeq DEF ParkNext, TypeInv, TypeOK
<1>4. /\ DOMAIN Tail(unsent[r]) = 1..(Len(unsent[r]) - 1)
      /\ \A i \in 1..(Len(unsent[r]) - 1) : Tail(unsent[r])[i] = unsent[r][i + 1]
    BY <1>3, HeadTailProperties, LenProperties
<1>5. Head(unsent[r]) = unsent[r][1]
    BY <1>3
<1>6. ASSUME NEW i \in DOMAIN unsent[r]
      PROVE  \/ unsent[r][i] \in Gone'
             \/ \E j \in DOMAIN Tail(unsent[r]) : Tail(unsent[r])[j] = unsent[r][i]
  <2>1. CASE i = 1
      BY <1>1, <1>5, <2>1
  <2>2. CASE i # 1
    <3>1. i - 1 \in 1..(Len(unsent[r]) - 1) /\ (i - 1) + 1 = i
        BY <1>3, <2>2
    <3> QED
        BY <1>4, <3>1
  <2> QED
      BY <2>1, <2>2
<1>7. InBatch(r) \subseteq Gone' \cup {Tail(unsent[r])[j] : j \in DOMAIN Tail(unsent[r])}
    BY <1>1, <1>2, <1>6 DEF Steady, WrittenOrParked
<1>8. Len(unsent[r]) = 1 => DOMAIN Tail(unsent[r]) = {}
    BY <1>4
<1>9. /\ \A q \in Replicas : InBatch(q)' = InBatch(q)
      /\ \A m : Kept(m)' => Kept(m) /\ m \notin Gone'
    BY <1>1 DEF SameHands, InBatch, Kept
<1>10. ASSUME NEW q \in Replicas PROVE WrittenOrParked(q)'
  <2>1. CASE q = r /\ Len(unsent[r]) = 1
    <3>1. phase'[r] = "commit" /\ InBatch(r)' \subseteq Gone'
        BY <1>2, <1>7, <1>8, <1>9, <2>1
    <3> QED
        BY <1>9, <2>1, <3>1 DEF WrittenOrParked
  <2>2. CASE q = r /\ Len(unsent[r]) # 1
    <3>1. /\ phase'[r] = "dlq"
          /\ InBatch(r)' \subseteq Gone' \cup {unsent'[r][j] : j \in DOMAIN unsent'[r]}
        BY <1>2, <1>7, <1>9, <2>2
    <3> QED
        BY <2>2, <3>1 DEF WrittenOrParked
  <2>3. CASE q # r
      BY <1>1, <1>2, <1>9, <2>3 DEF WrittenOrParked, Steady
  <2> QED
      BY <2>1, <2>2, <2>3
<1> QED
    BY <1>1, <1>10, HandsKeepSteady

(* A replica commits what it holds: only offsets of its own partitions     *)
(* move, and none beyond the position.                                     *)
LEMMA CommitReaches ==
    ASSUME TypeInv, Steady, NEW r \in Replicas, NEW S \in SUBSET Messages, CommitMessages(S),
           \A m \in S : owner[Part[m]] = r /\ m <= position[Part[m]]
    PROVE  /\ UNCHANGED <<position, owner, crashes, moves>>
           /\ \A p \in Partitions : \/ committed'[p] = committed[p]
                                    \/ owner[p] = r /\ \E k \in S : committed'[p] = k /\ Part[k] = p
           /\ OffsetsReached'
           /\ \A m \in Messages : ToRead(m)' = ToRead(m)
<1>1. UNCHANGED <<position, owner, crashes, moves>> /\ committed' \in {committed, Stored(S)}
    BY DEF CommitMessages
<1>2. ASSUME NEW p \in Partitions
      PROVE  \/ committed'[p] = committed[p]
             \/ owner[p] = r /\ \E k \in S : committed'[p] = k /\ Part[k] = p
  <2>1. CASE committed' = committed
      BY <2>1
  <2>2. CASE committed' = Stored(S) /\ \E m \in S : Part[m] = p
      BY <2>2, StoredLast
  <2>3. CASE committed' = Stored(S) /\ ~ \E m \in S : Part[m] = p
      BY <2>3, StoredElsewhere
  <2> QED
      BY <1>1, <2>1, <2>2, <2>3
<1>3. OffsetsReached'
    BY <1>1, <1>2 DEF OffsetsReached, Steady, Offsets
<1>4. ASSUME NEW m \in Messages PROVE ToRead(m)' = ToRead(m)
  <2>1. owner[Part[m]] = NoOwner => committed'[Part[m]] = committed[Part[m]]
      BY <1>2, MessagesType, OffsetTypes
  <2> QED
      BY <1>1, <2>1 DEF ToRead
<1> QED
    BY <1>1, <1>2, <1>3, <1>4

LEMMA CommitBadSteady ==
    ASSUME TypeInv, Steady, NEW r \in Replicas, CommitBad(r)
    PROVE  Steady'
<1>1. bad[r] \in Undecodable /\ bad[r] \in Messages /\ bad[r] # 0
  <2>1. bad[r] \in Undecodable
      BY DEF CommitBad, TypeInv
  <2>2. bad[r] \in Messages
      BY <2>1, PersistenceAssumption
  <2>3. 0 \notin Messages
      BY DEF Messages
  <2> QED
      BY <2>1, <2>2, <2>3
<1>2. owner[Part[bad[r]]] = r /\ bad[r] <= position[Part[bad[r]]]
    BY <1>1 DEF Steady, Hands, BadHeld
<1>3. /\ CommitMessages({bad[r]}) /\ UNCHANGED <<batch, unsent, stopping, outcome>>
      /\ phase'[r] = "loop" /\ bad'[r] = 0
      /\ \A q \in Replicas : q # r => phase'[q] = phase[q] /\ bad'[q] = bad[q]
    BY DEF CommitBad, TypeInv, TypeOK
<1>4. /\ UNCHANGED <<position, owner, crashes, moves>>
      /\ \A p \in Partitions : \/ committed'[p] = committed[p]
                               \/ committed'[p] = bad[r] /\ Part[bad[r]] = p
      /\ OffsetsReached'
      /\ \A m \in Messages : ToRead(m)' = ToRead(m)
  <2> DEFINE S == {bad[r]}
  <2>1. /\ S \in SUBSET Messages /\ CommitMessages(S)
        /\ \A m \in S : owner[Part[m]] = r /\ m <= position[Part[m]]
      BY <1>1, <1>2, <1>3
  <2>2. \A k \in S : k = bad[r]
      OBVIOUS
  <2> HIDE DEF S
  <2>3. /\ UNCHANGED <<position, owner, crashes, moves>>
        /\ \A p \in Partitions : \/ committed'[p] = committed[p]
                                 \/ owner[p] = r /\ \E k \in S : committed'[p] = k /\ Part[k] = p
        /\ OffsetsReached'
        /\ \A m \in Messages : ToRead(m)' = ToRead(m)
      BY <2>1, CommitReaches
  <2> QED
      BY <2>2, <2>3
<1>5. /\ \A q \in Replicas : InBatch(q)' = InBatch(q) /\ InBatch(q) \subseteq Messages
      /\ \A m : Kept(m)' = Kept(m) /\ ReadAgain(m)' = ReadAgain(m)
    BY <1>3, <1>4, BatchElements DEF InBatch, Kept, ReadAgain, outcome
<1>6. Offsets'
    BY <1>3, <1>4 DEF Offsets, Steady
<1>7. Rows'
  <2>1. stored \subseteq Messages
      BY DEF TypeInv, TypeOK
  <2>2. FirstReading'
      BY <1>3, <1>4, <2>1 DEF Steady, Rows, FirstReading, outcome
  <2>3. RowsNewest'
    <3> SUFFICES ASSUME NEW m \in stored, Kept(m), ReadAgain(m), ~ m <= rows[Txn[m]]
                 PROVE  crashes > 0 /\ (ToRead(m)' \/ \E q \in Replicas : m \in InBatch(q)')
        BY <1>3, <1>4, <1>5 DEF RowsNewest, outcome
    <3>1. crashes > 0 /\ (ToRead(m) \/ \E q \in Replicas : m \in InBatch(q))
        BY DEF Steady, Rows, RowsNewest
    <3> QED
        BY <1>4, <1>5, <2>1, <3>1
  <2> QED
      BY <1>3, <2>2, <2>3 DEF Steady, Rows, outcome
<1>8. ASSUME NEW q \in Replicas PROVE Gathered(q)' /\ InTurn(q)' /\ BadHeld(q)'
  <2>1. ASSUME NEW m \in InBatch(q), Unpassed(m) PROVE committed'[Part[m]] < m
    <3>1. Part[m] \in Partitions
        BY <1>5, MessagesType
    <3>2. committed[Part[m]] < m
        BY <2>1 DEF Steady, Hands, Gathered
    <3>3. Part[bad[r]] = Part[m] => bad[r] < m
        BY <1>1, <2>1 DEF Unpassed
    <3> QED
        BY <1>4, <3>1, <3>2, <3>3
  <2>2. Gathered(q)'
    <3> SUFFICES ASSUME NEW m \in InBatch(q)
                 PROVE  /\ owner[Part[m]] = q /\ m <= position[Part[m]] /\ m \notin Undecodable
                        /\ \A k \in Messages : Before(m, k) /\ k <= position[Part[m]] =>
                               k \in InBatch(q) \/ k \in Undecodable
                        /\ Unpassed(m) => committed'[Part[m]] < m
        BY <1>4, <1>5 DEF Gathered, Unpassed
    <3> QED
        BY <2>1 DEF Steady, Hands, Gathered
  <2>3. InTurn(q)'
      BY <1>3 DEF Steady, Hands, InTurn
  <2>4. BadHeld(q)'
      BY <1>3, <1>4 DEF Steady, Hands, BadHeld
  <2> QED
      BY <2>2, <2>3, <2>4
<1>9. ASSUME NEW q \in Replicas PROVE WrittenOrParked(q)'
  <2>1. CASE q = r
      BY <1>3, <2>1 DEF WrittenOrParked
  <2>2. CASE q # r
      BY <1>3, <1>5, <2>2 DEF WrittenOrParked, Steady, outcome
  <2> QED
      BY <2>1, <2>2
<1> QED
    BY <1>6, <1>7, <1>8, <1>9 DEF Steady, Hands

(* A batch that is committed was written, and no row of it is older, or    *)
(* parked.                                                                 *)
LEMMA CommitBatchSteady ==
    ASSUME TypeInv, Steady, NEW r \in Replicas, CommitBatch(r)
    PROVE  Steady'
<1>1. /\ CommitMessages(InBatch(r)) /\ UNCHANGED <<bad, unsent, stopping, outcome>>
      /\ phase[r] = "commit" /\ phase'[r] = "loop" /\ batch'[r] = <<>>
      /\ \A q \in Replicas : q # r => phase'[q] = phase[q] /\ batch'[q] = batch[q]
    BY DEF CommitBatch, TypeInv, TypeOK
<1>2. /\ InBatch(r)' = {} /\ \A q \in Replicas : q # r => InBatch(q)' = InBatch(q)
      /\ \A q \in Replicas : InBatch(q) \subseteq Messages
      /\ \A m : Kept(m)' = Kept(m)
    BY <1>1, BatchElements DEF InBatch, Kept, outcome
<1>3. \A m \in InBatch(r) : owner[Part[m]] = r /\ m <= position[Part[m]]
    BY DEF Steady, Hands, Gathered
<1>4. /\ UNCHANGED <<position, owner, crashes, moves>>
      /\ \A p \in Partitions : committed'[p] = committed[p] \/ owner[p] = r
      /\ OffsetsReached'
      /\ \A m \in Messages : ToRead(m)' = ToRead(m)
    BY <1>1, <1>2, <1>3, CommitReaches
<1>5. Offsets'
    BY <1>1, <1>4 DEF Offsets, Steady
<1>6. Rows'
  <2>1. stored \subseteq Messages
      BY DEF TypeInv, TypeOK
  <2>2. FirstReading'
      BY <1>1, <1>4, <2>1 DEF Steady, Rows, FirstReading, outcome
  <2>3. RowsNewest'
    <3> SUFFICES ASSUME NEW m \in stored, Kept(m), ReadAgain(m), ~ m <= rows[Txn[m]]
                 PROVE  crashes > 0 /\ (ToRead(m)' \/ \E q \in Replicas : m \in InBatch(q)')
        BY <1>1, <1>2, <1>4 DEF RowsNewest, ReadAgain, outcome
    <3>1. crashes > 0 /\ (ToRead(m) \/ \E q \in Replicas : m \in InBatch(q))
        BY DEF Steady, Rows, RowsNewest
    <3>2. m \notin InBatch(r)
        BY <1>1 DEF Steady, WrittenOrParked
    <3> QED
        BY <1>2, <1>4, <2>1, <3>1, <3>2
  <2> QED
      BY <1>1, <2>2, <2>3 DEF Steady, Rows, outcome
<1>7. ASSUME NEW q \in Replicas PROVE Gathered(q)' /\ InTurn(q)' /\ BadHeld(q)'
  <2>1. BadHeld(q)'
      BY <1>1, <1>4 DEF Steady, Hands, BadHeld
  <2>2. CASE q = r
      BY <1>1, <1>2, <2>1, <2>2 DEF Gathered, InTurn
  <2>3. CASE q # r
    <3>1. ASSUME NEW m \in InBatch(q) PROVE committed'[Part[m]] = committed[Part[m]]
      <4>1. owner[Part[m]] = q /\ Part[m] \in Partitions
          BY <1>2, MessagesType DEF Steady, Hands, Gathered
      <4> QED
          BY <1>4, <2>3, <4>1
    <3>2. Gathered(q)'
        BY <1>2, <1>4, <2>3, <3>1 DEF Steady, Hands, Gathered, Unpassed
    <3>3. InTurn(q)'
        BY <1>1, <2>3 DEF Steady, Hands, InTurn
    <3> QED
        BY <2>1, <3>2, <3>3
  <2> QED
      BY <2>2, <2>3
<1>8. ASSUME NEW q \in Replicas PROVE WrittenOrParked(q)'
  <2>1. CASE q = r
      BY <1>1, <2>1 DEF WrittenOrParked
  <2>2. CASE q # r
      BY <1>1, <1>2, <2>2 DEF WrittenOrParked, Steady, outcome
  <2> QED
      BY <2>1, <2>2
<1> QED
    BY <1>5, <1>6, <1>7, <1>8 DEF Steady, Hands

(* The upserts of a batch leave every row to the last of its verdicts in   *)
(* the batch, or alone.                                                    *)
LEMMA WrittenLast ==
    ASSUME TypeInv, NEW r \in Replicas, NEW t \in Transactions
    PROVE  LET b == batch[r]
           IN  \/ /\ \A i \in DOMAIN b : Txn[b[i]] # t
                  /\ Written(b)[t] = rows[t]
               \/ \E i \in DOMAIN b :
                      /\ Txn[b[i]] = t /\ Written(b)[t] = b[i]
                      /\ \A j \in DOMAIN b : Txn[b[j]] = t => j <= i
<1> DEFINE b == batch[r]
<1>1. Len(b) \in Nat /\ DOMAIN b = 1..Len(b)
    BY BatchElements
<1>2. CASE \E i \in DOMAIN b : Txn[b[i]] = t
  <2> DEFINE I == {i \in DOMAIN b : Txn[b[i]] = t}
  <2>1. I \in SUBSET (0..Len(b)) /\ I # {}
      BY <1>1, <1>2
  <2> HIDE DEF I
  <2>2. \E i \in I : \A j \in I : j <= i
      BY <1>1, <2>1, GreatestExists
  <2>3. \E i \in DOMAIN b : Txn[b[i]] = t /\ \A j \in DOMAIN b : Txn[b[j]] = t => j <= i
      BY <2>2 DEF I
  <2>4. Written(b)[t] = b[CHOOSE i \in DOMAIN b :
                              Txn[b[i]] = t /\ \A j \in DOMAIN b : Txn[b[j]] = t => j <= i]
      BY <1>2 DEF Written
  <2> HIDE DEF b
  <2>5. PICK i \in DOMAIN b : /\ Txn[b[i]] = t /\ \A j \in DOMAIN b : Txn[b[j]] = t => j <= i
                              /\ Written(b)[t] = b[i]
      BY <2>3, <2>4
  <2> QED
      BY <2>5 DEF b
<1>3. CASE ~ \E i \in DOMAIN b : Txn[b[i]] = t
    BY <1>3 DEF Written
<1> QED
    BY <1>2, <1>3

(* After the upserts the row of a transaction that is kept is not older    *)
(* than any of its verdicts in the batch; and a stored verdict that it is  *)
(* older than is yet to be read, because what was read after the batch's   *)
(* is in the batch.                                                        *)
LEMMA ApplySteady ==
    ASSUME TypeInv, Steady, NEW r \in Replicas, Apply(r),
           UNCHANGED <<groupVars, batch, parked, abandoned>>
    PROVE  /\ Rows'
           /\ \A m \in InBatch(r) : Kept(m) => m <= rows'[Txn[m]]
           /\ \A q \in Replicas : q # r =>
                  \A m \in InBatch(q) : Kept(m) => rows'[Txn[m]] = rows[Txn[m]]
<1>1. /\ rows' = Written(batch[r]) /\ stored' = stored \cup InBatch(r)
      /\ \A q \in Replicas : InBatch(q)' = InBatch(q) /\ InBatch(q) \subseteq Messages
      /\ \A m : Kept(m)' = Kept(m) /\ ToRead(m)' = ToRead(m) /\ ReadAgain(m)' = ReadAgain(m)
      /\ stored \subseteq Messages /\ crashes' = crashes
    BY BatchElements DEF Apply, InBatch, Kept, ToRead, ReadAgain, groupVars, TypeInv, TypeOK
<1>2. \A m \in Messages : Txn[m] \in Transactions /\ m \in Nat /\ Part[m] \in Partitions
    BY MessagesType DEF Transactions
<1>3. Gathered(r) /\ InTurn(r)
    BY DEF Steady, Hands
<1>4. ASSUME NEW m \in Messages, Kept(m)
      PROVE  \/ /\ rows'[Txn[m]] = rows[Txn[m]]
                /\ \A k \in InBatch(r) : Txn[k] # Txn[m]
             \/ /\ rows'[Txn[m]] \in InBatch(r) /\ Part[rows'[Txn[m]]] = Part[m]
                /\ \A k \in InBatch(r) : Txn[k] = Txn[m] => k <= rows'[Txn[m]]
  <2> DEFINE b == batch[r]
  <2>1. CASE /\ \A i \in DOMAIN b : Txn[b[i]] # Txn[m]
             /\ Written(b)[Txn[m]] = rows[Txn[m]]
      BY <1>1, <2>1 DEF InBatch
  <2>2. CASE \E i \in DOMAIN b :
                 /\ Txn[b[i]] = Txn[m] /\ Written(b)[Txn[m]] = b[i]
                 /\ \A j \in DOMAIN b : Txn[b[j]] = Txn[m] => j <= i
    <3>1. PICK i \in DOMAIN b :
                 /\ Txn[b[i]] = Txn[m] /\ Written(b)[Txn[m]] = b[i]
                 /\ \A j \in DOMAIN b : Txn[b[j]] = Txn[m] => j <= i
        BY <2>2
    <3>2. /\ DOMAIN b = 1..Len(b) /\ Len(b) \in Nat
          /\ \A j \in DOMAIN b : b[j] \in Messages /\ b[j] \in Nat /\ b[j] \in InBatch(r)
        BY BatchElements, MessagesType DEF InBatch
    <3>3. ASSUME NEW k \in InBatch(r), Txn[k] = Txn[m] PROVE k <= b[i]
      <4>1. PICK j \in DOMAIN b : k = b[j]
          BY DEF InBatch
      <4>2. j <= i
          BY <3>1, <3>3, <4>1
      <4>3. CASE j = i
          BY <3>2, <4>1, <4>3
      <4>4. CASE j < i
        <5>1. Part[b[j]] = Part[m] /\ Part[b[i]] = Part[m]
            BY <1>4, <3>1, <3>2, <3>3, <4>1 DEF Kept
        <5>2. b[j] < b[i]
            BY <1>3, <4>4, <5>1 DEF InTurn
        <5> QED
            BY <3>2, <4>1, <5>2
      <4> QED
          BY <3>2, <4>2, <4>3, <4>4
    <3>4. Part[b[i]] = Part[m]
        BY <1>4, <3>1, <3>2 DEF Kept
    <3>5. rows'[Txn[m]] = b[i]
        BY <1>1, <3>1
    <3> QED
        BY <3>2, <3>3, <3>4, <3>5
  <2> QED
      BY <1>2, <2>1, <2>2, WrittenLast
<1>5. ASSUME NEW m \in InBatch(r), Kept(m) PROVE m <= rows'[Txn[m]]
    BY <1>1, <1>4, <1>5
<1>6. ASSUME NEW q \in Replicas, q # r, NEW m \in InBatch(q), Kept(m)
      PROVE  rows'[Txn[m]] = rows[Txn[m]]
  <2>1. m \in Messages
      BY <1>1
  <2>2. CASE rows'[Txn[m]] \in InBatch(r) /\ Part[rows'[Txn[m]]] = Part[m]
      BY <1>6, <2>2 DEF Steady, Hands, Gathered
  <2> QED
      BY <1>4, <1>6, <2>1, <2>2
<1>7. FirstReading'
  <2> SUFFICES ASSUME crashes = 0, NEW m \in stored' PROVE ~ ToRead(m)
      BY <1>1 DEF FirstReading
  <2>1. CASE m \in stored
      BY <2>1 DEF Steady, Rows, FirstReading
  <2>2. CASE m \in InBatch(r)
    <3>1. owner[Part[m]] = r /\ m <= position[Part[m]] /\ m \in Messages
        BY <1>1, <1>3, <2>2 DEF Gathered
    <3> QED
        BY <1>2, <3>1, OffsetTypes DEF ToRead
  <2> QED
      BY <1>1, <2>1, <2>2
<1>8. RowsNewest'
  <2> SUFFICES ASSUME NEW m \in stored', Kept(m), ReadAgain(m), ~ m <= rows'[Txn[m]]
               PROVE  crashes > 0 /\ (ToRead(m) \/ \E q \in Replicas : m \in InBatch(q))
      BY <1>1 DEF RowsNewest
  <2>1. m \in stored /\ m \notin InBatch(r) /\ m \in Messages
      BY <1>1, <1>5
  <2>2. CASE rows'[Txn[m]] = rows[Txn[m]]
      BY <2>1, <2>2 DEF Steady, Rows, RowsNewest
  <2>3. CASE rows'[Txn[m]] \in InBatch(r) /\ Part[rows'[Txn[m]]] = Part[m]
    <3> DEFINE k == rows'[Txn[m]]
    <3>1. k \in Messages /\ k \in Nat /\ m \in Nat /\ Part[m] \in Partitions
        BY <1>1, <1>2, <2>1, <2>3
    <3>2. Before(k, m)
        BY <2>3, <3>1 DEF Before
    <3>3. /\ owner[Part[m]] = r
          /\ m <= position[Part[m]] => m \in InBatch(r) \/ m \in Undecodable
        BY <1>3, <2>1, <2>3, <3>2 DEF Gathered
    <3>4. m \notin Undecodable
        BY <2>1 DEF Steady, Rows
    <3>5. ToRead(m)
        BY <2>1, <3>1, <3>3, <3>4, OffsetTypes DEF ToRead
    <3>6. crashes # 0
        BY <2>1, <3>5 DEF Steady, Rows, FirstReading
    <3> QED
        BY <3>5, <3>6, OffsetTypes
  <2> QED
      BY <1>4, <2>1, <2>2, <2>3
<1>9. stored' \cap Undecodable = {}
    BY <1>1, <1>3 DEF Gathered, Steady, Rows
<1> QED
    BY <1>5, <1>6, <1>7, <1>8, <1>9 DEF Rows

LEMMA UpsertSteady ==
    ASSUME TypeInv, Steady, NEW r \in Replicas, UpsertSucceeds(r) \/ UpsertFails(r)
    PROVE  Steady'
<1>1. /\ UNCHANGED <<groupVars, batch, bad, stopping, parked, abandoned>>
      /\ \A q \in Replicas : q # r => phase'[q] = phase[q] /\ unsent'[q] = unsent[q]
      /\ \/ Apply(r) /\ phase'[r] = "commit"
         \/ (Apply(r) \/ UNCHANGED <<rows, stored>>) /\ phase'[r] = "upsert"
         \/ /\ Apply(r) \/ UNCHANGED <<rows, stored>>
            /\ phase'[r] = "dlq" /\ unsent'[r] = batch[r]
  <2>1. CASE UpsertSucceeds(r)
      BY <2>1 DEF UpsertSucceeds, TypeInv, TypeOK
  <2>2. CASE UpsertFails(r)
      BY <2>2 DEF UpsertFails, TypeInv, TypeOK
  <2> QED
      BY <2>1, <2>2
<1>2. /\ UNCHANGED <<committed, position, owner, crashes>>
      /\ \A q \in Replicas : InBatch(q)' = InBatch(q)
      /\ \A m : Kept(m)' = Kept(m) /\ ToRead(m)' = ToRead(m) /\ ReadAgain(m)' = ReadAgain(m)
    BY <1>1 DEF groupVars, InBatch, Kept, ToRead, ReadAgain
<1>3. Offsets' /\ Hands'
    BY <1>1, <1>2 DEF Steady, Offsets, OffsetsReached, Hands, Gathered, InTurn, BadHeld, Unpassed
<1>4. /\ Rows'
      /\ Apply(r) => \A m \in InBatch(r) : Kept(m) => m <= rows'[Txn[m]]
      /\ \A q \in Replicas : q # r =>
             \A m \in InBatch(q) : Kept(m) => rows'[Txn[m]] = rows[Txn[m]]
  <2>1. CASE Apply(r)
      BY <1>1, <2>1, ApplySteady
  <2>2. CASE ~ Apply(r)
    <3>1. UNCHANGED <<rows, stored>>
        BY <1>1, <2>2
    <3>2. Rows'
        BY <1>2, <3>1 DEF Steady, Rows, FirstReading, RowsNewest
    <3> QED
        BY <2>2, <3>1, <3>2
  <2> QED
      BY <2>1, <2>2
<1>5. ASSUME NEW q \in Replicas PROVE WrittenOrParked(q)'
  <2>1. CASE q = r /\ phase'[r] = "commit"
      BY <1>1, <1>2, <1>4, <2>1 DEF WrittenOrParked
  <2>2. CASE q = r /\ phase'[r] = "upsert"
      BY <2>2 DEF WrittenOrParked
  <2>3. CASE q = r /\ phase'[r] = "dlq" /\ unsent'[r] = batch[r]
      BY <1>2, <2>3 DEF WrittenOrParked, InBatch
  <2>4. CASE q # r
      BY <1>1, <1>2, <1>4, <2>4 DEF WrittenOrParked, Steady
  <2> QED
      BY <1>1, <2>1, <2>2, <2>3, <2>4
<1> QED
    BY <1>3, <1>4, <1>5 DEF Steady

(* A crash: what the rows lack and the process held is read again, unless  *)
(* it was passed over.                                                     *)
LEMMA CrashSteady ==
    ASSUME TypeInv, Steady, NEW r \in Replicas, Crash(r)
    PROVE  Steady'
<1>1. /\ UNCHANGED <<committed, position>> /\ crashes' = crashes + 1 /\ crashes \in Nat
      /\ \A p \in Partitions : owner'[p] = IF owner[p] = r THEN NoOwner ELSE owner[p]
      /\ UNCHANGED <<rows, stored, parked, abandoned>>
      /\ phase'[r] = "loop" /\ batch'[r] = <<>> /\ bad'[r] = 0 /\ stopping' = stopping \ {r}
      /\ \A q \in Replicas : q # r => UNCHANGED <<phase[q], batch[q], bad[q], unsent[q]>>
    BY OffsetTypes DEF Crash, LeaveByCrash, Leave, outcome, TypeInv, TypeOK
<1>2. /\ InBatch(r)' = {} /\ \A q \in Replicas : q # r => InBatch(q)' = InBatch(q)
      /\ \A q \in Replicas : InBatch(q) \subseteq Messages
      /\ \A m : Kept(m)' = Kept(m)
      /\ stored \subseteq Messages
    BY <1>1, BatchElements DEF InBatch, Kept, TypeInv, TypeOK
<1>3. Offsets'
    BY <1>1 DEF Steady, Offsets, OffsetsReached
<1>4. ASSUME NEW q \in Replicas PROVE Gathered(q)' /\ InTurn(q)' /\ BadHeld(q)'
  <2>1. CASE q = r
      BY <1>1, <1>2, <2>1 DEF Gathered, InTurn, BadHeld
  <2>2. CASE q # r
    <3>1. \A m \in InBatch(q) : owner'[Part[m]] = owner[Part[m]]
        BY <1>1, <1>2, <2>2, MessagesType DEF Steady, Hands, Gathered
    <3>2. Gathered(q)'
        BY <1>1, <1>2, <2>2, <3>1 DEF Steady, Hands, Gathered, Unpassed
    <3>3. BadHeld(q)'
      <4> SUFFICES ASSUME bad[q] # 0
                   PROVE  owner'[Part[bad[q]]] = q /\ bad[q] <= position[Part[bad[q]]]
          BY <1>1, <2>2 DEF BadHeld
      <4> QED
          BY <1>1, <2>2, OffsetTypes, MessagesType DEF Steady, Hands, BadHeld
    <3> QED
        BY <1>1, <2>2, <3>2, <3>3 DEF Steady, Hands, InTurn
  <2> QED
      BY <2>1, <2>2
<1>5. RowsNewest'
  <2> SUFFICES ASSUME NEW m \in stored, Kept(m), ReadAgain(m)', ~ m <= rows[Txn[m]]
               PROVE  ToRead(m)' \/ \E q \in Replicas : m \in InBatch(q)'
      BY <1>1, <1>2 DEF RowsNewest
  <2>1. m \in Messages /\ m \in Nat /\ Part[m] \in Partitions
      BY <1>2, MessagesType
  <2>2. ReadAgain(m)
      BY <1>1 DEF ReadAgain
  <2>3. crashes > 0 /\ (ToRead(m) \/ \E q \in Replicas : m \in InBatch(q))
      BY <2>2 DEF Steady, Rows, RowsNewest
  <2>4. Unpassed(m)
      BY <1>1, <2>3 DEF ReadAgain, Unpassed
  <2>5. CASE \E q \in Replicas : m \in InBatch(q)
    <3>1. PICK q \in Replicas : m \in InBatch(q)
        BY <2>5
    <3>2. CASE q # r
        BY <1>2, <3>1, <3>2
    <3>3. CASE q = r
      <4>1. owner[Part[m]] = r /\ committed[Part[m]] < m
          BY <2>4, <3>1, <3>3 DEF Steady, Hands, Gathered
      <4> QED
          BY <1>1, <2>1, <4>1 DEF ToRead
    <3> QED
        BY <3>2, <3>3
  <2>6. CASE ToRead(m)
    <3>1. CASE owner[Part[m]] = NoOwner
        BY <1>1, <2>1, <2>6, <3>1, OffsetTypes DEF ToRead
    <3>2. CASE owner[Part[m]] # NoOwner
      <4>1. /\ position[Part[m]] < m /\ committed[Part[m]] <= position[Part[m]]
            /\ committed[Part[m]] \in Nat /\ position[Part[m]] \in Nat
          BY <2>1, <2>6, <3>2, OffsetTypes DEF ToRead, Steady, Offsets, OffsetsReached
      <4>2. committed[Part[m]] < m
          BY <2>1, <4>1
      <4> QED
          BY <1>1, <4>1, <4>2 DEF ToRead
    <3> QED
        BY <3>1, <3>2
  <2> QED
      BY <2>3, <2>5, <2>6
<1>6. FirstReading'
    BY <1>1 DEF FirstReading
<1>7. ASSUME NEW q \in Replicas PROVE WrittenOrParked(q)'
  <2>1. CASE q = r
      BY <1>1, <2>1 DEF WrittenOrParked
  <2>2. CASE q # r
      BY <1>1, <1>2, <2>2 DEF WrittenOrParked, Steady
  <2> QED
      BY <2>1, <2>2
<1> QED
    BY <1>1, <1>3, <1>4, <1>5, <1>6, <1>7 DEF Steady, Hands, Rows

(* A partition without an owner is assigned: nobody holds a message of it. *)
LEMMA AssignSteady ==
    ASSUME TypeInv, Steady, NEW p \in Partitions, NEW r \in Replicas, Rebalance(p, r),
           owner[p] = NoOwner
    PROVE  Steady'
<1>1. /\ UNCHANGED <<committed, crashes, local, outcome>>
      /\ owner'[p] = r /\ position'[p] = committed[p] /\ r # NoOwner
      /\ \A o \in Partitions : o # p => owner'[o] = owner[o] /\ position'[o] = position[o]
    BY OffsetTypes DEF Rebalance, Assign, TypeInv, TypeOK, GroupTypeOK
<1>2. /\ UNCHANGED <<phase, batch, bad, unsent, stopping, rows, stored, parked, abandoned>>
      /\ \A q \in Replicas : InBatch(q)' = InBatch(q) /\ InBatch(q) \subseteq Messages
      /\ \A m : Kept(m)' = Kept(m) /\ ReadAgain(m)' = ReadAgain(m)
      /\ stored \subseteq Messages
    BY <1>1, BatchElements DEF local, outcome, InBatch, Kept, ReadAgain, TypeInv, TypeOK
<1>3. \A m \in Messages : ToRead(m)' = ToRead(m)
    BY <1>1, MessagesType DEF ToRead
<1>4. Offsets'
  <2>1. \A o \in Partitions : owner'[o] # NoOwner => committed[o] <= position'[o]
      BY <1>1, OffsetTypes DEF Steady, Offsets, OffsetsReached
  <2> QED
      BY <1>1, <1>2, <2>1 DEF Steady, Offsets, OffsetsReached
<1>5. Rows'
    BY <1>1, <1>2, <1>3 DEF Steady, Rows, FirstReading, RowsNewest
<1>6. ASSUME NEW q \in Replicas PROVE Gathered(q)' /\ InTurn(q)' /\ BadHeld(q)'
  <2>1. \A m \in InBatch(q) : Part[m] \in Partitions /\ Part[m] # p
      BY <1>2, MessagesType, OffsetTypes DEF Steady, Hands, Gathered
  <2>2. Gathered(q)'
      BY <1>1, <1>2, <2>1 DEF Steady, Hands, Gathered, Unpassed
  <2>3. BadHeld(q)'
    <3> SUFFICES ASSUME bad[q] # 0
                 PROVE  owner'[Part[bad[q]]] = q /\ bad[q] <= position'[Part[bad[q]]]
        BY <1>2 DEF BadHeld
    <3>1. Part[bad[q]] \in Partitions /\ Part[bad[q]] # p
        BY OffsetTypes, MessagesType DEF Steady, Hands, BadHeld
    <3> QED
        BY <1>1, <3>1 DEF Steady, Hands, BadHeld
  <2> QED
      BY <1>2, <2>2, <2>3 DEF Steady, Hands, InTurn
<1>7. ASSUME NEW q \in Replicas PROVE WrittenOrParked(q)'
    BY <1>2 DEF WrittenOrParked, Steady
<1> QED
    BY <1>4, <1>5, <1>6, <1>7 DEF Steady, Hands

LEMMA InitSteady == Init => SteadyInv
<1> SUFFICES ASSUME Init PROVE Steady
    BY DEF SteadyInv
<1> USE DEF Init, GroupInit
<1>1. \A r \in Replicas : InBatch(r) = {}
    BY DEF InBatch
<1>2. Offsets
    BY DEF Offsets, OffsetsReached
<1>3. Rows
    BY DEF Rows, FirstReading, RowsNewest
<1>4. \A r \in Replicas : Gathered(r) /\ BadHeld(r) /\ WrittenOrParked(r)
    BY <1>1 DEF Gathered, BadHeld, WrittenOrParked
<1>5. \A r \in Replicas : InTurn(r)
    BY DEF InTurn
<1> QED
    BY <1>2, <1>3, <1>4, <1>5 DEF Steady, Hands

LEMMA StepSteady == TypeInv /\ SteadyInv /\ [Next]_vars => SteadyInv'
<1> SUFFICES ASSUME TypeInv, SteadyInv, [Next]_vars, moves' = 0 PROVE Steady'
    BY DEF SteadyInv
<1>m. moves \in Nat
    BY OffsetTypes
<1>1. ASSUME NEW r \in Replicas, FetchGood(r) \/ FetchBad(r) PROVE Steady'
  <2>1. moves = 0
      BY <1>1 DEF FetchGood, FetchBad, Deliver
  <2> QED
      BY <1>1, <2>1, FetchSteady DEF SteadyInv
<1>2. ASSUME NEW r \in Replicas, Flush(r) \/ ParkBad(r) PROVE Steady'
  <2>1. moves = 0
      BY <1>2 DEF Flush, ParkBad, groupVars
  <2> QED
      BY <1>2, <2>1, FlushSteady DEF SteadyInv
<1>3. ASSUME NEW r \in Replicas, CommitBad(r) PROVE Steady'
  <2>1. moves = 0
      BY <1>3 DEF CommitBad, CommitMessages
  <2> QED
      BY <1>3, <2>1, CommitBadSteady DEF SteadyInv
<1>4. ASSUME NEW r \in Replicas, UpsertSucceeds(r) \/ UpsertFails(r) PROVE Steady'
  <2>1. moves = 0
      BY <1>4 DEF UpsertSucceeds, UpsertFails, groupVars
  <2> QED
      BY <1>4, <2>1, UpsertSteady DEF SteadyInv
<1>5. ASSUME NEW r \in Replicas, ParkNext(r) PROVE Steady'
  <2>1. moves = 0
      BY <1>5 DEF ParkNext, groupVars
  <2> QED
      BY <1>5, <2>1, ParkNextSteady DEF SteadyInv
<1>6. ASSUME NEW r \in Replicas, CommitBatch(r) PROVE Steady'
  <2>1. moves = 0
      BY <1>6 DEF CommitBatch, CommitMessages
  <2> QED
      BY <1>6, <2>1, CommitBatchSteady DEF SteadyInv
<1>7. ASSUME NEW r \in Replicas, Stop(r) PROVE Steady'
    BY <1>m, <1>7 DEF Stop, ToldToStop
<1>8. ASSUME NEW r \in Replicas, Exit(r) PROVE Steady'
  <2>1. moves = 0 /\ r \in stopping
      BY <1>8 DEF Exit, LeaveByStop
  <2> QED
      BY <2>1 DEF SteadyInv, Steady, Offsets
<1>9. ASSUME NEW r \in Replicas, Crash(r) PROVE Steady'
  <2>1. moves = 0
      BY <1>9 DEF Crash, LeaveByCrash
  <2> QED
      BY <1>9, <2>1, CrashSteady DEF SteadyInv
<1>10. ASSUME NEW p \in Partitions, NEW r \in Replicas, Rebalance(p, r) PROVE Steady'
  <2>1. moves = 0 /\ owner[p] = NoOwner
      BY <1>m, <1>10 DEF Rebalance, Assign
  <2> QED
      BY <1>10, <2>1, AssignSteady DEF SteadyInv
<1>11. CASE UNCHANGED vars
  <2>1. /\ SameHands /\ UNCHANGED <<crashes, moves, stopping, rows, stored, parked, abandoned>>
        /\ UNCHANGED <<phase, unsent>>
      BY <1>11 DEF vars, groupVars, local, outcome, SameHands
  <2>2. Steady
      BY <2>1 DEF SteadyInv
  <2>3. \A r \in Replicas : WrittenOrParked(r)'
      BY <2>1, <2>2 DEF SameHands, Steady, WrittenOrParked, InBatch, Kept
  <2> QED
      BY <2>1, <2>2, <2>3, HandsKeepSteady
<1> QED
    BY <1>1, <1>2, <1>3, <1>4, <1>5, <1>6, <1>7, <1>8, <1>9, <1>10, <1>11 DEF Next, Handle

(* Once the service has caught up, the row of a transaction holds the      *)
(* newest of its verdicts, whatever was replayed over it after crashes,    *)
(* for any number of messages and replicas and any batch size.             *)
THEOREM NewestVerdictStays == Safety => []NewestVerdictWins
<1>1. TypeInv /\ SteadyInv => NewestVerdictWins
  <2> SUFFICES ASSUME TypeInv, SteadyInv, CaughtUp, moves = 0, NEW m \in stored,
                      Kept(m), ReadAgain(m)
               PROVE  m <= rows[Txn[m]]
      BY DEF NewestVerdictWins, Kept
  <2>1. m \in Messages /\ Part[m] \in Partitions /\ m \in Nat
      BY MessagesType DEF TypeInv, TypeOK
  <2>2. ~ ToRead(m)
      BY <2>1, OffsetTypes DEF CaughtUp, ToRead
  <2>3. \A r \in Replicas : m \notin InBatch(r)
      BY DEF CaughtUp, InBatch
  <2> QED
      BY <2>2, <2>3 DEF SteadyInv, Steady, Rows, RowsNewest
<1>2. TypeInv => TypeOK
    BY DEF TypeInv
<1> QED
    BY <1>1, InitType, StepType, InitSteady, StepSteady, PTL DEF Safety
=============================================================================
