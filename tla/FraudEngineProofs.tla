------------------------- MODULE FraudEngineProofs -------------------------
(***************************************************************************)
(* Proofs about the pipeline of the fraud engine, for any number of        *)
(* messages, replicas and partitions, any sizes of the pool and of the     *)
(* semaphore of risk calls, and any bounds on crashes and rebalances.      *)
(*                                                                         *)
(* TypeCorrect: the type invariant, with the limits of the pool and of     *)
(*   the semaphore.                                                        *)
(* LossesNeedCrashes: the pipeline implements the safety part of the       *)
(*   contract AtLeastOnce with a window of PoolSize - 1.                   *)
(* WritesNeedDeliveries: the bound on the writes of a result, from an      *)
(*   invariant that charges every write still to come to a delivery.       *)
(***************************************************************************)
EXTENDS FraudEngine, ConsumerGroupProofs

-----------------------------------------------------------------------------
Calls(r) == {j \in JobsOf(r) : j.stage = "call"}

TypeInv == TypeOK /\ IsFiniteSet(jobs)

LEMMA JobType ==
    ASSUME NEW j \in Job
    PROVE  /\ j.rep \in Replicas /\ j.msg \in Messages
           /\ j.gen \in Nat /\ j.stage \in Stages
BY DEF Job

LEMMA AdvancedJob ==
    ASSUME NEW j \in Job, NEW s \in Stages
    PROVE  /\ [j EXCEPT !.stage = s] \in Job
           /\ [j EXCEPT !.stage = s].rep = j.rep
           /\ [j EXCEPT !.stage = s].msg = j.msg
           /\ [j EXCEPT !.stage = s].gen = j.gen
           /\ [j EXCEPT !.stage = s].stage = s
BY DEF Job

(* The jobs of a replica, and its risk calls, are finitely many. *)
LEMMA FiniteJobs ==
    ASSUME TypeInv, NEW r \in Replicas
    PROVE  /\ IsFiniteSet(JobsOf(r)) /\ Cardinality(JobsOf(r)) \in Nat
           /\ IsFiniteSet(Calls(r)) /\ Cardinality(Calls(r)) \in Nat
<1>1. JobsOf(r) \in SUBSET jobs /\ Calls(r) \in SUBSET jobs
    BY DEF JobsOf, Calls
<1>2. IsFiniteSet(JobsOf(r)) /\ IsFiniteSet(Calls(r))
    BY <1>1, FS_Subset DEF TypeInv
<1> QED
    BY <1>2, FS_CardinalityType

LEMMA InitType == Init => TypeInv
<1> SUFFICES ASSUME Init PROVE TypeInv
    OBVIOUS
<1> USE EngineAssumption DEF Init
<1>1. GroupTypeOK
    BY GroupInitType
<1>2. \A r \in Replicas : JobsOf(r) = {} /\ {j \in JobsOf(r) : j.stage = "call"} = {}
    BY DEF JobsOf
<1>3. Cardinality({}) = 0 /\ IsFiniteSet({})
    BY FS_EmptySet
<1>4. fetched \in [Replicas -> 0..N] /\ published \in [Messages -> Nat]
    BY GroupAssumption
<1>5. PoolSize \in Nat \ {0} /\ MaxRisk \in Nat \ {0}
    OBVIOUS
<1>6. \A r \in Replicas : Cardinality(JobsOf(r)) <= PoolSize
    BY <1>2, <1>3, <1>5
<1>7. \A r \in Replicas : Cardinality({j \in JobsOf(r) : j.stage = "call"}) <= MaxRisk
    BY <1>2, <1>3, <1>5
<1> QED
    BY <1>1, <1>3, <1>4, <1>6, <1>7 DEF TypeInv, TypeOK

-----------------------------------------------------------------------------
(* The part of the types that is about jobs, and how it is kept. *)
JobsTypeOK ==
    /\ jobs \subseteq Job
    /\ IsFiniteSet(jobs)
    /\ \A r \in Replicas : Cardinality(JobsOf(r)) <= PoolSize
    /\ \A r \in Replicas : Cardinality(Calls(r)) <= MaxRisk

LEMMA FewerJobsType ==
    ASSUME TypeInv, jobs' \subseteq jobs
    PROVE  JobsTypeOK'
<1>1. jobs' \subseteq Job /\ IsFiniteSet(jobs')
    BY FewerRemain DEF TypeInv, TypeOK
<1>2. ASSUME NEW r \in Replicas
      PROVE  /\ Cardinality(JobsOf(r)') <= PoolSize
             /\ Cardinality(Calls(r)') <= MaxRisk
    <2>1. JobsOf(r)' \subseteq JobsOf(r) /\ Calls(r)' \subseteq Calls(r)
        BY DEF JobsOf, Calls
    <2>2. /\ IsFiniteSet(JobsOf(r)) /\ Cardinality(JobsOf(r)) \in Nat
          /\ IsFiniteSet(Calls(r)) /\ Cardinality(Calls(r)) \in Nat
        BY FiniteJobs
    <2>3. Cardinality(JobsOf(r)) <= PoolSize /\ Cardinality(Calls(r)) <= MaxRisk
        BY DEF TypeInv, TypeOK, Calls
    <2>4. /\ Cardinality(JobsOf(r)') <= Cardinality(JobsOf(r)) /\ Cardinality(JobsOf(r)') \in Nat
          /\ Cardinality(Calls(r)') <= Cardinality(Calls(r)) /\ Cardinality(Calls(r)') \in Nat
        BY <2>1, <2>2, FewerRemain
    <2> QED
        BY <2>2, <2>3, <2>4, EngineAssumption
<1> QED
    BY <1>1, <1>2 DEF JobsTypeOK

LEMMA AdvanceType ==
    ASSUME TypeInv, NEW j \in jobs, NEW s \in Stages, Advance(j, s),
           s = "call" => Cardinality(Calls(j.rep)) < MaxRisk
    PROVE  JobsTypeOK'
<1> DEFINE k == [j EXCEPT !.stage = s]
<1>1. /\ j \in Job /\ j.rep \in Replicas
      /\ k \in Job /\ k.rep = j.rep /\ k.stage = s
    BY AdvancedJob, JobType DEF TypeInv, TypeOK
<1> HIDE DEF k
<1>2. jobs' = (jobs \ {j}) \cup {k}
    BY DEF Advance, k
<1>3. jobs' \subseteq Job /\ IsFiniteSet(jobs')
    BY <1>1, <1>2, ReplaceOne DEF TypeInv, TypeOK
<1>4. ASSUME NEW r \in Replicas
      PROVE  /\ Cardinality(JobsOf(r)') <= PoolSize
             /\ Cardinality(Calls(r)') <= MaxRisk
    <2>1. /\ IsFiniteSet(JobsOf(r)) /\ Cardinality(JobsOf(r)) \in Nat
          /\ IsFiniteSet(Calls(r)) /\ Cardinality(Calls(r)) \in Nat
        BY FiniteJobs
    <2>2. Cardinality(JobsOf(r)) <= PoolSize /\ Cardinality(Calls(r)) <= MaxRisk
        BY DEF TypeInv, TypeOK, Calls
    <2>3. CASE r = j.rep
        <3>1. JobsOf(r)' \subseteq (JobsOf(r) \ {j}) \cup {k} /\ j \in JobsOf(r)
            BY <1>2, <2>3 DEF JobsOf
        <3>2. /\ IsFiniteSet((JobsOf(r) \ {j}) \cup {k})
              /\ Cardinality((JobsOf(r) \ {j}) \cup {k}) <= Cardinality(JobsOf(r))
            BY <2>1, <3>1, ReplaceOne
        <3>3. /\ Cardinality(JobsOf(r)') <= Cardinality(JobsOf(r))
              /\ Cardinality(JobsOf(r)') \in Nat
            <4>1. Cardinality((JobsOf(r) \ {j}) \cup {k}) \in Nat
                BY <3>2, FS_CardinalityType
            <4>2. /\ Cardinality(JobsOf(r)') <= Cardinality((JobsOf(r) \ {j}) \cup {k})
                  /\ Cardinality(JobsOf(r)') \in Nat
                BY <3>1, <3>2, FewerRemain
            <4> QED
                BY <2>1, <3>2, <4>1, <4>2
        <3>4. CASE s = "call"
            <4>1. Calls(r)' \subseteq Calls(r) \cup {k}
                BY <3>1 DEF Calls
            <4>2. /\ Cardinality(Calls(r)') <= Cardinality(Calls(r)) + 1
                  /\ IsFiniteSet(Calls(r)')
                BY <2>1, <4>1, AtMostOneMore
            <4>3. Cardinality(Calls(r)') \in Nat
                BY <4>2, FS_CardinalityType
            <4> QED
                BY <2>1, <2>2, <2>3, <3>3, <3>4, <4>2, <4>3, EngineAssumption
        <3>5. CASE s # "call"
            <4>1. Calls(r)' \subseteq Calls(r)
                BY <1>1, <3>1, <3>5 DEF Calls
            <4>2. /\ Cardinality(Calls(r)') <= Cardinality(Calls(r))
                  /\ Cardinality(Calls(r)') \in Nat
                BY <2>1, <4>1, FewerRemain
            <4> QED
                BY <2>1, <2>2, <3>3, <4>2, EngineAssumption
        <3> QED
            BY <3>4, <3>5
    <2>4. CASE r # j.rep
        <3>1. JobsOf(r)' = JobsOf(r)
            BY <1>1, <1>2, <2>4 DEF JobsOf
        <3>2. Calls(r)' = Calls(r)
            BY <3>1 DEF Calls
        <3> QED
            BY <2>2, <3>1, <3>2
    <2> QED
        BY <2>3, <2>4
<1> QED
    BY <1>3, <1>4 DEF JobsTypeOK

LEMMA DispatchType ==
    ASSUME TypeInv, NEW r \in Replicas, Dispatch(r)
    PROVE  JobsTypeOK' /\ failed' \subseteq Messages
<1>1. PICK s \in {"wait", "commit"} :
          /\ failed' = IF s = "commit" THEN failed \cup {fetched[r]} ELSE failed
          /\ jobs' = jobs \cup {[rep |-> r, msg |-> fetched[r],
                                 gen |-> crashes + moves, stage |-> s]}
    BY DEF Dispatch
<1> DEFINE k == [rep |-> r, msg |-> fetched[r], gen |-> crashes + moves, stage |-> s]
<1>2. fetched[r] \in Messages /\ crashes + moves \in Nat
    BY GroupAssumption DEF Dispatch, TypeInv, TypeOK, GroupTypeOK, Messages
<1>3. k \in Job /\ k.rep = r /\ k.stage # "call"
    BY <1>2 DEF Job, Stages
<1> HIDE DEF k
<1>4. jobs' = jobs \cup {k}
    BY <1>1 DEF k
<1>5. jobs' \subseteq Job /\ IsFiniteSet(jobs')
    BY <1>3, <1>4, FS_AddElement DEF TypeInv, TypeOK
<1>6. ASSUME NEW q \in Replicas
      PROVE  /\ Cardinality(JobsOf(q)') <= PoolSize
             /\ Cardinality(Calls(q)') <= MaxRisk
    <2>1. /\ IsFiniteSet(JobsOf(q)) /\ Cardinality(JobsOf(q)) \in Nat
          /\ Cardinality(JobsOf(q)) <= PoolSize /\ Cardinality(Calls(q)) <= MaxRisk
        BY FiniteJobs DEF TypeInv, TypeOK, Calls
    <2>2. Calls(q)' = Calls(q)
        BY <1>3, <1>4 DEF Calls, JobsOf
    <2>3. CASE q = r
        <3>1. JobsOf(q)' \subseteq JobsOf(q) \cup {k}
            BY <1>4 DEF JobsOf
        <3>2. /\ Cardinality(JobsOf(q)') <= Cardinality(JobsOf(q)) + 1
              /\ IsFiniteSet(JobsOf(q)')
            BY <2>1, <3>1, AtMostOneMore
        <3>3. Cardinality(JobsOf(q)') \in Nat /\ Cardinality(JobsOf(q)) < PoolSize
            BY <2>3, <3>2, FS_CardinalityType DEF Dispatch
        <3> QED
            BY <2>1, <2>2, <3>2, <3>3, EngineAssumption
    <2>4. CASE q # r
        <3>1. JobsOf(q)' = JobsOf(q)
            BY <1>3, <1>4, <2>4 DEF JobsOf
        <3> QED
            BY <2>1, <2>2, <3>1
    <2> QED
        BY <2>3, <2>4
<1>7. failed' \subseteq Messages
    BY <1>1, <1>2 DEF TypeInv, TypeOK
<1> QED
    BY <1>5, <1>6, <1>7 DEF JobsTypeOK

LEMMA TypeFromParts ==
    ASSUME GroupTypeOK', JobsTypeOK',
           fetched' \in [Replicas -> 0..N],
           schema' \in [Replicas -> {"unset", "cached", "failed"}],
           stopping' \subseteq Replicas,
           published' \in [Messages -> Nat],
           failed' \subseteq Messages
    PROVE  TypeInv'
BY DEF TypeInv, TypeOK, JobsTypeOK, Calls

LEMMA OneMoreResult ==
    ASSUME TypeInv, NEW j \in jobs
    PROVE  /\ j \in Job /\ j.rep \in Replicas /\ j.msg \in Messages
           /\ [published EXCEPT ![j.msg] = @ + 1] \in [Messages -> Nat]
<1>1. j \in Job /\ j.rep \in Replicas /\ j.msg \in Messages
    BY JobType DEF TypeInv, TypeOK
<1>2. published[j.msg] + 1 \in Nat
    BY <1>1 DEF TypeInv, TypeOK
<1> QED
    BY <1>1, <1>2 DEF TypeInv, TypeOK

LEMMA StepType == TypeInv /\ [Next]_vars => TypeInv'
<1> SUFFICES ASSUME TypeInv, [Next]_vars
             PROVE  TypeInv'
    OBVIOUS
<1>0. /\ GroupTypeOK
      /\ fetched \in [Replicas -> 0..N]
      /\ schema \in [Replicas -> {"unset", "cached", "failed"}]
      /\ stopping \subseteq Replicas
      /\ published \in [Messages -> Nat]
      /\ failed \subseteq Messages
    BY DEF TypeInv, TypeOK
<1>1. ASSUME NEW r \in Replicas, Fetch(r)
      PROVE  TypeInv'
    <2>1. PICK m \in Messages : Deliver(r, m) /\ fetched' = [fetched EXCEPT ![r] = m]
        BY <1>1 DEF Fetch
    <2>2. GroupTypeOK'
        BY <1>0, <2>1, DeliverType
    <2>3. fetched' \in [Replicas -> 0..N]
        BY <1>0, <2>1, MessagesType
    <2>4. JobsTypeOK'
        BY <1>1, FewerJobsType DEF Fetch
    <2> QED
        BY <1>0, <1>1, <2>2, <2>3, <2>4, TypeFromParts DEF Fetch, outcome
<1>2. ASSUME NEW r \in Replicas, Dispatch(r)
      PROVE  TypeInv'
    <2>1. GroupTypeOK'
        BY <1>0, <1>2, GroupUnchangedType DEF Dispatch
    <2>2. fetched' \in [Replicas -> 0..N]
        BY <1>0, <1>2, GroupAssumption DEF Dispatch
    <2>3. JobsTypeOK' /\ failed' \subseteq Messages
        BY <1>2, DispatchType
    <2> QED
        BY <1>0, <1>2, <2>1, <2>2, <2>3, TypeFromParts DEF Dispatch
<1>3. ASSUME NEW j \in jobs, StartRiskCall(j)
      PROVE  TypeInv'
    <2>1. GroupTypeOK'
        BY <1>0, <1>3, GroupUnchangedType DEF StartRiskCall
    <2>2. JobsTypeOK'
        BY <1>3, AdvanceType DEF StartRiskCall, Stages, Calls
    <2> QED
        BY <1>0, <1>3, <2>1, <2>2, TypeFromParts DEF StartRiskCall, outcome
<1>4. ASSUME NEW j \in jobs, EndRiskCall(j)
      PROVE  TypeInv'
    <2>1. GroupTypeOK'
        BY <1>0, <1>4, GroupUnchangedType DEF EndRiskCall
    <2>2. JobsTypeOK'
        BY <1>4, AdvanceType DEF EndRiskCall, Stages
    <2> QED
        BY <1>0, <1>4, <2>1, <2>2, TypeFromParts DEF EndRiskCall, outcome
<1>5. ASSUME NEW j \in jobs, PublishSucceeds(j)
      PROVE  TypeInv'
    <2>1. GroupTypeOK'
        BY <1>0, <1>5, GroupUnchangedType DEF PublishSucceeds
    <2>2. JobsTypeOK'
        BY <1>5, AdvanceType DEF PublishSucceeds, Stages
    <2>3. published' \in [Messages -> Nat]
        BY <1>5, OneMoreResult DEF PublishSucceeds
    <2>4. schema' \in [Replicas -> {"unset", "cached", "failed"}]
        BY <1>0, <1>5 DEF PublishSucceeds, SchemaCached
    <2> QED
        BY <1>0, <1>5, <2>1, <2>2, <2>3, <2>4, TypeFromParts DEF PublishSucceeds
<1>6. ASSUME NEW j \in jobs, PublishFails(j)
      PROVE  TypeInv'
    <2>1. GroupTypeOK'
        BY <1>0, <1>6, GroupUnchangedType DEF PublishFails
    <2>2. JobsTypeOK'
        BY <1>6, AdvanceType DEF PublishFails, Stages
    <2>3. published' \in [Messages -> Nat]
        BY <1>0, <1>6, OneMoreResult DEF PublishFails
    <2>4. schema' \in [Replicas -> {"unset", "cached", "failed"}]
        BY <1>0, <1>6 DEF PublishFails, SchemaCached, SchemaFailed
    <2>5. failed' \subseteq Messages
        BY <1>0, <1>6, OneMoreResult DEF PublishFails
    <2> QED
        BY <1>0, <1>6, <2>1, <2>2, <2>3, <2>4, <2>5, TypeFromParts DEF PublishFails
<1>7. ASSUME NEW j \in jobs, Commit(j)
      PROVE  TypeInv'
    <2>1. {j.msg} \in SUBSET Messages
        BY OneMoreResult
    <2>2. GroupTypeOK'
        BY <1>0, <1>7, <2>1, CommitType DEF Commit
    <2>3. JobsTypeOK'
        BY <1>7, FewerJobsType DEF Commit
    <2> QED
        BY <1>0, <1>7, <2>2, <2>3, TypeFromParts DEF Commit, outcome
<1>8. ASSUME NEW r \in Replicas, Stop(r)
      PROVE  TypeInv'
    <2>1. JobsTypeOK' /\ GroupTypeOK'
        BY <1>0, <1>8, FewerJobsType, ToldToStopType DEF Stop
    <2> QED
        BY <1>0, <1>8, <2>1, TypeFromParts DEF Stop, outcome
<1>9. ASSUME NEW r \in Replicas, Exit(r)
      PROVE  TypeInv'
    <2>1. JobsTypeOK' /\ GroupTypeOK'
        BY <1>0, <1>9, FewerJobsType, LeaveType DEF Exit
    <2>2. schema' \in [Replicas -> {"unset", "cached", "failed"}]
        BY <1>0, <1>9 DEF Exit
    <2> QED
        BY <1>0, <1>9, <2>1, <2>2, TypeFromParts DEF Exit, outcome
<1>10. ASSUME NEW r \in Replicas, Crash(r)
       PROVE  TypeInv'
    <2>1. JobsTypeOK' /\ GroupTypeOK'
        BY <1>0, <1>10, FewerJobsType, LeaveType DEF Crash
    <2>2. schema' \in [Replicas -> {"unset", "cached", "failed"}]
        BY <1>0, <1>10 DEF Crash
    <2>3. fetched' \in [Replicas -> 0..N]
        BY <1>0, <1>10, GroupAssumption DEF Crash
    <2> QED
        BY <1>0, <1>10, <2>1, <2>2, <2>3, TypeFromParts DEF Crash, outcome
<1>11. ASSUME NEW p \in Partitions, NEW r \in Replicas, Rebalance(p, r)
       PROVE  TypeInv'
    <2>1. JobsTypeOK' /\ GroupTypeOK'
        BY <1>0, <1>11, FewerJobsType, AssignType DEF Rebalance, local
    <2> QED
        BY <1>0, <1>11, <2>1, TypeFromParts DEF Rebalance, local, outcome
<1>12. CASE UNCHANGED vars
    <2>1. JobsTypeOK' /\ GroupTypeOK'
        BY <1>0, <1>12, FewerJobsType, GroupUnchangedType DEF vars, local
    <2> QED
        BY <1>0, <1>12, <2>1, TypeFromParts DEF vars, local, outcome
<1> QED
    BY <1>1, <1>2, <1>3, <1>4, <1>5, <1>6, <1>7, <1>8, <1>9, <1>10, <1>11, <1>12
    DEF Next, Work

(* Type correctness of the fraud engine: the pool and the semaphore of the *)
(* risk calls keep their limits in every replica.                          *)
THEOREM TypeCorrect == Safety => []TypeOK
<1>1. TypeInv => TypeOK
    BY DEF TypeInv
<1> QED
    BY InitType, StepType, <1>1, PTL DEF Safety

-----------------------------------------------------------------------------
(* The inductive invariant of the loss bound.  Passed[r] are messages in   *)
(* the pool of r that the commit of another goroutine of r passed, Dropped *)
(* those of them that crashes made unreachable.  A commit leaves one       *)
(* goroutine less than the pool has places, so Passed[r] is smaller too.   *)
InHand(r) == {j.msg : j \in JobsOf(r)}

Before(m, k) == Part[m] = Part[k] /\ m < k

AccountedFor(m, Dropped, Passed) ==
    \/ m \in Settled
    \/ m \in Dropped
    \/ \E r \in Replicas : m \in Passed[r]

OffsetsCovered(Dropped, Passed) ==
    \A m \in Messages : m <= committed[Part[m]] => AccountedFor(m, Dropped, Passed)

(* What was fetched from a partition with an owner is accounted for, or    *)
(* the owner has it in hand.                                               *)
PositionsCovered(Dropped, Passed) ==
    \A m \in Messages : owner[Part[m]] # NoOwner /\ m <= position[Part[m]] =>
        \/ AccountedFor(m, Dropped, Passed)
        \/ m \in InHand(owner[Part[m]])
        \/ m = fetched[owner[Part[m]]]

(* So is what precedes a message in hand, in the pool or waiting for it. *)
HandsCovered(r, Dropped, Passed) ==
    \A k \in InHand(r) \cup {fetched[r]} : k # 0 =>
        \A m \in Messages : Before(m, k) =>
            AccountedFor(m, Dropped, Passed) \/ m \in InHand(r)

CommitsDue == \A j \in jobs : j.stage = "commit" => j.msg \in Settled

PassedInHand(Passed) ==
    \A r \in Replicas : /\ Passed[r] \subseteq InHand(r)
                        /\ Cardinality(Passed[r]) <= PoolSize - 1

Covered(Dropped, Passed) ==
    /\ OffsetsCovered(Dropped, Passed)
    /\ PositionsCovered(Dropped, Passed)
    /\ \A r \in Replicas : HandsCovered(r, Dropped, Passed)
    /\ CommitsDue
    /\ PassedInHand(Passed)

DroppedByCrashes(Dropped) ==
    /\ Dropped \in SUBSET Messages
    /\ Cardinality(Dropped) <= (PoolSize - 1) * crashes

Accounted ==
    \E Dropped : \E Passed \in [Replicas -> SUBSET Messages] :
        DroppedByCrashes(Dropped) /\ Covered(Dropped, Passed)

LEMMA HandsType ==
    ASSUME TypeInv
    PROVE  /\ \A r \in Replicas : InHand(r) \subseteq Messages
           /\ \A j \in jobs : j.rep \in Replicas /\ j.msg \in InHand(j.rep)
           /\ 0 \notin Messages
<1>1. \A j \in jobs : j.rep \in Replicas /\ j.msg \in Messages
    BY JobType DEF TypeInv, TypeOK
<1>2. 0 \notin Messages
    BY DEF Messages
<1> QED
    BY <1>1, <1>2 DEF InHand, JobsOf

(* Goroutines change their stage: the same messages are in hand. *)
LEMMA AdvanceHands ==
    ASSUME TypeInv, NEW j \in jobs, NEW s \in Stages, Advance(j, s)
    PROVE  /\ \A r \in Replicas : InHand(r)' = InHand(r)
           /\ \A i \in jobs' : i \in jobs \/ (i.stage = s /\ i.msg = j.msg)
<1> DEFINE k == [j EXCEPT !.stage = s]
<1>1. k.rep = j.rep /\ k.msg = j.msg /\ k.stage = s
    BY AdvancedJob DEF TypeInv, TypeOK
<1> HIDE DEF k
<1>2. jobs' = (jobs \ {j}) \cup {k}
    BY DEF Advance, k
<1>3. ASSUME NEW r \in Replicas
      PROVE  InHand(r)' \subseteq InHand(r) /\ InHand(r) \subseteq InHand(r)'
    <2>1. \A i \in JobsOf(r)' : i \in JobsOf(r) \/ (i = k /\ j \in JobsOf(r))
        BY <1>1, <1>2 DEF JobsOf
    <2>2. \A i \in JobsOf(r) : i \in JobsOf(r)' \/ (i = j /\ k \in JobsOf(r)')
        BY <1>1, <1>2 DEF JobsOf
    <2> QED
        BY <1>1, <2>1, <2>2 DEF InHand
<1> QED
    BY <1>1, <1>2, <1>3

(* Steps that move no offset and keep what is in hand. *)
LEMMA SameHandsCovered ==
    ASSUME TypeInv, NEW Dropped, NEW Passed, Covered(Dropped, Passed),
           UNCHANGED <<committed, position, owner, fetched>>,
           \A r \in Replicas : InHand(r)' = InHand(r),
           Settled \subseteq Settled', CommitsDue'
    PROVE  Covered(Dropped, Passed)'
<1>1. OffsetsCovered(Dropped, Passed)'
    BY DEF Covered, OffsetsCovered, AccountedFor
<1>2. PositionsCovered(Dropped, Passed)'
    <2> SUFFICES ASSUME NEW m \in Messages,
                        owner[Part[m]] # NoOwner, m <= position[Part[m]]
                 PROVE  \/ AccountedFor(m, Dropped, Passed)'
                        \/ m \in InHand(owner[Part[m]])'
                        \/ m = fetched[owner[Part[m]]]
        BY DEF PositionsCovered
    <2>1. PICK q \in Replicas : q = owner[Part[m]] /\ q = owner'[Part[m]]
        BY MessagesType DEF TypeInv, TypeOK, GroupTypeOK
    <2>2. AccountedFor(m, Dropped, Passed) \/ m \in InHand(q) \/ m = fetched[q]
        BY <2>1 DEF Covered, PositionsCovered
    <2>3. m \in InHand(q) => m \in InHand(owner[Part[m]])'
        BY <2>1 DEF InHand, JobsOf
    <2> QED
        BY <2>1, <2>2, <2>3 DEF AccountedFor
<1>3. ASSUME NEW r \in Replicas
      PROVE  HandsCovered(r, Dropped, Passed)'
    BY DEF Covered, HandsCovered, AccountedFor
<1>4. PassedInHand(Passed)'
    BY DEF Covered, PassedInHand
<1> QED
    BY <1>1, <1>2, <1>3, <1>4 DEF Covered

LEMMA OutcomeUnchanged ==
    ASSUME UNCHANGED outcome
    PROVE  Settled' = Settled
BY DEF outcome, Settled, Published

(* The next message of an owned partition goes to its owner, which holds   *)
(* no other outside the pool.                                              *)
LEMMA FetchCovered ==
    ASSUME TypeInv, NEW Dropped, NEW Passed, Covered(Dropped, Passed),
           NEW r \in Replicas, Fetch(r)
    PROVE  Covered(Dropped, Passed)'
<1>1. PICK k \in Messages : Deliver(r, k) /\ fetched' = [fetched EXCEPT ![r] = k]
    BY DEF Fetch
<1>2. /\ fetched[r] = 0 /\ jobs' = jobs /\ Settled' = Settled
      /\ fetched'[r] = k
      /\ \A q \in Replicas : q # r => fetched'[q] = fetched[q]
    BY <1>1, OutcomeUnchanged DEF Fetch, TypeInv, TypeOK
<1>3. /\ UNCHANGED <<committed, owner>>
      /\ position' = [position EXCEPT ![Part[k]] = k]
      /\ owner[Part[k]] = r /\ r # NoOwner /\ position[Part[k]] < k
    BY <1>1, GroupAssumption DEF Deliver
<1>4. \A q \in Replicas : InHand(q)' = InHand(q)
    BY <1>2 DEF InHand, JobsOf
<1>5. ASSUME NEW m \in Messages, Before(m, k)
      PROVE  AccountedFor(m, Dropped, Passed) \/ m \in InHand(r)
    <2>1. m <= position[Part[m]] /\ owner[Part[m]] = r
        BY <1>1, <1>3, <1>5 DEF Deliver, Before
    <2>2. m # fetched[r]
        BY <1>2 DEF Messages
    <2> QED
        BY <1>3, <2>1, <2>2 DEF Covered, PositionsCovered
<1>6. OffsetsCovered(Dropped, Passed)'
    BY <1>2, <1>3 DEF Covered, OffsetsCovered, AccountedFor
<1>7. PositionsCovered(Dropped, Passed)'
    <2> SUFFICES ASSUME NEW m \in Messages,
                        owner[Part[m]] # NoOwner, m <= position'[Part[m]]
                 PROVE  \/ AccountedFor(m, Dropped, Passed)'
                        \/ m \in InHand(owner[Part[m]])'
                        \/ m = fetched'[owner[Part[m]]]
        BY <1>3 DEF PositionsCovered
    <2>1. PICK q \in Replicas : q = owner[Part[m]] /\ q = owner'[Part[m]]
        BY <1>3, MessagesType DEF TypeInv, TypeOK, GroupTypeOK
    <2>2. m \in InHand(q) => m \in InHand(owner[Part[m]])'
        BY <1>2, <2>1 DEF InHand, JobsOf
    <2>3. CASE Part[m] = Part[k]
        <3>1. position'[Part[m]] = k /\ q = r
            BY <1>3, <2>1, <2>3, MessagesType DEF TypeInv, TypeOK, GroupTypeOK
        <3>2. m = k \/ Before(m, k)
            BY <2>3, <3>1, MessagesType DEF Before
        <3> QED
            BY <1>2, <1>5, <2>1, <2>2, <3>1, <3>2 DEF AccountedFor
    <2>4. CASE Part[m] # Part[k]
        <3>1. position'[Part[m]] = position[Part[m]]
            BY <1>3, <2>4, MessagesType DEF TypeInv, TypeOK, GroupTypeOK
        <3>2. AccountedFor(m, Dropped, Passed) \/ m \in InHand(q) \/ m = fetched[q]
            BY <2>1, <3>1 DEF Covered, PositionsCovered
        <3>3. m = fetched[q] => m = fetched'[q]
            BY <1>2, HandsType
        <3> QED
            BY <1>2, <2>1, <2>2, <3>2, <3>3 DEF AccountedFor
    <2> QED
        BY <2>3, <2>4
<1>8. ASSUME NEW q \in Replicas
      PROVE  HandsCovered(q, Dropped, Passed)'
    <2>1. CASE q = r
        BY <1>2, <1>4, <1>5, <2>1 DEF Covered, HandsCovered, AccountedFor
    <2>2. CASE q # r
        BY <1>2, <1>4, <2>2 DEF Covered, HandsCovered, AccountedFor
    <2> QED
        BY <2>1, <2>2
<1>9. CommitsDue' /\ PassedInHand(Passed)'
    BY <1>2, <1>4 DEF Covered, CommitsDue, PassedInHand
<1> QED
    BY <1>6, <1>7, <1>8, <1>9 DEF Covered

(* A goroutine takes the message that waited. *)
LEMMA DispatchCovered ==
    ASSUME TypeInv, NEW Dropped, NEW Passed, Covered(Dropped, Passed),
           NEW r \in Replicas, Dispatch(r)
    PROVE  Covered(Dropped, Passed)'
<1>1. PICK s \in {"wait", "commit"} :
          /\ failed' = IF s = "commit" THEN failed \cup {fetched[r]} ELSE failed
          /\ jobs' = jobs \cup {[rep |-> r, msg |-> fetched[r],
                                 gen |-> crashes + moves, stage |-> s]}
    BY DEF Dispatch
<1> DEFINE k == [rep |-> r, msg |-> fetched[r], gen |-> crashes + moves, stage |-> s]
<1>2. k.rep = r /\ k.msg = fetched[r] /\ k.stage = s /\ jobs' = jobs \cup {k}
    BY <1>1
<1> HIDE DEF k
<1>3. /\ UNCHANGED <<committed, position, owner>>
      /\ fetched[r] # 0 /\ fetched'[r] = 0
      /\ \A q \in Replicas : q # r => fetched'[q] = fetched[q]
      /\ fetched[r] \in Messages
    BY DEF Dispatch, TypeInv, TypeOK, groupVars, Messages
<1>4. Settled \subseteq Settled' /\ (s = "commit" => fetched[r] \in Settled')
    BY <1>1 DEF Dispatch, Settled, Published
<1>5. /\ InHand(r)' = InHand(r) \cup {fetched[r]}
      /\ \A q \in Replicas : q # r => InHand(q)' = InHand(q)
    <2>1. \A q \in Replicas : q # r => JobsOf(q)' = JobsOf(q)
        BY <1>2 DEF JobsOf
    <2>2. JobsOf(r)' = JobsOf(r) \cup {k}
        BY <1>2 DEF JobsOf
    <2> QED
        BY <1>2, <2>1, <2>2 DEF InHand
<1>6. OffsetsCovered(Dropped, Passed)'
    BY <1>3, <1>4 DEF Covered, OffsetsCovered, AccountedFor
<1>7. PositionsCovered(Dropped, Passed)'
    <2> SUFFICES ASSUME NEW m \in Messages,
                        owner[Part[m]] # NoOwner, m <= position[Part[m]]
                 PROVE  \/ AccountedFor(m, Dropped, Passed)'
                        \/ m \in InHand(owner[Part[m]])'
                        \/ m = fetched'[owner[Part[m]]]
        BY <1>3 DEF PositionsCovered
    <2>1. PICK q \in Replicas : q = owner[Part[m]] /\ q = owner'[Part[m]]
        BY <1>3, MessagesType DEF TypeInv, TypeOK, GroupTypeOK
    <2>2. AccountedFor(m, Dropped, Passed) \/ m \in InHand(q) \/ m = fetched[q]
        BY <2>1 DEF Covered, PositionsCovered
    <2>3. m \in InHand(q)' => m \in InHand(owner[Part[m]])'
        BY <2>1 DEF InHand, JobsOf
    <2>4. m \in InHand(q) \/ m = fetched[q] => m \in InHand(q)' \/ m = fetched'[q]
        BY <1>3, <1>5
    <2> QED
        BY <1>4, <2>1, <2>2, <2>3, <2>4 DEF AccountedFor
<1>8. ASSUME NEW q \in Replicas
      PROVE  HandsCovered(q, Dropped, Passed)'
    <2>1. InHand(q)' \cup {fetched'[q]} \subseteq InHand(q) \cup {fetched[q], 0}
        BY <1>3, <1>5
    <2>2. InHand(q) \subseteq InHand(q)'
        BY <1>5
    <2> QED
        BY <1>4, <2>1, <2>2 DEF Covered, HandsCovered, AccountedFor
<1>9. CommitsDue' /\ PassedInHand(Passed)'
    BY <1>2, <1>4, <1>5 DEF Covered, CommitsDue, PassedInHand
<1> QED
    BY <1>6, <1>7, <1>8, <1>9 DEF Covered

(* What a goroutine leaves behind when it ends. *)
LEMMA CommitHands ==
    ASSUME TypeInv, NEW j \in jobs, Commit(j), NEW r \in Replicas, r = j.rep
    PROVE  /\ InHand(r)' \in SUBSET Messages
           /\ InHand(r) \subseteq InHand(r)' \cup {j.msg}
           /\ InHand(r)' \subseteq InHand(r)
           /\ Cardinality(InHand(r)') <= PoolSize - 1
           /\ \A q \in Replicas : q # r => InHand(q)' = InHand(q)
<1>1. jobs' = jobs \ {j} /\ j \in JobsOf(r)
    BY DEF Commit, JobsOf
<1>2. \A q \in Replicas : q # r => InHand(q)' = InHand(q)
    <2>1. \A q \in Replicas : q # r => JobsOf(q)' = JobsOf(q)
        BY <1>1 DEF JobsOf
    <2> QED
        BY <2>1 DEF InHand
<1>3. JobsOf(r)' = JobsOf(r) \ {j}
    BY <1>1 DEF JobsOf
<1>4. /\ InHand(r)' \in SUBSET Messages
      /\ InHand(r) \subseteq InHand(r)' \cup {j.msg}
      /\ InHand(r)' \subseteq InHand(r)
    BY <1>3, HandsType DEF InHand
<1>5. /\ IsFiniteSet(JobsOf(r)') /\ Cardinality(JobsOf(r)') <= PoolSize - 1
      /\ Cardinality(JobsOf(r)') \in Nat
    <2>1. /\ IsFiniteSet(JobsOf(r)) /\ Cardinality(JobsOf(r)) \in Nat
          /\ Cardinality(JobsOf(r)) <= PoolSize
        BY FiniteJobs DEF TypeInv, TypeOK
    <2>2. /\ IsFiniteSet(JobsOf(r)')
          /\ Cardinality(JobsOf(r)') = Cardinality(JobsOf(r)) - 1
        BY <1>1, <1>3, <2>1, FS_RemoveElement
    <2>3. Cardinality(JobsOf(r)') \in Nat
        BY <2>2, FS_CardinalityType
    <2> QED
        BY <2>1, <2>2, <2>3, EngineAssumption
<1>6. Cardinality(InHand(r)') <= Cardinality(JobsOf(r)') /\ IsFiniteSet(InHand(r)')
    <2> DEFINE f == [i \in JobsOf(r)' |-> i.msg]
    <2>1. f \in Surjection(JobsOf(r)', InHand(r)')
        BY DEF Surjection, InHand
    <2> QED
        BY <1>5, <2>1, FS_Surjection
<1>7. Cardinality(InHand(r)') \in Nat
    BY <1>6, FS_CardinalityType
<1> QED
    BY <1>2, <1>4, <1>5, <1>6, <1>7, EngineAssumption

(* A commit may pass everything else its replica has in hand, and nothing  *)
(* more: the rest of what precedes the message was accounted for.          *)
LEMMA CommitCovered ==
    ASSUME TypeInv, NEW Dropped, NEW Passed \in [Replicas -> SUBSET Messages],
           Covered(Dropped, Passed), NEW j \in jobs, Commit(j),
           NEW r \in Replicas, r = j.rep,
           NEW Now \in [Replicas -> SUBSET Messages],
           Now = [Passed EXCEPT ![r] = InHand(r)']
    PROVE  Covered(Dropped, Now)'
<1>1. /\ UNCHANGED <<position, owner, fetched>>
      /\ Settled' = Settled /\ j.msg \in Settled /\ j.stage = "commit"
      /\ committed' \in {committed, Stored({j.msg})} /\ jobs' = jobs \ {j}
      /\ j.msg \in Messages
    BY OutcomeUnchanged, HandsType DEF Commit, CommitMessages, Covered, CommitsDue
<1>2. /\ InHand(r) \subseteq InHand(r)' \cup {j.msg}
      /\ InHand(r)' \subseteq InHand(r)
      /\ Cardinality(InHand(r)') <= PoolSize - 1
      /\ \A q \in Replicas : q # r => InHand(q)' = InHand(q)
    BY CommitHands
<1>3. Now[r] = InHand(r)' /\ \A q \in Replicas : q # r => Now[q] = Passed[q]
    OBVIOUS
<1>4. \A m \in InHand(r) : AccountedFor(m, Dropped, Now)'
    BY <1>1, <1>2, <1>3 DEF AccountedFor
<1>5. \A m \in Messages : AccountedFor(m, Dropped, Passed) => AccountedFor(m, Dropped, Now)'
    <2>1. Passed[r] \subseteq InHand(r)
        BY DEF Covered, PassedInHand
    <2> QED
        BY <1>1, <1>3, <1>4, <2>1 DEF AccountedFor
<1>6. OffsetsCovered(Dropped, Now)'
    <2> SUFFICES ASSUME NEW m \in Messages, m <= committed'[Part[m]]
                 PROVE  AccountedFor(m, Dropped, Now)'
        BY DEF OffsetsCovered
    <2>1. CASE m <= committed[Part[m]]
        BY <1>5, <2>1 DEF Covered, OffsetsCovered
    <2>2. CASE Part[m] = Part[j.msg] /\ committed'[Part[m]] = j.msg
        <3>1. m = j.msg \/ Before(m, j.msg)
            BY <1>1, <2>2, MessagesType DEF Before
        <3>2. j.msg # 0 /\ j.msg \in InHand(r)
            BY <1>1, HandsType
        <3>3. Before(m, j.msg) => AccountedFor(m, Dropped, Passed) \/ m \in InHand(r)
            BY <3>2 DEF Covered, HandsCovered
        <3> QED
            BY <1>1, <1>4, <1>5, <3>1, <3>3 DEF AccountedFor
    <2>3. CASE committed' = Stored({j.msg})
        <3>1. committed'[Part[m]] = IF Part[m] = Part[j.msg] THEN j.msg ELSE committed[Part[m]]
            <4>1. committed' = [p \in Partitions |->
                                   IF p = Part[j.msg] THEN j.msg ELSE committed[p]]
                BY <1>1, <2>3, StoredOne
            <4> QED
                BY <4>1, MessagesType
        <3> QED
            BY <2>1, <2>2, <3>1
    <2> QED
        BY <1>1, <2>1, <2>3
<1>7. PositionsCovered(Dropped, Now)'
    <2> SUFFICES ASSUME NEW m \in Messages,
                        owner[Part[m]] # NoOwner, m <= position[Part[m]]
                 PROVE  \/ AccountedFor(m, Dropped, Now)'
                        \/ m \in InHand(owner[Part[m]])'
                        \/ m = fetched[owner[Part[m]]]
        BY <1>1 DEF PositionsCovered
    <2>1. PICK q \in Replicas : q = owner[Part[m]] /\ q = owner'[Part[m]]
        BY <1>1, MessagesType DEF TypeInv, TypeOK, GroupTypeOK
    <2>2. AccountedFor(m, Dropped, Passed) \/ m \in InHand(q) \/ m = fetched[q]
        BY <2>1 DEF Covered, PositionsCovered
    <2>3. m \in InHand(q)' => m \in InHand(owner[Part[m]])'
        BY <2>1 DEF InHand, JobsOf
    <2> QED
        BY <1>2, <1>4, <1>5, <2>1, <2>2, <2>3
<1>8. ASSUME NEW q \in Replicas
      PROVE  HandsCovered(q, Dropped, Now)'
    <2> SUFFICES ASSUME NEW k \in InHand(q)' \cup {fetched[q]}, k # 0,
                        NEW m \in Messages, Before(m, k)
                 PROVE  AccountedFor(m, Dropped, Now)' \/ m \in InHand(q)'
        BY <1>1 DEF HandsCovered, Before
    <2>1. AccountedFor(m, Dropped, Passed) \/ m \in InHand(q)
        BY <1>2 DEF Covered, HandsCovered
    <2> QED
        BY <1>2, <1>4, <1>5, <2>1
<1>9. CommitsDue'
    BY <1>1 DEF Covered, CommitsDue
<1>10. PassedInHand(Now)'
    BY <1>2, <1>3 DEF Covered, PassedInHand
<1> QED
    BY <1>6, <1>7, <1>8, <1>9, <1>10 DEF Covered

(* A replica leaves, with its pool empty or by a crash that drops what its *)
(* commits had passed.                                                     *)
LEMMA LeaveCovered ==
    ASSUME TypeInv, NEW Dropped, NEW Passed, Covered(Dropped, Passed),
           NEW r \in Replicas, Leave(r), Settled' = Settled,
           jobs' = jobs \ JobsOf(r), fetched'[r] = 0,
           \A q \in Replicas : q # r => fetched'[q] = fetched[q],
           NEW Lose, NEW Now, \A q \in Replicas : q # r => Now[q] = Passed[q],
           Now[r] = {}, Lose = Dropped \cup Passed[r]
    PROVE  Covered(Lose, Now)'
<1>1. /\ UNCHANGED <<committed, position>>
      /\ owner' = [p \in Partitions |-> IF owner[p] = r THEN NoOwner ELSE owner[p]]
    BY DEF Leave
<1>2. /\ InHand(r)' = {}
      /\ \A q \in Replicas : q # r => InHand(q)' = InHand(q)
    <2>1. /\ JobsOf(r)' = {}
          /\ \A q \in Replicas : q # r => JobsOf(q)' = JobsOf(q)
        BY DEF JobsOf
    <2> QED
        BY <2>1 DEF InHand
<1>3. \A m \in Messages : AccountedFor(m, Dropped, Passed) => AccountedFor(m, Lose, Now)'
    BY DEF AccountedFor
<1>4. OffsetsCovered(Lose, Now)'
    BY <1>1, <1>3 DEF Covered, OffsetsCovered
<1>5. PositionsCovered(Lose, Now)'
    <2> SUFFICES ASSUME NEW m \in Messages,
                        owner'[Part[m]] # NoOwner, m <= position[Part[m]]
                 PROVE  \/ AccountedFor(m, Lose, Now)'
                        \/ m \in InHand(owner[Part[m]])'
                        \/ m = fetched'[owner'[Part[m]]]
        BY <1>1 DEF PositionsCovered
    <2>1. PICK q \in Replicas : q = owner[Part[m]] /\ q = owner'[Part[m]] /\ q # r
        BY <1>1, MessagesType DEF TypeInv, TypeOK, GroupTypeOK
    <2>2. AccountedFor(m, Dropped, Passed) \/ m \in InHand(q) \/ m = fetched[q]
        BY <2>1, GroupAssumption DEF Covered, PositionsCovered
    <2>3. m \in InHand(q)' => m \in InHand(owner[Part[m]])'
        BY <2>1 DEF InHand, JobsOf
    <2> QED
        BY <1>2, <1>3, <2>1, <2>2, <2>3
<1>6. ASSUME NEW q \in Replicas
      PROVE  HandsCovered(q, Lose, Now)'
    <2>1. CASE q = r
        BY <1>2, <2>1 DEF HandsCovered
    <2>2. CASE q # r
        BY <1>2, <1>3, <2>2 DEF Covered, HandsCovered
    <2> QED
        BY <2>1, <2>2
<1>7. CommitsDue'
    BY DEF Covered, CommitsDue
<1>8. PassedInHand(Now)'
    <2>1. Cardinality({}) = 0 /\ 0 <= PoolSize - 1
        BY FS_EmptySet, EngineAssumption
    <2> QED
        BY <1>2, <2>1 DEF Covered, PassedInHand
<1> QED
    BY <1>4, <1>5, <1>6, <1>7, <1>8 DEF Covered

LEMMA ExitCovered ==
    ASSUME TypeInv, NEW Dropped, NEW Passed \in [Replicas -> SUBSET Messages],
           Covered(Dropped, Passed), NEW r \in Replicas, Exit(r)
    PROVE  Covered(Dropped, Passed)'
<1>1. /\ Leave(r) /\ Settled' = Settled /\ JobsOf(r) = {}
      /\ UNCHANGED <<jobs, fetched>> /\ fetched[r] = 0
    BY OutcomeUnchanged DEF Exit, LeaveByStop
<1>2. Passed[r] = {}
    BY <1>1 DEF Covered, PassedInHand, InHand
<1>3. jobs' = jobs \ JobsOf(r) /\ Dropped = Dropped \cup Passed[r]
    BY <1>1, <1>2
<1> QED
    BY <1>1, <1>2, <1>3, LeaveCovered

LEMMA CrashCovered ==
    ASSUME TypeInv, NEW Dropped, NEW Passed \in [Replicas -> SUBSET Messages],
           Covered(Dropped, Passed), NEW r \in Replicas, Crash(r)
    PROVE  Covered(Dropped \cup Passed[r], [Passed EXCEPT ![r] = {}])'
<1> DEFINE Now == [Passed EXCEPT ![r] = {}]
           Lose == Dropped \cup Passed[r]
<1>1. /\ Leave(r) /\ Settled' = Settled /\ jobs' = jobs \ JobsOf(r)
      /\ fetched'[r] = 0
      /\ \A q \in Replicas : q # r => fetched'[q] = fetched[q]
    BY OutcomeUnchanged DEF Crash, LeaveByCrash, TypeInv, TypeOK
<1>2. Now[r] = {} /\ \A q \in Replicas : q # r => Now[q] = Passed[q]
    OBVIOUS
<1>3. Lose = Dropped \cup Passed[r]
    OBVIOUS
<1> HIDE DEF Now, Lose
<1>4. Covered(Lose, Now)'
    BY <1>1, <1>2, <1>3, LeaveCovered
<1> QED
    BY <1>4 DEF Lose, Now

(* A partition that is assigned is read from its committed offset. *)
LEMMA AssignCovered ==
    ASSUME TypeInv, NEW Dropped, NEW Passed, Covered(Dropped, Passed),
           NEW p \in Partitions, NEW r \in Replicas, Rebalance(p, r)
    PROVE  Covered(Dropped, Passed)'
<1>1. /\ UNCHANGED <<committed, jobs, fetched>> /\ Settled' = Settled
      /\ owner' = [owner EXCEPT ![p] = r]
      /\ position' = [position EXCEPT ![p] = committed[p]]
    BY OutcomeUnchanged DEF Rebalance, Assign, local
<1>2. \A q \in Replicas : InHand(q)' = InHand(q)
    BY <1>1 DEF InHand, JobsOf
<1>3. OffsetsCovered(Dropped, Passed)'
    BY <1>1 DEF Covered, OffsetsCovered, AccountedFor
<1>4. PositionsCovered(Dropped, Passed)'
    <2> SUFFICES ASSUME NEW m \in Messages,
                        owner'[Part[m]] # NoOwner, m <= position'[Part[m]]
                 PROVE  \/ AccountedFor(m, Dropped, Passed)'
                        \/ m \in InHand(owner[Part[m]])'
                        \/ m = fetched'[owner'[Part[m]]]
        BY DEF PositionsCovered
    <2>1. CASE Part[m] = p
        <3>1. position'[Part[m]] = committed[Part[m]]
            BY <1>1, <2>1, MessagesType DEF TypeInv, TypeOK, GroupTypeOK
        <3> QED
            BY <1>1, <3>1 DEF Covered, OffsetsCovered, AccountedFor
    <2>2. CASE Part[m] # p
        <3>1. owner'[Part[m]] = owner[Part[m]] /\ position'[Part[m]] = position[Part[m]]
            BY <1>1, <2>2, MessagesType DEF TypeInv, TypeOK, GroupTypeOK
        <3>2. PICK q \in Replicas : q = owner[Part[m]] /\ q = owner'[Part[m]]
            BY <3>1, MessagesType DEF TypeInv, TypeOK, GroupTypeOK
        <3>3. AccountedFor(m, Dropped, Passed) \/ m \in InHand(q) \/ m = fetched[q]
            BY <3>1, <3>2 DEF Covered, PositionsCovered
        <3>4. m \in InHand(q) => m \in InHand(owner[Part[m]])'
            BY <1>1, <3>2 DEF InHand, JobsOf
        <3> QED
            BY <1>1, <3>2, <3>3, <3>4 DEF AccountedFor
    <2> QED
        BY <2>1, <2>2
<1>5. ASSUME NEW q \in Replicas
      PROVE  HandsCovered(q, Dropped, Passed)'
    BY <1>1, <1>2 DEF Covered, HandsCovered, AccountedFor
<1>6. CommitsDue' /\ PassedInHand(Passed)'
    BY <1>1, <1>2 DEF Covered, CommitsDue, PassedInHand
<1> QED
    BY <1>3, <1>4, <1>5, <1>6 DEF Covered

-----------------------------------------------------------------------------
LEMMA RiskCallCovered ==
    ASSUME TypeInv, NEW Dropped, NEW Passed, Covered(Dropped, Passed),
           NEW j \in jobs, StartRiskCall(j) \/ EndRiskCall(j)
    PROVE  Covered(Dropped, Passed)'
<1>1. PICK s \in {"call", "publish"} : Advance(j, s)
    BY DEF StartRiskCall, EndRiskCall
<1>2. /\ \A r \in Replicas : InHand(r)' = InHand(r)
      /\ \A i \in jobs' : i \in jobs \/ (i.stage = s /\ i.msg = j.msg)
    BY <1>1, AdvanceHands DEF Stages
<1>3. /\ UNCHANGED <<committed, position, owner, fetched>>
      /\ Settled' = Settled
    BY OutcomeUnchanged DEF StartRiskCall, EndRiskCall, groupVars
<1>4. CommitsDue'
    BY <1>1, <1>2, <1>3 DEF Covered, CommitsDue
<1> QED
    BY <1>2, <1>3, <1>4, SameHandsCovered

(* The write of a result settles its message, whatever its outcome. *)
LEMMA PublishCovered ==
    ASSUME TypeInv, NEW Dropped, NEW Passed, Covered(Dropped, Passed),
           NEW j \in jobs, PublishSucceeds(j) \/ PublishFails(j)
    PROVE  /\ Covered(Dropped, Passed)'
           /\ Settled \subseteq Settled'
<1>1. /\ UNCHANGED <<committed, position, owner, fetched>>
      /\ Advance(j, "commit")
    BY DEF PublishSucceeds, PublishFails, groupVars
<1>2. /\ \A r \in Replicas : InHand(r)' = InHand(r)
      /\ \A i \in jobs' : i \in jobs \/ (i.stage = "commit" /\ i.msg = j.msg)
    BY <1>1, AdvanceHands DEF Stages
<1>3. j.msg \in Messages /\ published \in [Messages -> Nat]
    BY OneMoreResult DEF TypeInv, TypeOK
<1>4. \A m \in Messages : published[m] > 0 => published'[m] > 0
    BY <1>3 DEF PublishSucceeds, PublishFails
<1>5. failed \subseteq failed'
    BY DEF PublishSucceeds, PublishFails
<1>6. Settled \subseteq Settled'
    BY <1>4, <1>5 DEF Settled, Published
<1>7. j.msg \in Settled'
    <2>1. CASE PublishSucceeds(j)
        BY <1>3, <2>1 DEF PublishSucceeds, Settled, Published
    <2>2. CASE PublishFails(j)
        BY <2>2 DEF PublishFails, Settled
    <2> QED
        BY <2>1, <2>2
<1>8. CommitsDue'
    BY <1>2, <1>6, <1>7 DEF Covered, CommitsDue
<1> QED
    BY <1>1, <1>2, <1>6, <1>8, SameHandsCovered

LEMMA StopCovered ==
    ASSUME TypeInv, NEW Dropped, NEW Passed, Covered(Dropped, Passed),
           NEW r \in Replicas, Stop(r)
    PROVE  Covered(Dropped, Passed)'
<1>1. /\ UNCHANGED <<committed, position, owner, fetched, jobs>>
      /\ Settled' = Settled
    BY OutcomeUnchanged DEF Stop, ToldToStop
<1>2. \A q \in Replicas : InHand(q)' = InHand(q)
    BY <1>1 DEF InHand, JobsOf
<1>3. CommitsDue'
    BY <1>1 DEF Covered, CommitsDue
<1> QED
    BY <1>1, <1>2, <1>3, SameHandsCovered

LEMMA InitAccounted == Init => Accounted
<1> SUFFICES ASSUME Init PROVE Accounted
    OBVIOUS
<1> DEFINE Passed == [r \in Replicas |-> {}]
<1>1. DroppedByCrashes({})
    <2>1. PoolSize - 1 \in Nat /\ (PoolSize - 1) * 0 = 0
        BY EngineAssumption
    <2> QED
        BY <2>1, FS_EmptySet DEF DroppedByCrashes, Init, GroupInit
<1>2. /\ Passed \in [Replicas -> SUBSET Messages]
      /\ \A r \in Replicas : Passed[r] = {}
    OBVIOUS
<1> HIDE DEF Passed
<1>3. PassedInHand(Passed)
    BY <1>2, FS_EmptySet, EngineAssumption DEF PassedInHand
<1>4. OffsetsCovered({}, Passed) /\ PositionsCovered({}, Passed)
    BY MessagesType DEF Init, GroupInit, OffsetsCovered, PositionsCovered, Messages
<1>5. \A r \in Replicas : HandsCovered(r, {}, Passed)
    BY DEF Init, HandsCovered, InHand, JobsOf
<1>6. CommitsDue
    BY DEF Init, CommitsDue
<1>7. Covered({}, Passed)
    BY <1>3, <1>4, <1>5, <1>6 DEF Covered
<1> QED
    BY <1>1, <1>2, <1>7 DEF Accounted

LEMMA StepAccounted == TypeInv /\ Accounted /\ [Next]_vars => Accounted'
<1> SUFFICES ASSUME TypeInv, Accounted, [Next]_vars
             PROVE  Accounted'
    OBVIOUS
<1>0. PICK Dropped : \E Passed \in [Replicas -> SUBSET Messages] :
          DroppedByCrashes(Dropped) /\ Covered(Dropped, Passed)
    BY DEF Accounted
<1>1. PICK Passed \in [Replicas -> SUBSET Messages] :
          DroppedByCrashes(Dropped) /\ Covered(Dropped, Passed)
    BY <1>0
<1>2. ASSUME NEW r \in Replicas, Crash(r)
      PROVE  Accounted'
    <2>1. Covered(Dropped \cup Passed[r], [Passed EXCEPT ![r] = {}])'
        BY <1>1, <1>2, CrashCovered
    <2>2. Passed[r] \in SUBSET Messages /\ Cardinality(Passed[r]) <= PoolSize - 1
        BY <1>1 DEF Covered, PassedInHand
    <2>3. crashes \in Nat /\ crashes' = crashes + 1 /\ PoolSize - 1 \in Nat
        BY <1>2, EngineAssumption, GroupAssumption
        DEF Crash, LeaveByCrash, TypeInv, TypeOK, GroupTypeOK
    <2>4. Cardinality(Dropped \cup Passed[r]) <= (PoolSize - 1) * (crashes + 1)
        BY <1>1, <2>2, <2>3, CrashPays DEF DroppedByCrashes
    <2>5. DroppedByCrashes(Dropped \cup Passed[r])'
        BY <1>1, <2>2, <2>3, <2>4 DEF DroppedByCrashes
    <2>6. [Passed EXCEPT ![r] = {}] \in [Replicas -> SUBSET Messages]
        BY <1>1
    <2> QED
        BY <2>1, <2>5, <2>6 DEF Accounted
<1>3. ASSUME crashes' = crashes,
             NEW Now \in [Replicas -> SUBSET Messages], Covered(Dropped, Now)'
      PROVE  Accounted'
    BY <1>1, <1>3 DEF Accounted, DroppedByCrashes
<1>4. ASSUME NEW r \in Replicas, Fetch(r) \/ Dispatch(r)
      PROVE  Accounted'
    BY <1>1, <1>3, <1>4, FetchCovered, DispatchCovered
    DEF Fetch, Dispatch, Deliver, groupVars
<1>5. ASSUME NEW j \in jobs, StartRiskCall(j) \/ EndRiskCall(j)
      PROVE  Accounted'
    BY <1>1, <1>3, <1>5, RiskCallCovered DEF StartRiskCall, EndRiskCall, groupVars
<1>6. ASSUME NEW j \in jobs, PublishSucceeds(j) \/ PublishFails(j)
      PROVE  Accounted'
    BY <1>1, <1>3, <1>6, PublishCovered DEF PublishSucceeds, PublishFails, groupVars
<1>7. ASSUME NEW j \in jobs, Commit(j)
      PROVE  Accounted'
    <2>1. PICK r \in Replicas : r = j.rep
        BY HandsType
    <2>2. PICK Left : Left = InHand(r)'
        OBVIOUS
    <2>3. Left \in SUBSET Messages
        BY <1>7, <2>1, <2>2, CommitHands
    <2>4. PICK Now \in [Replicas -> SUBSET Messages] : Now = [Passed EXCEPT ![r] = Left]
        BY <1>1, <2>3
    <2>5. Covered(Dropped, Now)'
        BY <1>1, <1>7, <2>1, <2>2, <2>4, CommitCovered
    <2> QED
        BY <1>3, <1>7, <2>5 DEF Commit, CommitMessages
<1>8. ASSUME NEW r \in Replicas, Exit(r)
      PROVE  Accounted'
    BY <1>1, <1>3, <1>8, ExitCovered DEF Exit, LeaveByStop
<1>9. ASSUME NEW r \in Replicas, Stop(r)
      PROVE  Accounted'
    BY <1>1, <1>3, <1>9, StopCovered DEF Stop, ToldToStop
<1>10. ASSUME NEW p \in Partitions, NEW r \in Replicas, Rebalance(p, r)
       PROVE  Accounted'
    BY <1>1, <1>3, <1>10, AssignCovered DEF Rebalance, Assign
<1>11. CASE UNCHANGED vars
    <2>1. Accounted' = Accounted
        BY <1>11 DEF vars, groupVars, local, outcome, Accounted, DroppedByCrashes, Covered,
            OffsetsCovered, PositionsCovered, HandsCovered, CommitsDue, PassedInHand,
            AccountedFor, InHand, JobsOf, Settled, Published
    <2> QED
        BY <2>1
<1> QED
    BY <1>2, <1>4, <1>5, <1>6, <1>7, <1>8, <1>9, <1>10, <1>11 DEF Next, Work

LEMMA AlwaysAccounted == Safety => [](TypeInv /\ Accounted)
BY InitType, StepType, InitAccounted, StepAccounted, PTL DEF Safety

-----------------------------------------------------------------------------
(* What is lost was dropped by a crash: the rest is in some pool. *)
LEMMA LostWereDropped ==
    ASSUME TypeInv, NEW Dropped, NEW Passed \in [Replicas -> SUBSET Messages],
           Covered(Dropped, Passed)
    PROVE  Lost \subseteq Dropped
<1> SUFFICES ASSUME NEW m \in Lost
             PROVE  m \in Dropped
    OBVIOUS
<1>1. /\ m \in Messages /\ m <= committed[Part[m]]
      /\ m \notin Settled
      /\ \A r \in Replicas : m \notin InHand(r)
    BY DEF Lost, Behind, Held, InHand, JobsOf
<1>2. AccountedFor(m, Dropped, Passed)
    BY <1>1 DEF Covered, OffsetsCovered
<1>3. \A r \in Replicas : Passed[r] \subseteq InHand(r)
    BY DEF Covered, PassedInHand
<1> QED
    BY <1>1, <1>2, <1>3 DEF AccountedFor

LEMMA LossWithinBound == TypeInv /\ Accounted => Contract!LossBound
<1> SUFFICES ASSUME TypeInv, Accounted
             PROVE  Contract!LossBound
    OBVIOUS
<1>0. PICK Dropped : \E Passed \in [Replicas -> SUBSET Messages] :
          DroppedByCrashes(Dropped) /\ Covered(Dropped, Passed)
    BY DEF Accounted
<1>1. PICK Passed \in [Replicas -> SUBSET Messages] :
          DroppedByCrashes(Dropped) /\ Covered(Dropped, Passed)
    BY <1>0
<1>2. Dropped \in SUBSET Messages /\ IsFiniteSet(Dropped)
    BY <1>1, MessagesFinite, FS_Subset DEF DroppedByCrashes
<1>3. Lost \in SUBSET Dropped
    BY <1>1, LostWereDropped
<1>4. Cardinality(Lost) <= Cardinality(Dropped) /\ IsFiniteSet(Lost)
    BY <1>2, <1>3, FS_Subset
<1>5. Cardinality(Lost) \in Nat /\ Cardinality(Dropped) \in Nat
    BY <1>2, <1>4, FS_CardinalityType
<1>6. Cardinality(Dropped) <= (PoolSize - 1) * crashes
    BY <1>1 DEF DroppedByCrashes
<1>7. (PoolSize - 1) * crashes \in Nat
    BY EngineAssumption, GroupAssumption DEF TypeInv, TypeOK, GroupTypeOK
<1>8. Contract!Cardinality(Lost) = Cardinality(Lost)
    BY DEF Contract!Cardinality, Cardinality
<1> QED
    BY <1>4, <1>5, <1>6, <1>7, <1>8 DEF Contract!LossBound

LEMMA InitRefines == Init => Contract!Init
<1> SUFFICES ASSUME Init PROVE Contract!Init
    OBVIOUS
<1>1. Settled = {} /\ crashes = 0
    BY DEF Init, GroupInit, Settled, Published
<1>2. Lost = {}
    BY MessagesType DEF Init, GroupInit, Lost, Behind, Messages
<1> QED
    BY <1>1, <1>2 DEF Contract!Init

LEMMA StepRefines ==
    TypeInv /\ TypeInv' /\ Accounted /\ Accounted' /\ [Next]_vars
        => [Contract!Next]_(Contract!vars)
<1> SUFFICES ASSUME TypeInv, TypeInv', Accounted, Accounted', [Next]_vars
             PROVE  Contract!Next \/ UNCHANGED Contract!vars
    OBVIOUS
<1>1. Contract!LossBound'
    <2>1. TypeInv' /\ Accounted' => Contract!LossBound'
        BY LossWithinBound, PTL
    <2> QED
        BY <2>1
<1>2. Settled' \subseteq Messages /\ Lost' \subseteq Messages \ Settled'
    BY DEF TypeInv, TypeOK, Settled, Published, Lost, Behind
<1>3. ASSUME Settled \subseteq Settled', crashes' = crashes
      PROVE  Contract!Next
    BY <1>1, <1>2, <1>3 DEF Contract!Next, Contract!Resolve
<1>4. ASSUME NEW r \in Replicas, Crash(r)
      PROVE  Contract!Next
    <2>1. Settled' = Settled /\ crashes' = crashes + 1
        BY <1>4, OutcomeUnchanged DEF Crash, LeaveByCrash
    <2> QED
        BY <1>1, <1>2, <2>1 DEF Contract!Next, Contract!Crash
<1>5. ASSUME UNCHANGED outcome, crashes' = crashes
      PROVE  Contract!Next
    BY <1>3, <1>5, OutcomeUnchanged
<1>6. ASSUME NEW j \in jobs, PublishSucceeds(j) \/ PublishFails(j)
      PROVE  Contract!Next
    <2>1. Settled \subseteq Settled'
        BY <1>6, PublishCovered DEF Accounted
    <2> QED
        BY <1>3, <1>6, <2>1 DEF PublishSucceeds, PublishFails, groupVars
<1>7. ASSUME NEW r \in Replicas, Dispatch(r)
      PROVE  Contract!Next
    <2>1. Settled \subseteq Settled'
        BY <1>7 DEF Dispatch, Settled, Published
    <2> QED
        BY <1>3, <1>7, <2>1 DEF Dispatch, groupVars
<1>8. ASSUME NEW j \in jobs, StartRiskCall(j) \/ EndRiskCall(j) \/ Commit(j)
      PROVE  Contract!Next
    BY <1>5, <1>8 DEF StartRiskCall, EndRiskCall, Commit, CommitMessages, groupVars
<1>9. ASSUME NEW r \in Replicas, Fetch(r) \/ Stop(r) \/ Exit(r)
      PROVE  Contract!Next
    BY <1>5, <1>9 DEF Fetch, Deliver, Stop, ToldToStop, Exit, LeaveByStop
<1>10. ASSUME NEW p \in Partitions, NEW r \in Replicas, Rebalance(p, r)
       PROVE  Contract!Next
    BY <1>5, <1>10 DEF Rebalance, Assign
<1>11. CASE UNCHANGED vars
    BY <1>5, <1>11 DEF vars, groupVars
<1> QED
    BY <1>4, <1>6, <1>7, <1>8, <1>9, <1>10, <1>11 DEF Next, Work

(* The fraud engine implements the safety part of the contract with a      *)
(* window of PoolSize - 1, whatever the order in which the goroutines of a *)
(* replica commit: a crash makes at most what the other goroutines had in  *)
(* hand unreachable, and nothing else makes any.                           *)
THEOREM LossesNeedCrashes == Safety => LosesOnlyToCrashes
BY AlwaysAccounted, InitRefines, StepRefines, PTL
   DEF Safety, LosesOnlyToCrashes, Contract!Safety
-----------------------------------------------------------------------------
(* The inductive invariant of the bound on writes.  Whoever will still     *)
(* write the result of m counts as a write: a goroutine that has not done  *)
(* it yet, a replica with m waiting for the pool, the partition that will  *)
(* deliver m.  A replica told to stop has its move counted already.        *)
Holders == {r \in Replicas : fetched[r] # 0}
Writers(m) == {j \in jobs : j.msg = m /\ j.stage # "commit"}
Waiters(m) == {r \in Replicas : fetched[r] = m}

HoldersFinite == IsFiniteSet(stopping) /\ IsFiniteSet(Holders)

WritesPending(m) ==
    published[m] + Cardinality(Writers(m)) + Cardinality(Waiters(m)) + Unread(m)
        + Cardinality(stopping) <= 1 + crashes + moves

WritesCounted == HoldersFinite /\ \A m \in Messages : WritesPending(m)

LEMMA CountsType ==
    ASSUME TypeInv, HoldersFinite, NEW m \in Messages
    PROVE  /\ IsFiniteSet(Writers(m)) /\ Cardinality(Writers(m)) \in Nat
           /\ IsFiniteSet(Waiters(m)) /\ Cardinality(Waiters(m)) \in Nat
           /\ Unread(m) \in {0, 1} /\ Cardinality(stopping) \in Nat
           /\ published[m] \in Nat /\ crashes \in Nat /\ moves \in Nat
<1>1. Writers(m) \subseteq jobs /\ Waiters(m) \subseteq Holders
    BY DEF Writers, Waiters, Holders, Messages
<1>2. /\ IsFiniteSet(Writers(m)) /\ Cardinality(Writers(m)) \in Nat
      /\ IsFiniteSet(Waiters(m)) /\ Cardinality(Waiters(m)) \in Nat
    BY <1>1, FewerRemain DEF TypeInv, HoldersFinite
<1>3. Cardinality(stopping) \in Nat
    BY FS_CardinalityType DEF HoldersFinite
<1>4. published[m] \in Nat /\ crashes \in Nat /\ moves \in Nat
    BY GroupAssumption DEF TypeInv, TypeOK, GroupTypeOK
<1> QED
    BY <1>2, <1>3, <1>4 DEF Unread

(* Only one replica takes a message, or is told to stop, in a step. *)
LEMMA HoldersStayFinite ==
    ASSUME HoldersFinite, NEW r \in Replicas, stopping' \subseteq stopping \cup {r},
           \A q \in Replicas : q # r => fetched'[q] \in {0, fetched[q]}
    PROVE  HoldersFinite'
<1>1. Holders' \subseteq Holders \cup {r}
    BY DEF Holders
<1> QED
    BY <1>1, AtMostOneMore DEF HoldersFinite

(* Steps of a goroutine and of the group leave them as they are. *)
LEMMA HoldersUnchanged ==
    ASSUME HoldersFinite, UNCHANGED <<fetched, stopping>>
    PROVE  HoldersFinite' /\ \A m \in Messages : Waiters(m)' = Waiters(m)
BY DEF HoldersFinite, Holders, Waiters

LEMMA FetchCounted ==
    ASSUME TypeInv, TypeInv', WritesCounted, NEW r \in Replicas, Fetch(r)
    PROVE  WritesCounted'
<1>1. PICK k \in Messages : Deliver(r, k) /\ fetched' = [fetched EXCEPT ![r] = k]
    BY DEF Fetch
<1>2. /\ fetched[r] = 0 /\ fetched'[r] = k
      /\ \A q \in Replicas : q # r => fetched'[q] = fetched[q]
      /\ UNCHANGED <<jobs, stopping, published, crashes, moves, owner>>
      /\ position' = [position EXCEPT ![Part[k]] = k]
      /\ owner[Part[k]] = r /\ r # NoOwner /\ position[Part[k]] < k
    BY <1>1, GroupAssumption DEF Fetch, Deliver, outcome, TypeInv, TypeOK
<1>3. HoldersFinite'
    BY <1>2, HoldersStayFinite DEF WritesCounted
<1>4. ASSUME NEW m \in Messages
      PROVE  WritesPending(m)'
    <2>1. Writers(m)' = Writers(m)
        BY <1>2 DEF Writers
    <2>2. /\ IsFiniteSet(Writers(m)) /\ Cardinality(Writers(m)) \in Nat
          /\ IsFiniteSet(Waiters(m)) /\ Cardinality(Waiters(m)) \in Nat
          /\ Unread(m) \in {0, 1} /\ Cardinality(stopping) \in Nat
          /\ published[m] \in Nat /\ crashes \in Nat /\ moves \in Nat
        BY CountsType DEF WritesCounted
    <2>3. WritesPending(m)
        BY DEF WritesCounted
    <2>4. CASE m = k
        <3>1. Unread(m) = 1 /\ Unread(m)' = 0
            BY <1>1, <2>4, DeliverUnread DEF TypeInv, TypeOK
        <3>3. Waiters(m)' \subseteq Waiters(m) \cup {r}
            BY <1>2 DEF Waiters
        <3>4. /\ Cardinality(Waiters(m)') <= Cardinality(Waiters(m)) + 1
              /\ Cardinality(Waiters(m)') \in Nat
            BY <2>2, <3>3, AtMostOneMore, FS_CardinalityType
        <3> QED
            BY <1>2, <2>1, <2>2, <2>3, <3>1, <3>4 DEF WritesPending
    <2>5. CASE m # k
        <3>1. Waiters(m)' = Waiters(m)
            BY <1>2, <2>5 DEF Waiters, Messages
        <3>2. Unread(m)' <= Unread(m) /\ Unread(m)' \in {0, 1}
            BY <1>1, <2>5, DeliverUnread DEF TypeInv, TypeOK
        <3> QED
            BY <1>2, <2>1, <2>2, <2>3, <3>1, <3>2 DEF WritesPending
    <2> QED
        BY <2>4, <2>5
<1> QED
    BY <1>3, <1>4 DEF WritesCounted

LEMMA DispatchCounted ==
    ASSUME TypeInv, TypeInv', WritesCounted, NEW r \in Replicas, Dispatch(r)
    PROVE  WritesCounted'
<1>1. PICK s \in {"wait", "commit"} :
          jobs' = jobs \cup {[rep |-> r, msg |-> fetched[r],
                              gen |-> crashes + moves, stage |-> s]}
    BY DEF Dispatch
<1> DEFINE i == [rep |-> r, msg |-> fetched[r], gen |-> crashes + moves, stage |-> s]
<1>2. i.msg = fetched[r] /\ jobs' = jobs \cup {i}
    BY <1>1
<1> HIDE DEF i
<1>3. /\ UNCHANGED <<stopping, published, crashes, moves, owner, position>>
      /\ fetched[r] # 0 /\ fetched'[r] = 0
      /\ \A q \in Replicas : q # r => fetched'[q] = fetched[q]
    BY DEF Dispatch, groupVars, TypeInv, TypeOK
<1>4. HoldersFinite'
    BY <1>3, HoldersStayFinite DEF WritesCounted
<1>5. ASSUME NEW m \in Messages
      PROVE  WritesPending(m)'
    <2>1. Unread(m)' = Unread(m)
        BY <1>3 DEF Unread
    <2>2. /\ IsFiniteSet(Writers(m)) /\ Cardinality(Writers(m)) \in Nat
          /\ IsFiniteSet(Waiters(m)) /\ Cardinality(Waiters(m)) \in Nat
          /\ Unread(m) \in {0, 1} /\ Cardinality(stopping) \in Nat
          /\ published[m] \in Nat /\ crashes \in Nat /\ moves \in Nat
        BY CountsType DEF WritesCounted
    <2>3. WritesPending(m)
        BY DEF WritesCounted
    <2>4. CASE m = fetched[r]
        <3>1. Writers(m)' \subseteq Writers(m) \cup {i}
            BY <1>2 DEF Writers
        <3>2. /\ Cardinality(Writers(m)') <= Cardinality(Writers(m)) + 1
              /\ Cardinality(Writers(m)') \in Nat
            BY <2>2, <3>1, AtMostOneMore, FS_CardinalityType
        <3>3. r \in Waiters(m) /\ Waiters(m)' = Waiters(m) \ {r}
            BY <1>3, <2>4 DEF Waiters
        <3>4. Cardinality(Waiters(m)') = Cardinality(Waiters(m)) - 1
            BY <2>2, <3>3, FS_RemoveElement
        <3> QED
            BY <1>3, <2>1, <2>2, <2>3, <3>2, <3>4 DEF WritesPending
    <2>5. CASE m # fetched[r]
        <3>1. Writers(m)' = Writers(m)
            BY <1>2, <2>5 DEF Writers
        <3>2. Waiters(m)' = Waiters(m)
            BY <1>3, <2>5 DEF Waiters, Messages
        <3> QED
            BY <1>3, <2>1, <2>2, <2>3, <3>1, <3>2 DEF WritesPending
    <2> QED
        BY <2>4, <2>5
<1> QED
    BY <1>4, <1>5 DEF WritesCounted

(* A goroutine that goes on keeps its place among the writers, and gives   *)
(* it up with its write, or when it ends without one.                      *)
LEMMA WorkCounted ==
    ASSUME TypeInv, TypeInv', WritesCounted, NEW j \in jobs, Work(j)
    PROVE  WritesCounted'
<1>1. /\ UNCHANGED <<fetched, stopping, crashes, moves, owner, position>>
    BY DEF Work, StartRiskCall, EndRiskCall, PublishSucceeds, PublishFails, Commit,
           CommitMessages, groupVars
<1>2. HoldersFinite' /\ \A m \in Messages : Waiters(m)' = Waiters(m)
    BY <1>1, HoldersUnchanged DEF WritesCounted
<1>3. j \in Job /\ j.msg \in Messages /\ published \in [Messages -> Nat]
    BY OneMoreResult DEF TypeInv, TypeOK
<1>4. ASSUME NEW m \in Messages
      PROVE  WritesPending(m)'
    <2>1. Unread(m)' = Unread(m)
        BY <1>1 DEF Unread
    <2>2. /\ IsFiniteSet(Writers(m)) /\ Cardinality(Writers(m)) \in Nat
          /\ IsFiniteSet(Waiters(m)) /\ Cardinality(Waiters(m)) \in Nat
          /\ Unread(m) \in {0, 1} /\ Cardinality(stopping) \in Nat
          /\ published[m] \in Nat /\ crashes \in Nat /\ moves \in Nat
        BY CountsType DEF WritesCounted
    <2>3. WritesPending(m)
        BY DEF WritesCounted
    <2>4. ASSUME published'[m] \in Nat, Cardinality(Writers(m)') \in Nat,
                 published'[m] + Cardinality(Writers(m)')
                     <= published[m] + Cardinality(Writers(m))
          PROVE  WritesPending(m)'
        BY <1>1, <1>2, <2>1, <2>2, <2>3, <2>4 DEF WritesPending
    <2>5. ASSUME NEW s \in {"call", "publish"}, Advance(j, s), j.stage # "commit",
                 published' = published
          PROVE  WritesPending(m)'
        <3> DEFINE i == [j EXCEPT !.stage = s]
        <3>1. i.msg = j.msg /\ jobs' = (jobs \ {j}) \cup {i}
            BY <1>3, <2>5, AdvancedJob DEF Advance, Stages
        <3> HIDE DEF i
        <3>2. CASE j.msg = m
            <4>1. Writers(m)' \subseteq (Writers(m) \ {j}) \cup {i} /\ j \in Writers(m)
                BY <2>5, <3>1, <3>2 DEF Writers
            <4>2. /\ IsFiniteSet((Writers(m) \ {j}) \cup {i})
                  /\ Cardinality((Writers(m) \ {j}) \cup {i}) <= Cardinality(Writers(m))
                BY <2>2, <4>1, ReplaceOne
            <4>3. /\ Cardinality(Writers(m)') <= Cardinality((Writers(m) \ {j}) \cup {i})
                  /\ Cardinality(Writers(m)') \in Nat
                BY <4>1, <4>2, FewerRemain
            <4>4. Cardinality((Writers(m) \ {j}) \cup {i}) \in Nat
                BY <4>2, FS_CardinalityType
            <4> QED
                BY <2>2, <2>4, <2>5, <4>2, <4>3, <4>4
        <3>3. CASE j.msg # m
            <4>1. Writers(m)' = Writers(m)
                BY <3>1, <3>3 DEF Writers
            <4> QED
                BY <2>2, <2>4, <2>5, <4>1
        <3> QED
            BY <3>2, <3>3
    <2>6. ASSUME PublishSucceeds(j) \/ PublishFails(j)
          PROVE  WritesPending(m)'
        <3> DEFINE i == [j EXCEPT !.stage = "commit"]
        <3>1. /\ i.msg = j.msg /\ i.stage = "commit" /\ jobs' = (jobs \ {j}) \cup {i}
              /\ j.stage = "publish"
            BY <1>3, <2>6, AdvancedJob DEF PublishSucceeds, PublishFails, Advance, Stages
        <3> HIDE DEF i
        <3>2. published' = published \/ published' = [published EXCEPT ![j.msg] = @ + 1]
            BY <2>6 DEF PublishSucceeds, PublishFails
        <3>3. CASE j.msg = m
            <4>1. Writers(m)' = Writers(m) \ {j} /\ j \in Writers(m)
                BY <3>1, <3>3 DEF Writers
            <4>2. Cardinality(Writers(m)') = Cardinality(Writers(m)) - 1
                BY <2>2, <4>1, FS_RemoveElement
            <4>3. /\ Cardinality(Writers(m)') \in Nat
                BY <2>2, <4>1, FewerRemain
            <4>4. published'[m] \in {published[m], published[m] + 1}
                BY <1>3, <3>2, <3>3
            <4> QED
                BY <2>2, <2>4, <4>2, <4>3, <4>4
        <3>4. CASE j.msg # m
            <4>1. Writers(m)' = Writers(m) /\ published'[m] = published[m]
                BY <1>3, <3>1, <3>2, <3>4 DEF Writers
            <4> QED
                BY <2>2, <2>4, <4>1
        <3> QED
            BY <3>3, <3>4
    <2>7. ASSUME Commit(j)
          PROVE  WritesPending(m)'
        <3>1. Writers(m)' \subseteq Writers(m) /\ published' = published
            BY <2>7 DEF Commit, Writers, outcome
        <3>2. /\ Cardinality(Writers(m)') <= Cardinality(Writers(m))
              /\ Cardinality(Writers(m)') \in Nat
            BY <2>2, <3>1, FewerRemain
        <3> QED
            BY <2>2, <2>4, <3>1, <3>2
    <2>8. ASSUME StartRiskCall(j) \/ EndRiskCall(j)
          PROVE  WritesPending(m)'
        BY <2>5, <2>8 DEF StartRiskCall, EndRiskCall, outcome
    <2> QED
        BY <2>6, <2>7, <2>8 DEF Work
<1> QED
    BY <1>2, <1>4 DEF WritesCounted

(* A replica told to stop has paid for the partitions it will give up. *)
LEMMA StopCounted ==
    ASSUME TypeInv, TypeInv', WritesCounted, NEW r \in Replicas, Stop(r)
    PROVE  WritesCounted'
<1>1. /\ UNCHANGED <<fetched, jobs, published, crashes, owner, position>>
      /\ moves' = moves + 1 /\ stopping' = stopping \cup {r}
    BY DEF Stop, ToldToStop, outcome
<1>2. HoldersFinite'
    BY <1>1, HoldersStayFinite DEF WritesCounted
<1>3. ASSUME NEW m \in Messages
      PROVE  WritesPending(m)'
    <2>1. Unread(m)' = Unread(m) /\ Writers(m)' = Writers(m) /\ Waiters(m)' = Waiters(m)
        BY <1>1 DEF Unread, Writers, Waiters
    <2>2. /\ Cardinality(Writers(m)) \in Nat /\ Cardinality(Waiters(m)) \in Nat
          /\ Unread(m) \in {0, 1} /\ Cardinality(stopping) \in Nat
          /\ published[m] \in Nat /\ crashes \in Nat /\ moves \in Nat
        BY CountsType DEF WritesCounted
    <2>3. Cardinality(stopping') <= Cardinality(stopping) + 1
        BY <1>1, AtMostOneMore DEF WritesCounted, HoldersFinite
    <2>4. Cardinality(stopping') \in Nat
        BY <1>2, FS_CardinalityType DEF HoldersFinite
    <2> QED
        BY <1>1, <2>1, <2>2, <2>3, <2>4 DEF WritesPending, WritesCounted
<1> QED
    BY <1>2, <1>3 DEF WritesCounted

(* What a replica had in hand, or was to hand out, is delivered once more, *)
(* and the crash or the stop that causes it is counted.                    *)
LEMMA LeaveCounted ==
    ASSUME TypeInv, TypeInv', WritesCounted, NEW r \in Replicas, Exit(r) \/ Crash(r)
    PROVE  WritesCounted'
<1>1. /\ published' = published /\ moves' = moves /\ stopping' = stopping \ {r}
      /\ jobs' \subseteq jobs
      /\ \A q \in Replicas : fetched'[q] \in {0, fetched[q]}
    BY DEF Exit, Crash, LeaveByStop, LeaveByCrash, outcome, TypeInv, TypeOK
<1>2. HoldersFinite'
    BY <1>1, HoldersStayFinite DEF WritesCounted
<1>3. Cardinality(stopping') + 1 <= Cardinality(stopping) + crashes' - crashes
    <2>1. IsFiniteSet(stopping) /\ Cardinality(stopping) \in Nat /\ crashes \in Nat
        BY FS_CardinalityType, GroupAssumption
        DEF WritesCounted, HoldersFinite, TypeInv, TypeOK, GroupTypeOK
    <2>2. CASE Exit(r)
        <3>1. r \in stopping /\ crashes' = crashes
            BY <2>2 DEF Exit, LeaveByStop
        <3>2. Cardinality(stopping') = Cardinality(stopping) - 1
            BY <1>1, <2>1, <3>1, FS_RemoveElement
        <3> QED
            BY <2>1, <3>1, <3>2
    <2>3. CASE Crash(r)
        <3>1. crashes' = crashes + 1
            BY <2>3 DEF Crash, LeaveByCrash
        <3>2. Cardinality(stopping') <= Cardinality(stopping) /\ Cardinality(stopping') \in Nat
            BY <1>1, <2>1, FewerRemain
        <3> QED
            BY <2>1, <3>1, <3>2
    <2> QED
        BY <2>2, <2>3
<1>4. ASSUME NEW m \in Messages
      PROVE  WritesPending(m)'
    <2>1. Writers(m)' \subseteq Writers(m) /\ Waiters(m)' \subseteq Waiters(m)
        BY <1>1 DEF Writers, Waiters, Messages
    <2>2. /\ IsFiniteSet(Writers(m)) /\ Cardinality(Writers(m)) \in Nat
          /\ IsFiniteSet(Waiters(m)) /\ Cardinality(Waiters(m)) \in Nat
          /\ Unread(m) \in {0, 1} /\ Cardinality(stopping) \in Nat
          /\ published[m] \in Nat /\ crashes \in Nat /\ moves \in Nat
        BY CountsType DEF WritesCounted
    <2>3. /\ Cardinality(Writers(m)') <= Cardinality(Writers(m))
          /\ Cardinality(Writers(m)') \in Nat
          /\ Cardinality(Waiters(m)') <= Cardinality(Waiters(m))
          /\ Cardinality(Waiters(m)') \in Nat
        BY <2>1, <2>2, FewerRemain
    <2>4. Unread(m)' \in {0, 1} /\ Unread(m)' <= Unread(m) + 1
        BY <2>2 DEF Unread
    <2>5. Cardinality(stopping') \in Nat /\ crashes' \in Nat
        BY <1>2, FS_CardinalityType, GroupAssumption
        DEF HoldersFinite, TypeInv, TypeOK, GroupTypeOK
    <2>6. WritesPending(m)
        BY DEF WritesCounted
    <2> QED
        BY <1>1, <1>3, <2>2, <2>3, <2>4, <2>5, <2>6 DEF WritesPending
<1> QED
    BY <1>2, <1>4 DEF WritesCounted

(* A rebalance that rewinds a position is counted; the first assignment of *)
(* a partition rewinds nothing that was not due.                           *)
LEMMA AssignCounted ==
    ASSUME TypeInv, TypeInv', WritesCounted,
           NEW p \in Partitions, NEW r \in Replicas, Rebalance(p, r)
    PROVE  WritesCounted'
<1>1. /\ UNCHANGED <<fetched, jobs, stopping, published, crashes>>
      /\ moves' \in {moves, moves + 1}
    BY DEF Rebalance, Assign, local, outcome
<1>2. HoldersFinite' /\ \A m \in Messages : Waiters(m)' = Waiters(m)
    BY <1>1, HoldersUnchanged DEF WritesCounted
<1>3. ASSUME NEW m \in Messages
      PROVE  WritesPending(m)'
    <2>1. Writers(m)' = Writers(m)
        BY <1>1 DEF Writers
    <2>2. /\ Cardinality(Writers(m)) \in Nat /\ Cardinality(Waiters(m)) \in Nat
          /\ Unread(m) \in {0, 1} /\ Cardinality(stopping) \in Nat
          /\ published[m] \in Nat /\ crashes \in Nat /\ moves \in Nat
        BY CountsType DEF WritesCounted
    <2>3. Unread(m)' \in {0, 1} /\ Unread(m)' <= Unread(m) + moves' - moves
        BY AssignUnread DEF Rebalance, TypeInv, TypeOK
    <2>4. WritesPending(m) /\ moves' \in Nat
        BY <1>1, <2>2 DEF WritesCounted
    <2> QED
        BY <1>1, <1>2, <2>1, <2>2, <2>3, <2>4 DEF WritesPending
<1> QED
    BY <1>2, <1>3 DEF WritesCounted

LEMMA InitCounted == Init => WritesCounted
<1> SUFFICES ASSUME Init PROVE WritesCounted
    OBVIOUS
<1>1. Holders = {} /\ stopping = {} /\ crashes = 0 /\ moves = 0
    BY DEF Init, GroupInit, Holders
<1>2. IsFiniteSet({}) /\ Cardinality({}) = 0
    BY FS_EmptySet
<1>3. \A m \in Messages : /\ Writers(m) = {} /\ Waiters(m) = {}
                          /\ published[m] = 0 /\ Unread(m) \in {0, 1}
    BY DEF Init, Writers, Waiters, Unread, Messages
<1>4. \A m \in Messages : WritesPending(m)
    BY <1>1, <1>2, <1>3 DEF WritesPending
<1> QED
    BY <1>1, <1>2, <1>4 DEF WritesCounted, HoldersFinite

LEMMA StepCounted ==
    TypeInv /\ TypeInv' /\ WritesCounted /\ [Next]_vars => WritesCounted'
<1> SUFFICES ASSUME TypeInv, TypeInv', WritesCounted, [Next]_vars
             PROVE  WritesCounted'
    OBVIOUS
<1>1. CASE Next
    BY <1>1, FetchCounted, DispatchCounted, WorkCounted, StopCounted, LeaveCounted,
       AssignCounted DEF Next
<1>2. CASE UNCHANGED vars
    <2>1. WritesCounted' = WritesCounted
        BY <1>2 DEF vars, groupVars, local, outcome, WritesCounted, HoldersFinite, Holders,
            WritesPending, Writers, Waiters, Unread
    <2> QED
        BY <2>1
<1> QED
    BY <1>1, <1>2

(* One delivery of a transaction makes at most one write of its result:    *)
(* every further write is paid for by a crash, a stop or a rebalance, and  *)
(* by none that paid for another one.                                      *)
THEOREM WritesNeedDeliveries == Safety => []WritesBounded
<1>1. TypeInv /\ WritesCounted => WritesBounded
    <2> SUFFICES ASSUME TypeInv, WritesCounted, NEW m \in Messages
                 PROVE  published[m] <= 1 + crashes + moves
        BY DEF WritesBounded
    <2>1. /\ Cardinality(Writers(m)) \in Nat /\ Cardinality(Waiters(m)) \in Nat
          /\ Unread(m) \in {0, 1} /\ Cardinality(stopping) \in Nat
          /\ published[m] \in Nat /\ crashes \in Nat /\ moves \in Nat
        BY CountsType DEF WritesCounted
    <2> QED
        BY <2>1 DEF WritesCounted, WritesPending
<1> QED
    BY InitType, StepType, InitCounted, StepCounted, <1>1, PTL DEF Safety
=============================================================================
