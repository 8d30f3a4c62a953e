--------------------------- MODULE NotifierProofs ---------------------------
(***************************************************************************)
(* Proofs about the result notifier, for any number of messages, replicas  *)
(* and partitions, any assignment of messages to partitions and any bounds *)
(* on crashes, rebalances and attempts.                                    *)
(*                                                                         *)
(* TypeCorrect: the type invariant.                                        *)
(* HandledInOrder: the inductive invariant InOrder of the safety argument. *)
(* StrictlyAtLeastOnce: the notifier implements the safety part of the     *)
(*   contract AtLeastOnce with a window of 0.                              *)
(* CopiesNeedDeliveries: the bound on the copies of a result, from an      *)
(*   invariant that charges every copy still to come to a delivery.        *)
(***************************************************************************)
EXTENDS Notifier, ConsumerGroupProofs

-----------------------------------------------------------------------------
(* The type invariant is inductive by itself: every variable is typed by   *)
(* its own action, cur being in Messages while a message is handled.       *)
TypeInv == /\ TypeOK
           /\ \A r \in Replicas : phase[r] = "fetch" <=> cur[r] = 0

LEMMA InitType == Init => TypeInv
<1> SUFFICES ASSUME Init PROVE TypeInv
    OBVIOUS
<1> USE NotifierAssumption DEF Init
<1>1. GroupTypeOK
    BY GroupInitType
<1>2. phase \in [Replicas -> Phases] /\ cur \in [Replicas -> 0..N]
    BY GroupAssumption DEF Phases
<1>3. attempt \in [Replicas -> 1..MaxAttempts] /\ routed \in [Messages -> Nat]
    OBVIOUS
<1> QED
    BY <1>1, <1>2, <1>3 DEF TypeInv, TypeOK

(* Another copy of the message a replica handles is counted. *)
LEMMA OneMoreCopy ==
    ASSUME TypeInv, NEW r \in Replicas, phase[r] # "fetch"
    PROVE  [routed EXCEPT ![cur[r]] = @ + 1] \in [Messages -> Nat]
<1>1. cur[r] \in Messages
    BY DEF TypeInv, TypeOK, Messages
<1>2. routed[cur[r]] + 1 \in Nat
    BY <1>1 DEF TypeInv, TypeOK
<1> QED
    BY <1>1, <1>2 DEF TypeInv, TypeOK

LEMMA StepType == TypeInv /\ [Next]_vars => TypeInv'
<1> SUFFICES ASSUME TypeInv, [Next]_vars
             PROVE  TypeInv'
    OBVIOUS
<1> USE NotifierAssumption DEF TypeInv, TypeOK, Phases
<1>1. ASSUME NEW r \in Replicas, Fetch(r)
      PROVE  TypeInv'
    <2>1. PICK m \in Messages : /\ Deliver(r, m)
                                /\ cur' = [cur EXCEPT ![r] = m]
                                /\ phase' = [phase EXCEPT ![r] =
                                       IF m \in Unroutable THEN "dlq" ELSE "publish"]
        BY <1>1 DEF Fetch
    <2>2. GroupTypeOK'
        BY <2>1, DeliverType
    <2> QED
        BY <1>1, <2>1, <2>2 DEF Fetch, outcome, Messages
<1>2. ASSUME NEW r \in Replicas, PublishSucceeds(r)
      PROVE  TypeInv'
    <2>1. GroupTypeOK'
        BY <1>2, GroupUnchangedType DEF PublishSucceeds
    <2>2. routed' \in [Messages -> Nat]
        BY <1>2, OneMoreCopy DEF PublishSucceeds
    <2> QED
        BY <1>2, <2>1, <2>2 DEF PublishSucceeds
<1>3. ASSUME NEW r \in Replicas, PublishFails(r)
      PROVE  TypeInv'
    <2>1. GroupTypeOK'
        BY <1>3, GroupUnchangedType DEF PublishFails
    <2>2. routed' \in [Messages -> Nat]
        BY <1>3, OneMoreCopy DEF PublishFails
    <2>3. attempt' \in [Replicas -> 1..MaxAttempts]
        BY <1>3 DEF PublishFails
    <2>4. phase' \in [Replicas -> Phases]
        BY <1>3 DEF PublishFails
    <2>5. \A q \in Replicas : phase'[q] = "fetch" <=> cur'[q] = 0
        BY <1>3 DEF PublishFails
    <2> QED
        BY <1>3, <2>1, <2>2, <2>3, <2>4, <2>5 DEF PublishFails
<1>4. ASSUME NEW r \in Replicas, Park(r)
      PROVE  TypeInv'
    <2>1. GroupTypeOK'
        BY <1>4, GroupUnchangedType DEF Park
    <2>2. cur[r] \in Messages
        BY <1>4 DEF Park, Messages
    <2>3. parked' \subseteq Messages
        BY <1>4, <2>2 DEF Park
    <2> QED
        BY <1>4, <2>1, <2>3 DEF Park
<1>5. ASSUME NEW r \in Replicas, ParkFails(r)
      PROVE  TypeInv'
    <2>1. GroupTypeOK'
        BY <1>5, GroupUnchangedType DEF ParkFails
    <2>2. cur[r] \in Messages
        BY <1>5 DEF ParkFails, Messages
    <2>3. abandoned' \subseteq Messages
        BY <1>5, <2>2 DEF ParkFails
    <2>4. cur' \in [Replicas -> 0..N] /\ phase' \in [Replicas -> Phases]
        BY <1>5, GroupAssumption DEF ParkFails
    <2> QED
        BY <1>5, <2>1, <2>3, <2>4 DEF ParkFails
<1>6. ASSUME NEW r \in Replicas, Commit(r)
      PROVE  TypeInv'
    <2>1. cur[r] \in Messages
        BY <1>6 DEF Commit, Messages
    <2>2. GroupTypeOK'
        BY <1>6, <2>1, CommitType DEF Commit
    <2>3. cur' \in [Replicas -> 0..N] /\ phase' \in [Replicas -> Phases]
        BY <1>6, GroupAssumption DEF Commit
    <2> QED
        BY <1>6, <2>2, <2>3 DEF Commit, outcome
<1>7. ASSUME NEW r \in Replicas, Stop(r)
      PROVE  TypeInv'
    BY <1>7, ToldToStopType DEF Stop, outcome
<1>8. ASSUME NEW r \in Replicas, Exit(r)
      PROVE  TypeInv'
    BY <1>8, LeaveType DEF Exit, outcome
<1>9. ASSUME NEW r \in Replicas, Crash(r)
      PROVE  TypeInv'
    <2>1. GroupTypeOK'
        BY <1>9, LeaveType DEF Crash
    <2>2. cur' \in [Replicas -> 0..N] /\ phase' \in [Replicas -> Phases]
        BY <1>9, GroupAssumption DEF Crash
    <2>3. attempt' \in [Replicas -> 1..MaxAttempts]
        BY <1>9 DEF Crash
    <2> QED
        BY <1>9, <2>1, <2>2, <2>3 DEF Crash, outcome
<1>10. ASSUME NEW p \in Partitions, NEW r \in Replicas, Rebalance(p, r)
       PROVE  TypeInv'
    BY <1>10, AssignType DEF Rebalance, local, outcome
<1>11. CASE UNCHANGED vars
    BY <1>11, GroupUnchangedType DEF vars, local, outcome
<1> QED
    BY <1>1, <1>2, <1>3, <1>4, <1>5, <1>6, <1>7, <1>8, <1>9, <1>10, <1>11
    DEF Next, Handle

(* Type correctness of the result notifier. *)
THEOREM TypeCorrect == Safety => []TypeOK
<1>1. TypeInv => TypeOK
    BY DEF TypeInv
<1> QED
    BY InitType, StepType, <1>1, PTL DEF Safety

-----------------------------------------------------------------------------
(* InOrder is inductive relative to the types.  First, what the steps do   *)
(* to the outcomes and to the offsets.                                     *)
LEMMA OutcomeUnchanged ==
    ASSUME UNCHANGED outcome
    PROVE  Settled' = Settled
BY DEF outcome, Settled, Routed

LEMMA OutcomeGrows ==
    ASSUME TypeInv, NEW r \in Replicas, PublishSucceeds(r) \/ PublishFails(r)
    PROVE  Settled \subseteq Settled'
<1>1. ASSUME NEW m \in Messages, routed[m] > 0
      PROVE  routed'[m] > 0
    BY <1>1 DEF TypeInv, TypeOK, PublishSucceeds, PublishFails
<1> QED
    BY <1>1 DEF Settled, Routed, PublishSucceeds, PublishFails

LEMMA InitInOrder == Init => InOrder
BY GroupAssumption DEF Init, GroupInit, InOrder, Behind, Messages

(* Steps that move no offset and fetch nothing: hands are emptied when the *)
(* message has an outcome, and a commit is due when it has one.            *)
SameOffsets == committed' = committed /\ position' = position /\ owner' = owner

HandsEmptied == \A q \in Replicas :
    cur'[q] = cur[q] \/ (cur'[q] = 0 /\ (cur[q] = 0 \/ cur[q] \in Settled'))

CommitsDue == \A q \in Replicas : phase'[q] = "commit" => cur'[q] \in Settled'

LEMMA HandleInOrder ==
    ASSUME TypeInv, InOrder, SameOffsets, Settled \subseteq Settled',
           HandsEmptied, CommitsDue
    PROVE  InOrder'
<1> USE DEF SameOffsets, HandsEmptied, CommitsDue
<1>1. Behind(committed)' \subseteq Settled'
    BY DEF InOrder, Behind
<1>2. \A q \in Replicas : cur'[q] # 0 =>
          \A m \in Messages : Part[m] = Part[cur'[q]] /\ m < cur'[q] => m \in Settled'
    BY DEF InOrder
<1>3. ASSUME NEW m \in Messages,
             owner'[Part[m]] # NoOwner, m <= position'[Part[m]]
      PROVE  m \in Settled' \/ cur'[owner'[Part[m]]] = m
    <2>1. m \in Settled \/ cur[owner[Part[m]]] = m
        BY <1>3 DEF InOrder
    <2>2. owner[Part[m]] \in Replicas
        BY <1>3, GroupAssumption DEF TypeInv, TypeOK, GroupTypeOK, Messages
    <2>3. m # 0
        BY DEF Messages
    <2> QED
        BY <2>1, <2>2, <2>3
<1> QED
    BY <1>1, <1>2, <1>3 DEF InOrder

(* The next message of an owned partition is fetched by its owner, whose   *)
(* hands are empty: all that precedes it has an outcome.                   *)
LEMMA FetchInOrder ==
    ASSUME TypeInv, InOrder, NEW r \in Replicas, Fetch(r)
    PROVE  InOrder'
<1>1. PICK n \in Messages : /\ Deliver(r, n)
                            /\ cur' = [cur EXCEPT ![r] = n]
                            /\ phase' = [phase EXCEPT ![r] =
                                   IF n \in Unroutable THEN "dlq" ELSE "publish"]
    BY DEF Fetch
<1>2. Settled' = Settled
    BY OutcomeUnchanged DEF Fetch
<1>3. cur[r] = 0 /\ owner[Part[n]] = r /\ r # NoOwner
    BY <1>1, GroupAssumption DEF Fetch, Deliver, TypeInv
<1>4. Behind(committed)' \subseteq Settled'
    BY <1>1, <1>2 DEF InOrder, Behind, Deliver
<1>5. \A q \in Replicas : phase'[q] = "commit" => cur'[q] \in Settled'
    BY <1>1, <1>2 DEF InOrder, TypeInv, TypeOK
<1>6. ASSUME NEW m \in Messages, Part[m] = Part[n], m < n
      PROVE  m \in Settled
    <2>1. m <= position[Part[m]]
        BY <1>1, <1>6 DEF Deliver
    <2>2. cur[owner[Part[m]]] # m
        BY <1>3, <1>6 DEF Messages
    <2> QED
        BY <1>3, <1>6, <2>1, <2>2 DEF InOrder
<1>7. ASSUME NEW q \in Replicas, cur'[q] # 0,
             NEW m \in Messages, Part[m] = Part[cur'[q]], m < cur'[q]
      PROVE  m \in Settled'
    <2>1. CASE q = r
        BY <1>1, <1>2, <1>6, <1>7, <2>1 DEF TypeInv, TypeOK
    <2>2. CASE q # r
        BY <1>1, <1>2, <1>7, <2>2 DEF InOrder, TypeInv, TypeOK
    <2> QED
        BY <2>1, <2>2
<1>8. ASSUME NEW m \in Messages, owner'[Part[m]] # NoOwner, m <= position'[Part[m]]
      PROVE  m \in Settled' \/ cur'[owner'[Part[m]]] = m
    <2>1. owner' = owner
        BY <1>1 DEF Deliver
    <2>2. Part[m] \in Partitions /\ owner[Part[m]] \in Replicas
        BY <1>8, <2>1, GroupAssumption DEF TypeInv, TypeOK, GroupTypeOK, Messages
    <2>3. CASE Part[m] = Part[n]
        <3>1. position'[Part[m]] = n
            BY <1>1, <2>2, <2>3 DEF Deliver, TypeInv, TypeOK, GroupTypeOK
        <3>2. m < n \/ m = n
            BY <1>8, <3>1 DEF Messages
        <3>3. cur'[r] = n
            BY <1>1 DEF TypeInv, TypeOK
        <3> QED
            BY <1>2, <1>3, <1>6, <2>1, <2>3, <3>2, <3>3
    <2>4. CASE Part[m] # Part[n]
        <3>1. position'[Part[m]] = position[Part[m]]
            BY <1>1, <2>2, <2>4 DEF Deliver, TypeInv, TypeOK, GroupTypeOK
        <3>2. m \in Settled \/ cur[owner[Part[m]]] = m
            BY <1>8, <2>1, <3>1 DEF InOrder
        <3>3. owner[Part[m]] = r => m \in Settled
            BY <1>3, <3>2 DEF Messages
        <3>4. owner[Part[m]] # r => cur'[owner[Part[m]]] = cur[owner[Part[m]]]
            BY <1>1, <2>2 DEF TypeInv, TypeOK
        <3> QED
            BY <1>2, <2>1, <3>2, <3>3, <3>4
    <2> QED
        BY <2>3, <2>4
<1> QED
    BY <1>4, <1>5, <1>7, <1>8 DEF InOrder

(* The message whose offset is committed has an outcome, and so has all    *)
(* that precedes it, wherever the committed offset was.                    *)
LEMMA CommitInOrder ==
    ASSUME TypeInv, InOrder, NEW r \in Replicas, Commit(r)
    PROVE  InOrder'
<1>1. Settled' = Settled
    BY OutcomeUnchanged DEF Commit
<1>2. cur[r] \in Messages /\ cur[r] \in Settled
    BY DEF Commit, TypeInv, TypeOK, InOrder, Messages
<1>3. Behind(committed)' \subseteq Settled'
    <2>1. CASE committed' = committed
        BY <1>1, <2>1 DEF Behind, InOrder
    <2>2. CASE committed' = Stored({cur[r]})
        <3>1. committed' = [p \in Partitions |->
                               IF p = Part[cur[r]] THEN cur[r] ELSE committed[p]]
            BY <1>2, <2>2, StoredOne
        <3>2. ASSUME NEW m \in Messages, m <= committed'[Part[m]]
              PROVE  m \in Settled
            <4>1. Part[m] \in Partitions
                BY GroupAssumption DEF Messages
            <4>2. CASE Part[m] = Part[cur[r]]
                <5>1. m < cur[r] \/ m = cur[r]
                    BY <1>2, <3>1, <3>2, <4>1, <4>2 DEF Messages
                <5>2. cur[r] # 0
                    BY <1>2 DEF Messages
                <5> QED
                    BY <1>2, <4>2, <5>1, <5>2 DEF InOrder
            <4>3. CASE Part[m] # Part[cur[r]]
                BY <3>1, <3>2, <4>1, <4>3 DEF InOrder, Behind
            <4> QED
                BY <4>2, <4>3
        <3> QED
            BY <1>1, <3>2 DEF Behind
    <2> QED
        BY <2>1, <2>2 DEF Commit, CommitMessages
<1>4. \A q \in Replicas : phase'[q] = "commit" => cur'[q] \in Settled'
    BY <1>1 DEF Commit, InOrder, TypeInv, TypeOK
<1>5. \A q \in Replicas : cur'[q] # 0 =>
          \A m \in Messages : Part[m] = Part[cur'[q]] /\ m < cur'[q] => m \in Settled'
    BY <1>1 DEF Commit, InOrder, TypeInv, TypeOK
<1>6. ASSUME NEW m \in Messages, owner'[Part[m]] # NoOwner, m <= position'[Part[m]]
      PROVE  m \in Settled' \/ cur'[owner'[Part[m]]] = m
    <2>1. owner' = owner /\ position' = position
        BY DEF Commit, CommitMessages
    <2>2. owner[Part[m]] \in Replicas
        BY <1>6, <2>1, GroupAssumption DEF TypeInv, TypeOK, GroupTypeOK, Messages
    <2>3. m \in Settled \/ cur[owner[Part[m]]] = m
        BY <1>6, <2>1 DEF InOrder
    <2> QED
        BY <1>1, <1>2, <2>1, <2>2, <2>3 DEF Commit, TypeInv, TypeOK
<1> QED
    BY <1>3, <1>4, <1>5, <1>6 DEF InOrder

(* A partition without an owner is under no obligation, and the replica    *)
(* that leaves is the only one whose hands are emptied.                    *)
LEMMA LeaveInOrder ==
    ASSUME TypeInv, InOrder, NEW r \in Replicas, Exit(r) \/ Crash(r)
    PROVE  InOrder'
<1>1. Settled' = Settled
    BY OutcomeUnchanged DEF Exit, Crash
<1>2. /\ committed' = committed /\ position' = position
      /\ owner' = [p \in Partitions |-> IF owner[p] = r THEN NoOwner ELSE owner[p]]
    BY DEF Exit, Crash, LeaveByStop, LeaveByCrash, Leave
<1>3. \A q \in Replicas \ {r} : cur'[q] = cur[q] /\ phase'[q] = phase[q]
    BY DEF Exit, Crash, TypeInv, TypeOK
<1>4. cur'[r] = 0 /\ phase'[r] = "fetch"
    BY DEF Exit, Crash, TypeInv, TypeOK
<1>5. Behind(committed)' \subseteq Settled'
    BY <1>1, <1>2 DEF Behind, InOrder
<1>6. \A q \in Replicas : phase'[q] = "commit" => cur'[q] \in Settled'
    BY <1>1, <1>3, <1>4 DEF InOrder
<1>7. \A q \in Replicas : cur'[q] # 0 =>
          \A m \in Messages : Part[m] = Part[cur'[q]] /\ m < cur'[q] => m \in Settled'
    BY <1>1, <1>3, <1>4 DEF InOrder
<1>8. ASSUME NEW m \in Messages, owner'[Part[m]] # NoOwner, m <= position'[Part[m]]
      PROVE  m \in Settled' \/ cur'[owner'[Part[m]]] = m
    <2>1. Part[m] \in Partitions
        BY GroupAssumption DEF Messages
    <2>2. owner'[Part[m]] = owner[Part[m]] /\ owner[Part[m]] # r
        BY <1>2, <1>8, <2>1
    <2>3. owner[Part[m]] \in Replicas \ {r}
        BY <1>8, <2>1, <2>2 DEF TypeInv, TypeOK, GroupTypeOK
    <2>4. m \in Settled \/ cur[owner[Part[m]]] = m
        BY <1>2, <1>8, <2>2 DEF InOrder
    <2> QED
        BY <1>1, <1>3, <2>2, <2>3, <2>4
<1> QED
    BY <1>5, <1>6, <1>7, <1>8 DEF InOrder

(* A partition that is assigned is read from its committed offset.         *)
LEMMA AssignInOrder ==
    ASSUME TypeInv, InOrder, NEW p \in Partitions, NEW r \in Replicas, Rebalance(p, r)
    PROVE  InOrder'
<1>1. Settled' = Settled /\ cur' = cur /\ phase' = phase
    BY OutcomeUnchanged DEF Rebalance, local
<1>2. /\ committed' = committed
      /\ owner' = [owner EXCEPT ![p] = r]
      /\ position' = [position EXCEPT ![p] = committed[p]]
    BY DEF Rebalance, Assign
<1>3. Behind(committed)' \subseteq Settled'
    BY <1>1, <1>2 DEF Behind, InOrder
<1>4. ASSUME NEW m \in Messages, owner'[Part[m]] # NoOwner, m <= position'[Part[m]]
      PROVE  m \in Settled' \/ cur'[owner'[Part[m]]] = m
    <2>1. Part[m] \in Partitions
        BY GroupAssumption DEF Messages
    <2>2. CASE Part[m] = p
        BY <1>1, <1>2, <1>4, <2>1, <2>2
        DEF InOrder, Behind, TypeInv, TypeOK, GroupTypeOK
    <2>3. CASE Part[m] # p
        BY <1>1, <1>2, <1>4, <2>1, <2>3 DEF InOrder, TypeInv, TypeOK, GroupTypeOK
    <2> QED
        BY <2>2, <2>3
<1> QED
    BY <1>1, <1>3, <1>4 DEF InOrder

LEMMA StepInOrder == TypeInv /\ InOrder /\ [Next]_vars => InOrder'
<1> SUFFICES ASSUME TypeInv, InOrder, [Next]_vars
             PROVE  InOrder'
    OBVIOUS
<1>1. ASSUME NEW r \in Replicas, PublishSucceeds(r)
      PROVE  InOrder'
    <2>1. Settled \subseteq Settled'
        BY <1>1, OutcomeGrows
    <2>2. cur[r] \in Settled'
        <3>1. cur[r] \in Messages
            BY <1>1 DEF PublishSucceeds, TypeInv, TypeOK, Messages
        <3>2. routed'[cur[r]] > 0
            BY <1>1, <3>1 DEF PublishSucceeds, TypeInv, TypeOK
        <3> QED
            BY <3>1, <3>2 DEF Settled, Routed
    <2>3. CommitsDue
        BY <1>1, <2>1, <2>2 DEF PublishSucceeds, InOrder, TypeInv, TypeOK, CommitsDue
    <2>4. SameOffsets
        BY <1>1 DEF PublishSucceeds, groupVars, SameOffsets
    <2>5. HandsEmptied
        BY <1>1 DEF PublishSucceeds, HandsEmptied
    <2> QED
        BY <2>1, <2>3, <2>4, <2>5, HandleInOrder
<1>2. ASSUME NEW r \in Replicas, PublishFails(r)
      PROVE  InOrder'
    <2>1. Settled \subseteq Settled'
        BY <1>2, OutcomeGrows
    <2>2. \A q \in Replicas : phase'[q] = "commit" => phase[q] = "commit"
        BY <1>2 DEF PublishFails, TypeInv, TypeOK
    <2>3. CommitsDue
        BY <1>2, <2>1, <2>2 DEF PublishFails, InOrder, CommitsDue
    <2>4. SameOffsets
        BY <1>2 DEF PublishFails, groupVars, SameOffsets
    <2>5. HandsEmptied
        BY <1>2 DEF PublishFails, HandsEmptied
    <2> QED
        BY <2>1, <2>3, <2>4, <2>5, HandleInOrder
<1>3. ASSUME NEW r \in Replicas, Park(r)
      PROVE  InOrder'
    <2>1. Settled \subseteq Settled' /\ cur[r] \in Settled'
        BY <1>3 DEF Park, Settled, Routed
    <2>2. CommitsDue
        BY <1>3, <2>1 DEF Park, InOrder, TypeInv, TypeOK, CommitsDue
    <2>4. SameOffsets
        BY <1>3 DEF Park, groupVars, SameOffsets
    <2>5. HandsEmptied
        BY <1>3 DEF Park, HandsEmptied
    <2> QED
        BY <2>1, <2>2, <2>4, <2>5, HandleInOrder
<1>4. ASSUME NEW r \in Replicas, ParkFails(r)
      PROVE  InOrder'
    <2>1. Settled \subseteq Settled' /\ cur[r] \in Settled'
        BY <1>4 DEF ParkFails, Settled, Routed
    <2>2. CommitsDue
        BY <1>4, <2>1 DEF ParkFails, InOrder, TypeInv, TypeOK, CommitsDue
    <2>3. HandsEmptied
        BY <1>4, <2>1 DEF ParkFails, TypeInv, TypeOK, HandsEmptied
    <2>4. SameOffsets
        BY <1>4 DEF ParkFails, groupVars, SameOffsets
    <2> QED
        BY <2>1, <2>2, <2>3, <2>4, HandleInOrder
<1>5. ASSUME NEW r \in Replicas, Stop(r)
      PROVE  InOrder'
    BY <1>5, OutcomeUnchanged DEF Stop, ToldToStop, InOrder, Behind
<1>6. CASE UNCHANGED vars
    <2>1. Settled' = Settled /\ UNCHANGED <<groupVars, phase, cur>>
        BY <1>6, OutcomeUnchanged DEF vars, local
    <2> QED
        BY <2>1 DEF InOrder, Behind, groupVars
<1> QED
    BY <1>1, <1>2, <1>3, <1>4, <1>5, <1>6,
       FetchInOrder, CommitInOrder, LeaveInOrder, AssignInOrder
    DEF Next, Handle

(* The notifier's messages are handled in order: everything behind a       *)
(* committed offset, or before a message a replica holds, has an outcome.  *)
THEOREM HandledInOrder == Safety => []InOrder
BY InitType, StepType, InitInOrder, StepInOrder, PTL DEF Safety

-----------------------------------------------------------------------------
(* What InOrder means for the contract: nothing is ever lost.              *)
LEMMA NoneLost ==
    ASSUME InOrder
    PROVE  Lost = {}
BY DEF InOrder, Lost

LEMMA InitRefines == Init => Contract!Init
<1> SUFFICES ASSUME Init PROVE Contract!Init
    OBVIOUS
<1>1. Lost = {}
    BY InitInOrder, NoneLost
<1>2. Settled = {}
    BY DEF Init, Settled, Routed
<1> QED
    BY <1>1, <1>2 DEF Contract!Init, Init, GroupInit

LEMMA NoLossWithinBound ==
    ASSUME Lost' = {}, crashes' \in Nat
    PROVE  Contract!LossBound'
<1>1. Contract!Cardinality(Lost') = Cardinality(Lost')
    BY DEF Contract!Cardinality, Cardinality
<1>2. Cardinality(Lost') = 0
    BY FS_EmptySet
<1>3. \A n \in Nat : 0 <= 0 * n
    OBVIOUS
<1> QED
    BY <1>1, <1>2, <1>3 DEF Contract!LossBound

LEMMA StepRefines ==
    TypeInv /\ InOrder /\ TypeInv' /\ InOrder' /\ [Next]_vars => [Contract!Next]_(Contract!vars)
<1> SUFFICES ASSUME TypeInv, InOrder, TypeInv', InOrder', [Next]_vars
             PROVE  Contract!Next \/ UNCHANGED Contract!vars
    OBVIOUS
<1>1. Lost = {} /\ Lost' = {}
    BY DEF InOrder, Lost
<1>2. Settled' \subseteq Messages
    BY DEF TypeInv, TypeOK, Settled, Routed
<1>3. Contract!LossBound'
    <2>1. crashes' \in Nat
        BY GroupAssumption DEF TypeInv, TypeOK, GroupTypeOK
    <2> QED
        BY <1>1, <2>1, NoLossWithinBound
<1>4. ASSUME Settled \subseteq Settled', crashes' = crashes
      PROVE  Contract!Next
    BY <1>1, <1>2, <1>3, <1>4 DEF Contract!Next, Contract!Resolve
<1>5. ASSUME NEW r \in Replicas, Crash(r)
      PROVE  Contract!Next
    BY <1>1, <1>3, <1>5, OutcomeUnchanged
    DEF Crash, LeaveByCrash, Contract!Next, Contract!Crash
<1>6. ASSUME NEW r \in Replicas, PublishSucceeds(r) \/ PublishFails(r)
      PROVE  Contract!Next
    BY <1>4, <1>6, OutcomeGrows DEF PublishSucceeds, PublishFails, groupVars
<1>7. ASSUME NEW r \in Replicas, Park(r) \/ ParkFails(r)
      PROVE  Contract!Next
    BY <1>4, <1>7 DEF Park, ParkFails, Settled, Routed, groupVars
<1>8. ASSUME UNCHANGED outcome, crashes' = crashes
      PROVE  Contract!Next
    BY <1>4, <1>8, OutcomeUnchanged
<1>9. ASSUME NEW r \in Replicas, Fetch(r) \/ Commit(r) \/ Stop(r) \/ Exit(r)
      PROVE  Contract!Next
    BY <1>8, <1>9
    DEF Fetch, Deliver, Commit, CommitMessages, Stop, ToldToStop, Exit, LeaveByStop
<1>10. ASSUME NEW p \in Partitions, NEW r \in Replicas, Rebalance(p, r)
       PROVE  Contract!Next
    BY <1>8, <1>10 DEF Rebalance, Assign
<1>11. CASE UNCHANGED vars
    BY <1>8, <1>11 DEF vars, groupVars
<1> QED
    BY <1>5, <1>6, <1>7, <1>9, <1>10, <1>11 DEF Next, Handle

(* The result notifier implements the safety part of the contract with a   *)
(* window of 0: no crash, stop, rebalance or failed commit makes a message *)
(* without an outcome unreachable.                                         *)
THEOREM StrictlyAtLeastOnce == Safety => NeverLoses
<1>1. Init /\ [][Next]_vars => [](TypeInv /\ InOrder)
    BY InitType, StepType, InitInOrder, StepInOrder, PTL
<1> QED
    BY <1>1, InitRefines, StepRefines, PTL DEF Safety, NeverLoses, Contract!Safety
-----------------------------------------------------------------------------
(* The inductive invariant of the bound on copies.  What will still write  *)
(* a copy of m counts as one: every attempt a replica has left, and        *)
(* MaxAttempts of them for the partition that will deliver m, which a      *)
(* crash, a rebalance or a stop pays for.  A stop is counted when the      *)
(* replica is told to stop, so that one that is stopping has paid already. *)
Coming(m) == {c \in Replicas \X (1..MaxAttempts) :
                 /\ cur[c[1]] = m /\ phase[c[1]] = "publish"
                 /\ attempt[c[1]] <= c[2]}

Paid(m) == 1 + crashes + moves - Cardinality(stopping) - Unread(m)

Publishing == {r \in Replicas : phase[r] = "publish"}

AttemptsFresh == \A r \in Replicas : phase[r] # "publish" => attempt[r] = 1

CopiesPending(m) ==
    routed[m] + Cardinality(Coming(m)) <= MaxAttempts * Paid(m)

CopiesCounted ==
    /\ IsFiniteSet(stopping) /\ IsFiniteSet(Publishing)
    /\ AttemptsFresh
    /\ \A m \in Messages : CopiesPending(m)

LEMMA ComingFinite ==
    ASSUME CopiesCounted, NEW m \in Messages
    PROVE  IsFiniteSet(Coming(m)) /\ Cardinality(Coming(m)) \in Nat
<1>1. IsFiniteSet(1..MaxAttempts)
    BY FS_Interval, NotifierAssumption
<1>2. IsFiniteSet(Publishing \X (1..MaxAttempts))
    BY <1>1, FS_Product DEF CopiesCounted
<1>3. Coming(m) \subseteq Publishing \X (1..MaxAttempts)
    BY DEF Coming, Publishing
<1> QED
    BY <1>2, <1>3, FewerRemain

LEMMA PaidType ==
    ASSUME TypeInv, CopiesCounted, NEW m \in Messages
    PROVE  /\ Paid(m) \in Int /\ Unread(m) \in {0, 1} /\ Cardinality(stopping) \in Nat
           /\ crashes \in Nat /\ moves \in Nat /\ routed[m] \in Nat
<1>1. crashes \in Nat /\ moves \in Nat /\ routed[m] \in Nat
    BY GroupAssumption DEF TypeInv, TypeOK, GroupTypeOK
<1>2. Cardinality(stopping) \in Nat /\ Unread(m) \in {0, 1}
    BY FS_CardinalityType, UnreadType DEF CopiesCounted
<1> QED
    BY <1>1, <1>2 DEF Paid

(* Whoever has paid more may write more. *)
LEMMA PaysForMore ==
    ASSUME NEW b \in Nat, NEW x \in Int, NEW y \in Int, x <= y
    PROVE  b * x <= b * y /\ b * (x + 1) = b * x + b
<1>1. PICK d \in Nat : y = x + d
    <2>1. y - x \in Nat /\ y = x + (y - x)
        OBVIOUS
    <2> QED
        BY <2>1
<1>2. b * (x + d) = b * x + b * d /\ b * d \in Nat
    OBVIOUS
<1>3. b * x \in Int /\ b * (x + 1) = b * x + b
    OBVIOUS
<1> QED
    BY <1>1, <1>2, <1>3

(* A step that writes no more than it gives up keeps the count, if it pays *)
(* for the deliveries it makes due.                                        *)
LEMMA CountKept ==
    ASSUME TypeInv, CopiesCounted, NEW m \in Messages,
           routed'[m] \in Nat, Cardinality(Coming(m)') \in Nat,
           routed'[m] + Cardinality(Coming(m)') <= routed[m] + Cardinality(Coming(m)),
           Paid(m)' \in Int, Paid(m) <= Paid(m)'
    PROVE  CopiesPending(m)'
<1>1. /\ Paid(m) \in Int /\ routed[m] \in Nat /\ Cardinality(Coming(m)) \in Nat
      /\ MaxAttempts \in Nat
    BY PaidType, ComingFinite, NotifierAssumption
<1>2. MaxAttempts * Paid(m) <= MaxAttempts * Paid(m)'
    BY <1>1, PaysForMore
<1>3. MaxAttempts * Paid(m) \in Int /\ MaxAttempts * Paid(m)' \in Int
    BY <1>1
<1>4. CopiesPending(m)
    BY DEF CopiesCounted
<1> QED
    BY <1>1, <1>2, <1>3, <1>4 DEF CopiesPending

(* The attempts of one delivery. *)
LEMMA AllAttempts ==
    ASSUME NEW r
    PROVE  /\ IsFiniteSet({r} \X (1..MaxAttempts))
           /\ Cardinality({r} \X (1..MaxAttempts)) = MaxAttempts
<1>1. MaxAttempts \in Nat
    BY NotifierAssumption
<1>2. IsFiniteSet(1..MaxAttempts) /\ Cardinality(1..MaxAttempts) = MaxAttempts
    BY <1>1, FS_Interval
<1>3. IsFiniteSet({r}) /\ Cardinality({r}) = 1
    BY FS_Singleton
<1>4. /\ IsFiniteSet({r} \X (1..MaxAttempts))
      /\ Cardinality({r} \X (1..MaxAttempts)) = 1 * MaxAttempts
    BY <1>2, <1>3, FS_Product
<1> QED
    BY <1>1, <1>4

(* The delivery of a message uses up what was due for it. *)
LEMMA FetchCounted ==
    ASSUME TypeInv, TypeInv', CopiesCounted, NEW r \in Replicas, Fetch(r)
    PROVE  CopiesCounted'
<1>1. PICK k \in Messages :
          /\ Deliver(r, k)
          /\ cur' = [cur EXCEPT ![r] = k]
          /\ phase' = [phase EXCEPT ![r] = IF k \in Unroutable THEN "dlq" ELSE "publish"]
    BY DEF Fetch
<1>2. /\ phase[r] = "fetch" /\ cur[r] = 0 /\ cur'[r] = k
      /\ \A q \in Replicas : q # r => cur'[q] = cur[q] /\ phase'[q] = phase[q]
      /\ UNCHANGED <<attempt, stopping, routed, crashes, moves>>
    BY <1>1 DEF Fetch, Deliver, outcome, TypeInv, TypeOK
<1>3. IsFiniteSet(stopping') /\ IsFiniteSet(Publishing') /\ AttemptsFresh'
    <2>1. Publishing' \subseteq Publishing \cup {r}
        BY <1>2 DEF Publishing
    <2>2. IsFiniteSet(Publishing')
        BY <2>1, AtMostOneMore DEF CopiesCounted
    <2> QED
        BY <1>2, <2>2 DEF CopiesCounted, AttemptsFresh
<1>4. ASSUME NEW m \in Messages
      PROVE  CopiesPending(m)'
    <2>1. /\ Paid(m) \in Int /\ Unread(m) \in {0, 1} /\ Cardinality(stopping) \in Nat
          /\ crashes \in Nat /\ moves \in Nat /\ routed[m] \in Nat
          /\ IsFiniteSet(Coming(m)) /\ Cardinality(Coming(m)) \in Nat
        BY PaidType, ComingFinite
    <2>2. CASE m = k
        <3>1. Unread(m) = 1 /\ Unread(m)' = 0
            BY <1>1, <2>2, DeliverUnread DEF TypeInv, TypeOK
        <3>2. Paid(m)' = Paid(m) + 1
            BY <1>2, <2>1, <3>1 DEF Paid
        <3>3. Coming(m)' \subseteq Coming(m) \cup ({r} \X (1..MaxAttempts))
            BY <1>2 DEF Coming
        <3>4. /\ IsFiniteSet(Coming(m)')
              /\ Cardinality(Coming(m)') <= Cardinality(Coming(m)) + MaxAttempts
              /\ Cardinality(Coming(m)') \in Nat
            <4> DEFINE D == {r} \X (1..MaxAttempts)
            <4>1. IsFiniteSet(D) /\ Cardinality(D) = MaxAttempts /\ Cardinality(D) \in Nat
                BY AllAttempts, NotifierAssumption
            <4> HIDE DEF D
            <4>2. /\ IsFiniteSet(Coming(m) \cup D)
                  /\ Cardinality(Coming(m) \cup D)
                         = Cardinality(Coming(m)) + Cardinality(D) - Cardinality(Coming(m) \cap D)
                BY <2>1, <4>1, FS_Union, Zenon
            <4>3. Cardinality(Coming(m) \cap D) \in Nat
                BY <2>1, FS_Intersection, FS_CardinalityType
            <4>4. Coming(m)' \subseteq Coming(m) \cup D
                BY <3>3 DEF D
            <4>5. /\ IsFiniteSet(Coming(m)')
                  /\ Cardinality(Coming(m)') <= Cardinality(Coming(m) \cup D)
                  /\ Cardinality(Coming(m)') \in Nat
                BY <4>2, <4>4, FewerRemain
            <4> QED
                BY <2>1, <4>1, <4>2, <4>3, <4>5
        <3>5. /\ MaxAttempts * (Paid(m) + 1) = MaxAttempts * Paid(m) + MaxAttempts
              /\ MaxAttempts * Paid(m) \in Int /\ MaxAttempts \in Nat
            BY <2>1, NotifierAssumption
        <3>6. CopiesPending(m)
            BY DEF CopiesCounted
        <3> QED
            BY <1>2, <2>1, <3>2, <3>4, <3>5, <3>6 DEF CopiesPending
    <2>3. CASE m # k
        <3>1. Coming(m)' = Coming(m)
            BY <1>2, <2>3 DEF Coming, Messages
        <3>2. Unread(m)' <= Unread(m) /\ Unread(m)' \in {0, 1}
            BY <1>1, DeliverUnread DEF TypeInv, TypeOK
        <3>3. Paid(m)' \in Int /\ Paid(m) <= Paid(m)'
            BY <1>2, <2>1, <3>2 DEF Paid
        <3> QED
            BY <1>2, <2>1, <3>1, <3>3, CountKept
    <2> QED
        BY <2>2, <2>3
<1> QED
    BY <1>3, <1>4 DEF CopiesCounted

(* An attempt that is made is not left. *)
LEMMA HandleCounted ==
    ASSUME TypeInv, TypeInv', CopiesCounted, NEW r \in Replicas, Handle(r)
    PROVE  CopiesCounted'
<1>1. /\ UNCHANGED <<stopping, crashes, moves, owner, position>>
      /\ \A q \in Replicas : q # r => /\ cur'[q] = cur[q] /\ phase'[q] = phase[q]
                                      /\ attempt'[q] = attempt[q]
    BY DEF Handle, PublishSucceeds, PublishFails, Park, ParkFails, Commit, CommitMessages,
           groupVars, TypeInv, TypeOK
<1>2. CASE PublishSucceeds(r) \/ PublishFails(r)
    <2>1. /\ phase[r] = "publish" /\ cur' = cur
          /\ \/ phase'[r] # "publish" /\ attempt'[r] = 1
             \/ phase'[r] = "publish" /\ attempt'[r] = attempt[r] + 1
          /\ routed' = routed \/ routed' = [routed EXCEPT ![cur[r]] = @ + 1]
        <3>1. CASE PublishSucceeds(r)
            BY <3>1 DEF PublishSucceeds, TypeInv, TypeOK, Phases
        <3>2. CASE PublishFails(r)
            <4>1. phase[r] = "publish" /\ cur' = cur
                BY <3>2 DEF PublishFails
            <4>2. \/ phase'[r] # "publish" /\ attempt'[r] = 1
                  \/ phase'[r] = "publish" /\ attempt'[r] = attempt[r] + 1
                BY <3>2 DEF PublishFails, TypeInv, TypeOK
            <4>3. routed' = routed \/ routed' = [routed EXCEPT ![cur[r]] = @ + 1]
                BY <3>2 DEF PublishFails
            <4> QED
                BY <4>1, <4>2, <4>3
        <3> QED
            BY <1>2, <3>1, <3>2
    <2>2. IsFiniteSet(stopping') /\ IsFiniteSet(Publishing') /\ AttemptsFresh'
        <3>1. Publishing' \subseteq Publishing
            BY <1>1, <2>1 DEF Publishing
        <3>2. IsFiniteSet(Publishing')
            BY <3>1, FewerRemain DEF CopiesCounted
        <3> QED
            BY <1>1, <2>1, <3>2 DEF CopiesCounted, AttemptsFresh
    <2>3. ASSUME NEW m \in Messages
          PROVE  CopiesPending(m)'
        <3>1. /\ Paid(m) \in Int /\ routed[m] \in Nat
              /\ IsFiniteSet(Coming(m)) /\ Cardinality(Coming(m)) \in Nat
            BY PaidType, ComingFinite
        <3>2. Paid(m)' = Paid(m)
            BY <1>1 DEF Paid, Unread
        <3>3. CASE m = cur[r]
            <4>1. PICK c : c = <<r, attempt[r]>>
                OBVIOUS
            <4>2. c \in Coming(m)
                BY <2>1, <3>3, <4>1 DEF Coming, TypeInv, TypeOK
            <4>3. Coming(m)' \subseteq Coming(m) \ {c}
                <5> SUFFICES ASSUME NEW d \in Coming(m)'
                             PROVE  d \in Coming(m) /\ d # c
                    OBVIOUS
                <5>1. /\ d \in Replicas \X (1..MaxAttempts)
                      /\ cur'[d[1]] = m /\ phase'[d[1]] = "publish"
                      /\ attempt'[d[1]] <= d[2]
                    BY DEF Coming
                <5>2. CASE d[1] = r
                    <6>1. attempt[r] + 1 <= d[2] /\ attempt[r] \in Nat /\ d[2] \in Nat
                        BY <2>1, <5>1, <5>2 DEF TypeInv, TypeOK
                    <6> QED
                        BY <2>1, <3>3, <4>1, <5>1, <5>2, <6>1 DEF Coming
                <5>3. CASE d[1] # r
                    BY <1>1, <4>1, <5>1, <5>3 DEF Coming
                <5> QED
                    BY <5>2, <5>3
            <4>4. /\ IsFiniteSet(Coming(m) \ {c})
                  /\ Cardinality(Coming(m) \ {c}) = Cardinality(Coming(m)) - 1
                BY <3>1, <4>2, FS_RemoveElement
            <4>5. /\ Cardinality(Coming(m)') <= Cardinality(Coming(m) \ {c})
                  /\ Cardinality(Coming(m)') \in Nat
                BY <4>3, <4>4, FewerRemain
            <4>6. routed'[m] \in {routed[m], routed[m] + 1}
                BY <2>1, <3>3 DEF TypeInv, TypeOK
            <4>7. routed'[m] \in Nat
                BY <3>1, <4>6
            <4>8. routed'[m] + Cardinality(Coming(m)') <= routed[m] + Cardinality(Coming(m))
                BY <3>1, <4>4, <4>5, <4>6
            <4> QED
                BY <3>1, <3>2, <4>5, <4>7, <4>8, CountKept
        <3>4. CASE m # cur[r]
            <4>1. Coming(m)' = Coming(m)
                BY <1>1, <2>1, <3>4 DEF Coming
            <4>2. routed'[m] = routed[m]
                BY <2>1, <3>4 DEF TypeInv, TypeOK
            <4> QED
                BY <3>1, <3>2, <4>1, <4>2, CountKept
        <3> QED
            BY <3>3, <3>4
    <2> QED
        BY <2>2, <2>3 DEF CopiesCounted
<1>3. CASE Park(r) \/ ParkFails(r) \/ Commit(r)
    <2>1. /\ phase[r] # "publish" /\ phase'[r] # "publish"
          /\ UNCHANGED <<attempt, routed>>
        BY <1>3 DEF Park, ParkFails, Commit, outcome, TypeInv, TypeOK
    <2>2. \A m \in Messages : Coming(m)' = Coming(m) /\ Paid(m)' = Paid(m)
        BY <1>1, <2>1 DEF Coming, Paid, Unread
    <2>3. Publishing' = Publishing /\ AttemptsFresh'
        BY <1>1, <2>1 DEF CopiesCounted, Publishing, AttemptsFresh
    <2> QED
        BY <1>1, <2>1, <2>2, <2>3 DEF CopiesCounted, CopiesPending
<1> QED
    BY <1>2, <1>3 DEF Handle

(* A replica told to stop has paid for the partitions it will give up. *)
LEMMA StopCounted ==
    ASSUME TypeInv, TypeInv', CopiesCounted, NEW r \in Replicas, Stop(r)
    PROVE  CopiesCounted'
<1>1. /\ UNCHANGED <<phase, cur, attempt, routed, crashes, owner, position>>
      /\ moves' = moves + 1 /\ stopping' = stopping \cup {r}
    BY DEF Stop, ToldToStop, outcome
<1>2. /\ IsFiniteSet(stopping') /\ Cardinality(stopping') \in Nat
      /\ Cardinality(stopping') <= Cardinality(stopping) + 1
    BY <1>1, AtMostOneMore, FS_CardinalityType DEF CopiesCounted
<1>3. Publishing' = Publishing /\ AttemptsFresh'
    BY <1>1 DEF CopiesCounted, Publishing, AttemptsFresh
<1>4. ASSUME NEW m \in Messages
      PROVE  CopiesPending(m)'
    <2>1. /\ Paid(m) \in Int /\ Unread(m) \in {0, 1} /\ Cardinality(stopping) \in Nat
          /\ crashes \in Nat /\ moves \in Nat /\ routed[m] \in Nat
          /\ Cardinality(Coming(m)) \in Nat
        BY PaidType, ComingFinite
    <2>2. Coming(m)' = Coming(m) /\ Unread(m)' = Unread(m)
        BY <1>1 DEF Coming, Unread
    <2>3. Paid(m)' \in Int /\ Paid(m) <= Paid(m)'
        BY <1>1, <1>2, <2>1, <2>2 DEF Paid
    <2> QED
        BY <1>1, <2>1, <2>2, <2>3, CountKept
<1> QED
    BY <1>2, <1>3, <1>4 DEF CopiesCounted

(* The partitions of a replica that leaves are read again, and the crash   *)
(* or the stop is counted.                                                 *)
LEMMA LeaveCounted ==
    ASSUME TypeInv, TypeInv', CopiesCounted, NEW r \in Replicas, Exit(r) \/ Crash(r)
    PROVE  CopiesCounted'
<1>1. /\ routed' = routed /\ moves' = moves /\ stopping' = stopping \ {r}
      /\ \A q \in Replicas : q # r => /\ cur'[q] = cur[q] /\ phase'[q] = phase[q]
                                      /\ attempt'[q] = attempt[q]
      /\ phase'[r] = "fetch"
      /\ attempt'[r] = attempt[r] \/ attempt'[r] = 1
    BY DEF Exit, Crash, LeaveByStop, LeaveByCrash, outcome, TypeInv, TypeOK
<1>2. attempt'[r] = 1
    BY <1>1 DEF Exit, Crash, CopiesCounted, AttemptsFresh, TypeInv, TypeOK
<1>3. IsFiniteSet(stopping') /\ IsFiniteSet(Publishing') /\ AttemptsFresh'
    <2>1. Publishing' \subseteq Publishing /\ stopping' \subseteq stopping
        BY <1>1 DEF Publishing
    <2>2. IsFiniteSet(Publishing') /\ IsFiniteSet(stopping')
        BY <2>1, FewerRemain DEF CopiesCounted
    <2> QED
        BY <1>1, <1>2, <2>2 DEF CopiesCounted, AttemptsFresh
<1>4. /\ Cardinality(stopping) \in Nat /\ Cardinality(stopping') \in Nat
      /\ crashes \in Nat /\ crashes' \in Nat
      /\ Cardinality(stopping') + 1 <= Cardinality(stopping) + crashes' - crashes
    <2>1. /\ Cardinality(stopping) \in Nat /\ Cardinality(stopping') \in Nat
          /\ crashes \in Nat
        BY <1>3, FS_CardinalityType, GroupAssumption
        DEF CopiesCounted, TypeInv, TypeOK, GroupTypeOK
    <2>2. CASE Exit(r)
        <3>1. r \in stopping /\ crashes' = crashes
            BY <2>2 DEF Exit, LeaveByStop
        <3>2. Cardinality(stopping') = Cardinality(stopping) - 1
            BY <1>1, <3>1, FS_RemoveElement DEF CopiesCounted
        <3> QED
            BY <2>1, <3>1, <3>2
    <2>3. CASE Crash(r)
        <3>1. crashes' = crashes + 1
            BY <2>3 DEF Crash, LeaveByCrash
        <3>2. Cardinality(stopping') <= Cardinality(stopping)
            BY <1>1, FewerRemain DEF CopiesCounted
        <3> QED
            BY <2>1, <3>1, <3>2
    <2> QED
        BY <2>2, <2>3
<1>5. ASSUME NEW m \in Messages
      PROVE  CopiesPending(m)'
    <2>1. /\ Paid(m) \in Int /\ Unread(m) \in {0, 1} /\ moves \in Nat /\ routed[m] \in Nat
          /\ IsFiniteSet(Coming(m)) /\ Cardinality(Coming(m)) \in Nat
        BY PaidType, ComingFinite
    <2>2. Coming(m)' \subseteq Coming(m)
        BY <1>1 DEF Coming
    <2>3. Cardinality(Coming(m)') <= Cardinality(Coming(m)) /\ Cardinality(Coming(m)') \in Nat
        BY <2>1, <2>2, FewerRemain
    <2>4. Unread(m)' \in {0, 1}
        BY DEF Unread
    <2>5. Paid(m)' \in Int /\ Paid(m) <= Paid(m)'
        BY <1>1, <1>4, <2>1, <2>4 DEF Paid
    <2>6. routed'[m] + Cardinality(Coming(m)') <= routed[m] + Cardinality(Coming(m))
        BY <1>1, <2>1, <2>3
    <2> QED
        BY <1>1, <2>1, <2>3, <2>5, <2>6, CountKept
<1> QED
    BY <1>3, <1>5 DEF CopiesCounted

LEMMA AssignCounted ==
    ASSUME TypeInv, TypeInv', CopiesCounted,
           NEW p \in Partitions, NEW r \in Replicas, Rebalance(p, r)
    PROVE  CopiesCounted'
<1>1. /\ UNCHANGED <<phase, cur, attempt, stopping, routed, crashes>>
      /\ moves' \in {moves, moves + 1} /\ Assign(p, r)
    BY DEF Rebalance, Assign, local, outcome
<1>2. IsFiniteSet(stopping') /\ IsFiniteSet(Publishing') /\ AttemptsFresh'
    <2>1. Publishing' = Publishing
        BY <1>1 DEF Publishing
    <2> QED
        BY <1>1, <2>1 DEF CopiesCounted, AttemptsFresh
<1>3. ASSUME NEW m \in Messages
      PROVE  CopiesPending(m)'
    <2>1. /\ Paid(m) \in Int /\ Unread(m) \in {0, 1} /\ Cardinality(stopping) \in Nat
          /\ crashes \in Nat /\ moves \in Nat /\ routed[m] \in Nat
          /\ Cardinality(Coming(m)) \in Nat
        BY PaidType, ComingFinite
    <2>2. Coming(m)' = Coming(m)
        BY <1>1 DEF Coming
    <2>3. Unread(m)' \in {0, 1} /\ Unread(m)' <= Unread(m) + moves' - moves
        BY <1>1, AssignUnread DEF TypeInv, TypeOK
    <2>4. Paid(m)' \in Int /\ Paid(m) <= Paid(m)'
        BY <1>1, <2>1, <2>3 DEF Paid
    <2> QED
        BY <1>1, <2>1, <2>2, <2>4, CountKept
<1> QED
    BY <1>2, <1>3 DEF CopiesCounted

LEMMA InitCounted == Init => CopiesCounted
<1> SUFFICES ASSUME Init PROVE CopiesCounted
    OBVIOUS
<1>1. /\ stopping = {} /\ Publishing = {} /\ crashes = 0 /\ moves = 0
      /\ \A m \in Messages : Coming(m) = {} /\ routed[m] = 0
    BY DEF Init, GroupInit, Publishing, Coming
<1>2. IsFiniteSet({}) /\ Cardinality({}) = 0
    BY FS_EmptySet
<1>3. AttemptsFresh
    BY DEF Init, AttemptsFresh
<1>4. ASSUME NEW m \in Messages
      PROVE  CopiesPending(m)
    <2>1. Unread(m) \in {0, 1}
        BY UnreadType
    <2>2. Paid(m) \in {0, 1}
        BY <1>1, <1>2, <2>1 DEF Paid
    <2>3. MaxAttempts \in Nat /\ MaxAttempts * 0 = 0 /\ MaxAttempts * 1 = MaxAttempts
        BY NotifierAssumption
    <2>4. 0 <= MaxAttempts * Paid(m)
        BY <2>2, <2>3
    <2> QED
        BY <1>1, <1>2, <2>4 DEF CopiesPending
<1> QED
    BY <1>1, <1>2, <1>3, <1>4 DEF CopiesCounted

LEMMA StepCounted ==
    TypeInv /\ TypeInv' /\ CopiesCounted /\ [Next]_vars => CopiesCounted'
<1> SUFFICES ASSUME TypeInv, TypeInv', CopiesCounted, [Next]_vars
             PROVE  CopiesCounted'
    OBVIOUS
<1>1. CASE Next
    BY <1>1, FetchCounted, HandleCounted, StopCounted, LeaveCounted, AssignCounted DEF Next
<1>2. CASE UNCHANGED vars
    <2>1. CopiesCounted' = CopiesCounted
        BY <1>2 DEF vars, groupVars, local, outcome, CopiesCounted, CopiesPending, Coming,
            Paid, Unread, Publishing, AttemptsFresh
    <2> QED
        BY <2>1
<1> QED
    BY <1>1, <1>2

(* One delivery of a result makes at most MaxAttempts copies of it for its *)
(* client: every further copy is paid for by a crash, a stop or a          *)
(* rebalance, and by none that paid for another one.                       *)
THEOREM CopiesNeedDeliveries == Safety => []CopiesBounded
<1>1. TypeInv /\ CopiesCounted => CopiesBounded
    <2> SUFFICES ASSUME TypeInv, CopiesCounted, NEW m \in Messages
                 PROVE  routed[m] <= MaxAttempts * (1 + crashes + moves)
        BY DEF CopiesBounded
    <2>1. /\ Paid(m) \in Int /\ Unread(m) \in {0, 1} /\ Cardinality(stopping) \in Nat
          /\ crashes \in Nat /\ moves \in Nat /\ routed[m] \in Nat
          /\ Cardinality(Coming(m)) \in Nat /\ MaxAttempts \in Nat
        BY PaidType, ComingFinite, NotifierAssumption
    <2>2. Paid(m) <= 1 + crashes + moves /\ 1 + crashes + moves \in Int
        BY <2>1 DEF Paid
    <2>3. MaxAttempts * Paid(m) <= MaxAttempts * (1 + crashes + moves)
        BY <2>1, <2>2, PaysForMore
    <2>4. MaxAttempts * Paid(m) \in Int /\ MaxAttempts * (1 + crashes + moves) \in Int
        BY <2>1
    <2>5. CopiesPending(m)
        BY DEF CopiesCounted
    <2> QED
        BY <2>1, <2>3, <2>4, <2>5 DEF CopiesPending
<1> QED
    BY InitType, StepType, InitCounted, StepCounted, <1>1, PTL DEF Safety
=============================================================================
