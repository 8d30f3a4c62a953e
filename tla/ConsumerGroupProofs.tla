------------------------ MODULE ConsumerGroupProofs ------------------------
(***************************************************************************)
(* Lemmas about the consumer group, for the proofs about the three         *)
(* services that read a topic through it.                                  *)
(***************************************************************************)
EXTENDS ConsumerGroup, FiniteSetTheorems, WellFoundedInduction, TLAPS

(* Replacing one element of a finite set does not enlarge it. *)
LEMMA ReplaceOne ==
    ASSUME NEW S, IsFiniteSet(S), NEW x \in S, NEW y
    PROVE  /\ IsFiniteSet((S \ {x}) \cup {y})
           /\ Cardinality((S \ {x}) \cup {y}) <= Cardinality(S)
<1>1. IsFiniteSet(S \ {x}) /\ Cardinality(S \ {x}) = Cardinality(S) - 1
    BY FS_RemoveElement
<1>2. /\ IsFiniteSet((S \ {x}) \cup {y})
      /\ \/ Cardinality((S \ {x}) \cup {y}) = Cardinality(S \ {x})
         \/ Cardinality((S \ {x}) \cup {y}) = Cardinality(S \ {x}) + 1
    BY <1>1, FS_AddElement
<1>3. Cardinality(S) \in Nat
    BY FS_CardinalityType
<1> QED
    BY <1>1, <1>2, <1>3

(* A set that grows by at most one element stays finite, and its size grows *)
(* by at most one.                                                         *)
LEMMA AtMostOneMore ==
    ASSUME NEW S, IsFiniteSet(S), NEW T, NEW x, T \subseteq S \cup {x}
    PROVE  IsFiniteSet(T) /\ Cardinality(T) <= Cardinality(S) + 1
<1>1. /\ IsFiniteSet(S \cup {x})
      /\ \/ Cardinality(S \cup {x}) = Cardinality(S)
         \/ Cardinality(S \cup {x}) = Cardinality(S) + 1
    BY FS_AddElement
<1>2. T \in SUBSET (S \cup {x})
    OBVIOUS
<1>3. IsFiniteSet(T) /\ Cardinality(T) <= Cardinality(S \cup {x})
    BY <1>1, <1>2, FS_Subset
<1>4. Cardinality(S) \in Nat /\ Cardinality(T) \in Nat
    BY <1>3, FS_CardinalityType
<1> QED
    BY <1>1, <1>3, <1>4

LEMMA FewerRemain ==
    ASSUME NEW S, IsFiniteSet(S), NEW T, T \subseteq S
    PROVE  IsFiniteSet(T) /\ Cardinality(T) <= Cardinality(S) /\ Cardinality(T) \in Nat
<1>1. T \in SUBSET S
    OBVIOUS
<1> QED
    BY <1>1, FS_Subset, FS_CardinalityType

(* A set of numbers up to n that is not empty has a greatest one. *)
LEMMA GreatestExists ==
    ASSUME NEW n \in Nat, NEW S \in SUBSET (0..n), S # {}
    PROVE  \E x \in S : \A y \in S : y <= x
<1> DEFINE Mirror == {k \in Nat : k <= n /\ n - k \in S}
<1>1. Mirror \subseteq Nat
    OBVIOUS
<1>2. Mirror # {}
    <2>1. PICK x \in S : TRUE
        OBVIOUS
    <2>2. n - x \in Nat /\ n - x <= n /\ n - (n - x) = x
        OBVIOUS
    <2> QED
        BY <2>1, <2>2
<1> HIDE DEF Mirror
<1>3. PICK k \in Mirror : \A l \in Mirror : ~ (<<l, k>> \in OpToRel(<, Nat))
    BY <1>1, <1>2, NatLessThanWellFounded, WFMin
<1>4. \A l \in Mirror : ~ (l < k)
    BY <1>1, <1>3 DEF OpToRel
<1>5. k \in Nat /\ k <= n /\ n - k \in S
    BY DEF Mirror
<1>6. ASSUME NEW y \in S
      PROVE  y <= n - k
    <2>1. n - y \in Mirror
        <3>1. n - y \in Nat /\ n - y <= n /\ n - (n - y) = y
            OBVIOUS
        <3> QED
            BY <3>1 DEF Mirror
    <2> QED
        BY <1>4, <1>5, <2>1
<1> QED
    BY <1>5, <1>6

LEMMA MessagesType == \A m \in Messages : m \in Nat /\ m \in 0..N /\ Part[m] \in Partitions
BY GroupAssumption DEF Messages

(* CommitMessages of a set moves the offset of a partition to the last of  *)
(* the set's messages in it, and of no other partition.                    *)
LEMMA StoredLast ==
    ASSUME NEW S \in SUBSET Messages, NEW p \in Partitions, \E m \in S : Part[m] = p
    PROVE  /\ Stored(S)[p] \in S
           /\ Part[Stored(S)[p]] = p
           /\ \A k \in S : Part[k] = p => k <= Stored(S)[p]
<1> DEFINE T == {m \in S : Part[m] = p}
<1>1. PICK x \in T : \A y \in T : y <= x
    <2>1. T # {}
        OBVIOUS
    <2>2. T \subseteq 0..N
        BY MessagesType
    <2> HIDE DEF T
    <2> QED
        BY <2>1, <2>2, GreatestExists, GroupAssumption
<1>2. \E m \in S : Part[m] = p /\ \A k \in S : Part[k] = p => k <= m
    BY <1>1
<1>3. Stored(S)[p] = CHOOSE m \in S : Part[m] = p /\ \A k \in S : Part[k] = p => k <= m
    BY DEF Stored
<1> QED
    BY <1>2, <1>3

LEMMA StoredElsewhere ==
    ASSUME NEW S \in SUBSET Messages, NEW p \in Partitions, ~ \E m \in S : Part[m] = p
    PROVE  Stored(S)[p] = committed[p]
BY DEF Stored

(* CommitMessages of one message changes the offset of its partition only. *)
LEMMA StoredOne ==
    ASSUME NEW m \in Messages
    PROVE  Stored({m}) = [p \in Partitions |-> IF p = Part[m] THEN m ELSE committed[p]]
<1>1. Part[m] \in Partitions
    BY GroupAssumption DEF Messages
<1>2. ASSUME NEW p \in Partitions, p = Part[m]
      PROVE  (CHOOSE k \in {m} : Part[k] = p /\ \A j \in {m} : Part[j] = p => j <= k) = m
    BY <1>2 DEF Messages
<1>3. ASSUME NEW p \in Partitions, p # Part[m]
      PROVE  ~ \E k \in {m} : Part[k] = p
    BY <1>3
<1> QED
    BY <1>1, <1>2, <1>3, Zenon DEF Stored

LEMMA GroupInitType == GroupInit => GroupTypeOK
BY GroupAssumption DEF GroupInit, GroupTypeOK

(* Each of the group's steps keeps its types. *)
LEMMA DeliverType ==
    ASSUME GroupTypeOK, NEW r \in Replicas, NEW m \in Messages, Deliver(r, m)
    PROVE  GroupTypeOK'
BY GroupAssumption DEF GroupTypeOK, Deliver, Messages

LEMMA CommitType ==
    ASSUME GroupTypeOK, NEW S \in SUBSET Messages, CommitMessages(S)
    PROVE  GroupTypeOK'
<1>1. ASSUME NEW p \in Partitions
      PROVE  Stored(S)[p] \in 0..N
    <2>1. CASE \E m \in S : Part[m] = p
        <3>1. Stored(S)[p] \in S
            BY <2>1, StoredLast
        <3> QED
            BY <3>1, MessagesType
    <2>2. CASE ~ \E m \in S : Part[m] = p
        BY <2>2, StoredElsewhere DEF GroupTypeOK
    <2> QED
        BY <2>1, <2>2
<1>2. Stored(S) \in [Partitions -> 0..N]
    BY <1>1 DEF Stored
<1> QED
    BY <1>2 DEF GroupTypeOK, CommitMessages

LEMMA AssignType ==
    ASSUME GroupTypeOK, NEW p \in Partitions, NEW r \in Replicas, Assign(p, r)
    PROVE  GroupTypeOK'
<1>1. owner' \in [Partitions -> Replicas \cup {NoOwner}]
    BY DEF GroupTypeOK, Assign
<1>2. position' \in [Partitions -> 0..N]
    BY DEF GroupTypeOK, Assign
<1>3. moves' \in 0..MaxMoves
    BY GroupAssumption DEF GroupTypeOK, Assign
<1> QED
    BY <1>1, <1>2, <1>3 DEF GroupTypeOK, Assign

LEMMA LeaveType ==
    ASSUME GroupTypeOK, NEW r \in Replicas, LeaveByCrash(r) \/ LeaveByStop(r)
    PROVE  GroupTypeOK'
<1>1. owner' \in [Partitions -> Replicas \cup {NoOwner}]
    BY DEF GroupTypeOK, LeaveByCrash, LeaveByStop, Leave
<1>2. crashes' \in 0..MaxCrashes
    BY GroupAssumption DEF GroupTypeOK, LeaveByCrash, LeaveByStop, Leave
<1> QED
    BY <1>1, <1>2 DEF GroupTypeOK, LeaveByCrash, LeaveByStop, Leave

LEMMA ToldToStopType ==
    ASSUME GroupTypeOK, ToldToStop
    PROVE  GroupTypeOK'
BY GroupAssumption DEF GroupTypeOK, ToldToStop

LEMMA GroupUnchangedType ==
    ASSUME GroupTypeOK, UNCHANGED groupVars
    PROVE  GroupTypeOK'
BY DEF GroupTypeOK, groupVars
-----------------------------------------------------------------------------
LEMMA MessagesFinite == IsFiniteSet(Messages)
BY FS_Interval, GroupAssumption DEF Messages

(* One more crash pays for what it dropped. *)
LEMMA CrashPays ==
    ASSUME NEW A \in SUBSET Messages, NEW B \in SUBSET Messages,
           NEW w \in Nat, NEW c \in Nat,
           Cardinality(A) <= w * c, Cardinality(B) <= w
    PROVE  Cardinality(A \cup B) <= w * (c + 1)
<1>1. IsFiniteSet(A) /\ IsFiniteSet(B)
    BY MessagesFinite, FS_Subset
<1>2. Cardinality(A) \in Nat /\ Cardinality(B) \in Nat /\ Cardinality(A \cap B) \in Nat
    BY <1>1, FS_CardinalityType, FS_Intersection
<1>3. Cardinality(A \cup B) <= Cardinality(A) + Cardinality(B)
    <2>1. Cardinality(A \cup B) = Cardinality(A) + Cardinality(B) - Cardinality(A \cap B)
        BY <1>1, FS_Union, Zenon
    <2> QED
        BY <1>2, <2>1
<1>4. w * (c + 1) = w * c + w /\ w * c \in Nat
    OBVIOUS
<1>5. Cardinality(A \cup B) \in Nat
    BY <1>1, FS_Union, FS_CardinalityType
<1> QED
    BY <1>2, <1>3, <1>4, <1>5

-----------------------------------------------------------------------------
(* A message that the partition will deliver, as far as the group knows. *)
Unread(m) == IF owner[Part[m]] = NoOwner \/ position[Part[m]] < m THEN 1 ELSE 0

LEMMA UnreadType == \A m \in Messages : Unread(m) \in {0, 1}
BY DEF Unread

(* A delivery is the last one of its message as long as the owner stays. *)
LEMMA DeliverUnread ==
    ASSUME GroupTypeOK, NEW r \in Replicas, NEW k \in Messages, Deliver(r, k)
    PROVE  /\ Unread(k) = 1 /\ Unread(k)' = 0
           /\ \A m \in Messages : Unread(m)' <= Unread(m) /\ Unread(m)' \in {0, 1}
<1>1. /\ owner' = owner /\ position' = [position EXCEPT ![Part[k]] = k]
      /\ owner[Part[k]] = r /\ r # NoOwner /\ position[Part[k]] < k
      /\ Part[k] \in Partitions
    BY GroupAssumption, MessagesType DEF Deliver
<1>2. Unread(k) = 1
    BY <1>1 DEF Unread
<1>3. Unread(k)' = 0
    <2>1. position'[Part[k]] = k /\ ~ (k < k)
        BY <1>1, MessagesType DEF GroupTypeOK
    <2> QED
        BY <1>1, <2>1 DEF Unread
<1>4. ASSUME NEW m \in Messages
      PROVE  Unread(m)' <= Unread(m) /\ Unread(m)' \in {0, 1}
    <2>1. CASE Part[m] = Part[k]
        <3>1. position'[Part[m]] = k /\ owner'[Part[m]] = r
            BY <1>1, <2>1 DEF GroupTypeOK
        <3>2. k < m => position[Part[m]] < m
            BY <1>1, <2>1, MessagesType DEF GroupTypeOK
        <3> QED
            BY <1>1, <3>1, <3>2 DEF Unread
    <2>2. CASE Part[m] # Part[k]
        <3>1. position'[Part[m]] = position[Part[m]]
            BY <1>1, <2>2, MessagesType DEF GroupTypeOK
        <3> QED
            BY <1>1, <3>1 DEF Unread
    <2> QED
        BY <2>1, <2>2
<1> QED
    BY <1>2, <1>3, <1>4

(* A rebalance that rewinds a position is counted; the first assignment of *)
(* a partition rewinds nothing that was not due.                           *)
LEMMA AssignUnread ==
    ASSUME GroupTypeOK, NEW p \in Partitions, NEW r \in Replicas, Assign(p, r),
           NEW m \in Messages
    PROVE  Unread(m)' \in {0, 1} /\ Unread(m)' <= Unread(m) + moves' - moves
<1>1. /\ owner' = [owner EXCEPT ![p] = r]
      /\ position' = [position EXCEPT ![p] = committed[p]]
      /\ owner[p] # NoOwner => moves' = moves + 1
      /\ moves' \in {moves, moves + 1} /\ moves \in Nat
    BY GroupAssumption DEF Assign, GroupTypeOK
<1>2. Unread(m) \in {0, 1} /\ Unread(m)' \in {0, 1}
    BY DEF Unread
<1>3. CASE Part[m] = p
    <2>1. owner[p] = NoOwner => Unread(m) = 1
        BY <1>3 DEF Unread
    <2> QED
        BY <1>1, <1>2, <2>1
<1>4. CASE Part[m] # p
    <2>1. owner'[Part[m]] = owner[Part[m]] /\ position'[Part[m]] = position[Part[m]]
        BY <1>1, <1>4, MessagesType DEF GroupTypeOK
    <2>2. Unread(m)' = Unread(m)
        BY <2>1 DEF Unread
    <2> QED
        BY <1>1, <1>2, <2>2
<1> QED
    BY <1>3, <1>4
=============================================================================
