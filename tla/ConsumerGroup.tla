--------------------------- MODULE ConsumerGroup ---------------------------
(***************************************************************************)
(* A Kafka topic read by one consumer group through kafka-go's Reader, as  *)
(* the three consuming services use it: FetchMessage hands out the         *)
(* messages of a partition in order from an in-memory position,            *)
(* CommitMessages stores one offset per partition, whatever was stored     *)
(* before, and a partition that is assigned anew is read from the          *)
(* committed offset.  kafka-go is not part of the repository.              *)
(*                                                                         *)
(* Messages are numbered over the whole topic, in an order that agrees     *)
(* with the offsets of every partition: "the committed offset of p is m"   *)
(* says that every message of p up to m counts as consumed.                *)
(***************************************************************************)
EXTENDS Naturals, FiniteSets

CONSTANTS N,            \* the number of messages of the topic
          Partitions,
          Part,         \* the partition of each message
          Replicas,     \* the processes of the service
          NoOwner,      \* the owner of an unassigned partition
          MaxCrashes,   \* bound on the number of crashes
          MaxMoves      \* bound on the number of rebalances and of stops

ASSUME GroupAssumption ==
    /\ N \in Nat
    /\ Part \in [1..N -> Partitions]
    /\ NoOwner \notin Replicas
    /\ MaxCrashes \in Nat
    /\ MaxMoves \in Nat

VARIABLES committed,    \* the committed offset of each partition (0: none)
          position,     \* the last message fetched from each partition
          owner,        \* the replica each partition is assigned to
          crashes,      \* crashes so far
          moves         \* rebalances and stops so far

groupVars == <<committed, position, owner, crashes, moves>>

Messages == 1..N

(* The messages a restarted group would not read again. *)
Behind(offsets) == {m \in Messages : m <= offsets[Part[m]]}

GroupTypeOK ==
    /\ committed \in [Partitions -> 0..N]
    /\ position \in [Partitions -> 0..N]
    /\ owner \in [Partitions -> Replicas \cup {NoOwner}]
    /\ crashes \in 0..MaxCrashes
    /\ moves \in 0..MaxMoves

GroupInit ==
    /\ committed = [p \in Partitions |-> 0]
    /\ position = [p \in Partitions |-> 0]
    /\ owner = [p \in Partitions |-> NoOwner]
    /\ crashes = 0
    /\ moves = 0

-----------------------------------------------------------------------------
(* FetchMessage returns m to r: the next one of a partition r owns. *)
Deliver(r, m) ==
    /\ owner[Part[m]] = r
    /\ position[Part[m]] < m
    /\ \A k \in Messages : Part[k] = Part[m] /\ k < m => k <= position[Part[m]]
    /\ position' = [position EXCEPT ![Part[m]] = m]
    /\ UNCHANGED <<committed, owner, crashes, moves>>

(* CommitMessages of the set S: for every partition the last message in S. *)
Stored(S) ==
    [p \in Partitions |->
        IF \E m \in S : Part[m] = p
        THEN CHOOSE m \in S : Part[m] = p /\ \A k \in S : Part[k] = p => k <= m
        ELSE committed[p]]

(* The request may fail, and may have been carried out all the same: the   *)
(* callers only log the error.                                             *)
CommitMessages(S) ==
    /\ committed' \in {committed, Stored(S)}
    /\ UNCHANGED <<position, owner, crashes, moves>>

-----------------------------------------------------------------------------
(* A partition is assigned to r, because it has no owner or because the    *)
(* group rebalances.  The new position is the committed offset.            *)
Assign(p, r) ==
    /\ \/ owner[p] = NoOwner /\ UNCHANGED moves
       \/ owner[p] # NoOwner /\ moves < MaxMoves /\ moves' = moves + 1
    /\ owner' = [owner EXCEPT ![p] = r]
    /\ position' = [position EXCEPT ![p] = committed[p]]
    /\ UNCHANGED <<committed, crashes>>

(* The process of r ends and its partitions are left without an owner.  A  *)
(* fresh process takes its place; it is idle until it is assigned one.     *)
Leave(r) ==
    /\ owner' = [p \in Partitions |-> IF owner[p] = r THEN NoOwner ELSE owner[p]]
    /\ UNCHANGED <<committed, position>>

LeaveByCrash(r) ==
    /\ crashes < MaxCrashes
    /\ crashes' = crashes + 1
    /\ UNCHANGED moves
    /\ Leave(r)

(* A stop is counted when the process is told to stop; it leaves later.    *)
ToldToStop ==
    /\ moves < MaxMoves
    /\ moves' = moves + 1
    /\ UNCHANGED <<committed, position, owner, crashes>>

LeaveByStop(r) ==
    /\ Leave(r)
    /\ UNCHANGED <<crashes, moves>>
=============================================================================
