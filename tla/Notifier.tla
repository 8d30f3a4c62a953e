------------------------------ MODULE Notifier ------------------------------
(***************************************************************************)
(* The result notifier: every replica runs one loop (Processor.Run) that   *)
(* fetches a fraud result, republishes it to the topic of its client, with *)
(* retries, or parks it in the unrouted DLQ, and then commits its offset.  *)
(* When the DLQ publish fails as well, the loop goes on without a commit.  *)
(***************************************************************************)
EXTENDS ConsumerGroup

CONSTANTS Unroutable,   \* messages that do not decode or name no valid client
          MaxAttempts   \* retry.max_attempts

ASSUME NotifierAssumption ==
    /\ Unroutable \subseteq Messages
    /\ MaxAttempts \in Nat \ {0}

VARIABLES phase,        \* where each replica's loop stands
          cur,          \* the message it handles (0: none)
          attempt,      \* the publish attempt it is at
          stopping,     \* the replicas whose context is cancelled
          routed,       \* copies of each message on its client's topic
          parked,       \* messages whose publish to the unrouted DLQ succeeded
          abandoned     \* messages some handler gave up with an error

local == <<phase, cur, attempt, stopping>>
outcome == <<routed, parked, abandoned>>
vars == <<groupVars, local, outcome>>

Phases == {"fetch", "publish", "dlq", "commit"}

TypeOK ==
    /\ GroupTypeOK
    /\ phase \in [Replicas -> Phases]
    /\ cur \in [Replicas -> 0..N]
    /\ attempt \in [Replicas -> 1..MaxAttempts]
    /\ stopping \subseteq Replicas
    /\ routed \in [Messages -> Nat]
    /\ parked \subseteq Messages
    /\ abandoned \subseteq Messages

Init ==
    /\ GroupInit
    /\ phase = [r \in Replicas |-> "fetch"]
    /\ cur = [r \in Replicas |-> 0]
    /\ attempt = [r \in Replicas |-> 1]
    /\ stopping = {}
    /\ routed = [m \in Messages |-> 0]
    /\ parked = {}
    /\ abandoned = {}

-----------------------------------------------------------------------------
(* Variations that the properties below rule out: an attempt too many, a   *)
(* failed message dropped or retried without a count, an error swallowed.  *)
PublishFailsOffByOne(r) ==
    /\ phase[r] = "publish"
    /\ routed' \in {routed, [routed EXCEPT ![cur[r]] = @ + 1]}
    /\ \/ /\ attempt[r] <= MaxAttempts
          /\ attempt' = [attempt EXCEPT ![r] = @ + 1]
          /\ phase' = phase
       \/ /\ attempt[r] > MaxAttempts
          /\ phase' = [phase EXCEPT ![r] = "dlq"]
          /\ attempt' = [attempt EXCEPT ![r] = 1]
    /\ UNCHANGED <<groupVars, cur, stopping, parked, abandoned>>

PublishFailsAndDrops(r) ==
    /\ phase[r] = "publish"
    /\ phase' = [phase EXCEPT ![r] = "fetch"]
    /\ cur' = [cur EXCEPT ![r] = 0]
    /\ attempt' = [attempt EXCEPT ![r] = 1]
    /\ UNCHANGED <<groupVars, stopping, outcome>>

ParkFailsAndStartsOver(r) ==
    /\ phase[r] = "dlq"
    /\ phase' = [phase EXCEPT ![r] = IF cur[r] \in Unroutable THEN "dlq" ELSE "publish"]
    /\ UNCHANGED <<groupVars, cur, attempt, stopping, outcome>>

ParkFailsSilently(r) ==
    /\ phase[r] = "dlq"
    /\ phase' = [phase EXCEPT ![r] = "commit"]
    /\ UNCHANGED <<groupVars, cur, attempt, stopping, outcome>>

-----------------------------------------------------------------------------
(* FetchMessage, and the part of handle that only reads the message:       *)
(* deserializeFraudResult and ResolveTopic.                                *)
Fetch(r) ==
    /\ phase[r] = "fetch"
    /\ \E m \in Messages :
          /\ Deliver(r, m)
          /\ cur' = [cur EXCEPT ![r] = m]
          /\ phase' = [phase EXCEPT
                          ![r] = IF m \in Unroutable THEN "dlq" ELSE "publish"]
    /\ UNCHANGED <<attempt, stopping, outcome>>

PublishSucceeds(r) ==
    /\ phase[r] = "publish"
    /\ routed' = [routed EXCEPT ![cur[r]] = @ + 1]
    /\ phase' = [phase EXCEPT ![r] = "commit"]
    /\ attempt' = [attempt EXCEPT ![r] = 1]
    /\ UNCHANGED <<groupVars, cur, stopping, parked, abandoned>>

(* WriteMessages returned an error.  The broker may have the message all   *)
(* the same.  publishWithRetry tries again unless this was the last        *)
(* attempt or the context ends its wait.                                   *)
PublishFails(r) ==
    /\ phase[r] = "publish"
    /\ routed' \in {routed, [routed EXCEPT ![cur[r]] = @ + 1]}
    /\ \/ /\ attempt[r] < MaxAttempts
          /\ r \notin stopping
          /\ attempt' = [attempt EXCEPT ![r] = @ + 1]
          /\ phase' = phase
       \/ /\ attempt[r] = MaxAttempts \/ r \in stopping
          /\ phase' = [phase EXCEPT ![r] = "dlq"]
          /\ attempt' = [attempt EXCEPT ![r] = 1]
    /\ UNCHANGED <<groupVars, cur, stopping, parked, abandoned>>

Park(r) ==
    /\ phase[r] = "dlq"
    /\ parked' = parked \cup {cur[r]}
    /\ phase' = [phase EXCEPT ![r] = "commit"]
    /\ UNCHANGED <<groupVars, cur, attempt, stopping, routed, abandoned>>

(* The DLQ publish fails too: handle returns the error and Run continues   *)
(* with the next message, without a commit and without a rewind.           *)
ParkFails(r) ==
    /\ phase[r] = "dlq"
    /\ abandoned' = abandoned \cup {cur[r]}
    /\ phase' = [phase EXCEPT ![r] = "fetch"]
    /\ cur' = [cur EXCEPT ![r] = 0]
    /\ UNCHANGED <<groupVars, attempt, stopping, routed, parked>>

Commit(r) ==
    /\ phase[r] = "commit"
    /\ CommitMessages({cur[r]})
    /\ phase' = [phase EXCEPT ![r] = "fetch"]
    /\ cur' = [cur EXCEPT ![r] = 0]
    /\ UNCHANGED <<attempt, stopping, outcome>>

-----------------------------------------------------------------------------
(* SIGTERM cancels the context; the loop leaves when it is back at its     *)
(* FetchMessage, which may still return a message before it sees the       *)
(* cancellation.                                                           *)
Stop(r) ==
    /\ r \notin stopping
    /\ ToldToStop
    /\ stopping' = stopping \cup {r}
    /\ UNCHANGED <<phase, cur, attempt, outcome>>

Exit(r) ==
    /\ r \in stopping
    /\ phase[r] = "fetch"
    /\ LeaveByStop(r)
    /\ stopping' = stopping \ {r}
    /\ UNCHANGED <<phase, cur, attempt, outcome>>

(* The process dies; all it held in memory is gone. *)
Crash(r) ==
    /\ LeaveByCrash(r)
    /\ phase' = [phase EXCEPT ![r] = "fetch"]
    /\ cur' = [cur EXCEPT ![r] = 0]
    /\ attempt' = [attempt EXCEPT ![r] = 1]
    /\ stopping' = stopping \ {r}
    /\ UNCHANGED outcome

Rebalance(p, r) == Assign(p, r) /\ UNCHANGED <<local, outcome>>

Handle(r) == \/ PublishSucceeds(r) \/ PublishFails(r)
             \/ Park(r) \/ ParkFails(r)
             \/ Commit(r)

Next == \/ \E r \in Replicas : \/ Fetch(r) \/ Handle(r)
                               \/ Stop(r) \/ Exit(r) \/ Crash(r)
        \/ \E p \in Partitions, r \in Replicas : Rebalance(p, r)

(* The loops go on, and the group assigns every partition.  Nothing is     *)
(* assumed of the outcome of a publish.                                    *)
Fairness ==
    /\ \A r \in Replicas : /\ WF_vars(Fetch(r))
                           /\ WF_vars(Handle(r))
                           /\ WF_vars(Exit(r))
    /\ \A p \in Partitions :
          WF_vars(owner[p] = NoOwner /\ \E r \in Replicas : Rebalance(p, r))

Safety == Init /\ [][Next]_vars
Spec == Safety /\ Fairness

-----------------------------------------------------------------------------
Routed == {m \in Messages : routed[m] > 0}

(* A message has an outcome when its client has it, when it is in the DLQ, *)
(* or when a handler gave up on it and logged so.                          *)
Settled == Routed \cup parked \cup abandoned

(* What is behind a committed offset, behind the message in a replica's    *)
(* hands, or behind the position of a partition someone owns, has an       *)
(* outcome already; at the position it may still be in the owner's hands.  *)
(* The replicas need not agree on who owns a partition for that: one that  *)
(* lost it still holds and commits its last message (Run, handle).         *)
InOrder ==
    /\ Behind(committed) \subseteq Settled
    /\ \A r \in Replicas : phase[r] = "commit" => cur[r] \in Settled
    /\ \A r \in Replicas : cur[r] # 0 =>
          \A m \in Messages : Part[m] = Part[cur[r]] /\ m < cur[r] => m \in Settled
    /\ \A m \in Messages : owner[Part[m]] # NoOwner /\ m <= position[Part[m]] =>
          m \in Settled \/ cur[owner[Part[m]]] = m

Held == {cur[r] : r \in Replicas}

Lost == Behind(committed) \ (Settled \cup Held)

Contract == INSTANCE AtLeastOnce
                WITH settled <- Settled, lost <- Lost, Window <- 0

(* The notifier is at-least-once in the strict sense: no message is passed *)
(* by the committed offset before it was routed, parked or given up with   *)
(* an error that Run logs, across crashes, stops, rebalances and commits   *)
(* that fail, are late or move the offset back (Processor.Run, handle).    *)
NeverLoses == Contract!Safety

(* Every message gets such an outcome in the end: the loop is blocked by   *)
(* no failure of a publish, of the DLQ or of a commit.                     *)
EveryMessageSettles == Contract!Progress

(* A client sees a result again only because an attempt failed after the   *)
(* broker had it or because the message was delivered again: one delivery  *)
(* accounts for at most max_attempts calls of WriteMessages that reach the *)
(* broker (publishWithRetry), and only a crash, a stop or a rebalance      *)
(* causes another delivery.                                                *)
CopiesBounded ==
    \A m \in Messages : routed[m] <= MaxAttempts * (1 + crashes + moves)

(* The comment in Run: "Commit only after the message is either            *)
(* successfully routed or safely parked in the unrouted DLQ - never on an  *)
(* unhandled error".  The committed offset covers what precedes it.        *)
CommitsOnlyRoutedOrParked == Behind(committed) \subseteq Routed \cup parked
=============================================================================
