---------------------------- MODULE AtLeastOnce ----------------------------
(***************************************************************************)
(* What a stage of the pipeline promises about the messages of its input   *)
(* topic, whatever it does with them: a message that reached an outcome    *)
(* keeps it, and a message without one may become unreachable (its offset  *)
(* is behind the committed one and no process holds it) only because a     *)
(* process crashed, Window messages for each crash at the most.  A stage   *)
(* with Window = 0 loses nothing: it is at-least-once in the strict sense. *)
(***************************************************************************)
EXTENDS Naturals, FiniteSets

CONSTANTS Messages,   \* the messages of the input topic
          Window      \* how many of them one crash may make unreachable

VARIABLES settled,    \* the messages that reached an outcome
          lost,       \* those without one that will not be delivered again
          crashes     \* how many processes of the stage crashed so far

vars == <<settled, lost, crashes>>

LossBound == Cardinality(lost) <= Window * crashes

Init == /\ settled = {}
        /\ lost = {}
        /\ crashes = 0

(* Messages reach an outcome.  The set of lost ones may change with it, or *)
(* alone, in both directions: a rewound offset makes a message reachable.  *)
Resolve == /\ settled \subseteq settled'
           /\ settled' \subseteq Messages
           /\ lost' \subseteq Messages \ settled'
           /\ crashes' = crashes
           /\ LossBound'

Crash == /\ settled' = settled
         /\ lost' \subseteq Messages \ settled
         /\ crashes' = crashes + 1
         /\ LossBound'

Next == Resolve \/ Crash

Safety == Init /\ [][Next]_vars

(* In the end every message has reached an outcome, or is lost. *)
Progress == <>(Messages \subseteq settled \cup lost)

Spec == Safety /\ Progress
=============================================================================
