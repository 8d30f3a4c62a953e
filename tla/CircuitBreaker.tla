--------------------------- MODULE CircuitBreaker ---------------------------
(***************************************************************************)
(* The circuit breaker of the fraud engine around its calls to the Risk    *)
(* Service.  Its state is three keys in Redis, shared by the goroutines of *)
(* all replicas and changed one command at a time: nothing makes the       *)
(* commands of Allow, RecordSuccess or RecordFailure one step.  A missing  *)
(* state key counts as HALF_OPEN: that is how OPEN ends (by its TTL) and   *)
(* how the system starts.                                                  *)
(*                                                                         *)
(* The two counters are only compared with their thresholds, so they stop  *)
(* there.  EXPIRE after INCR has no step: a counter may expire any time.   *)
(***************************************************************************)
EXTENDS Naturals, FiniteSets

CONSTANTS Callers,          \* goroutines of any replica that make a risk call
          FailureThreshold,
          SuccessThreshold,
          MaxFaults,        \* bound on the errors of Redis and on crashes
          MaxExpiries       \* bound on the number of counters that expire

ASSUME BreakerAssumption ==
    /\ IsFiniteSet(Callers)
    /\ FailureThreshold \in Nat \ {0}
    /\ SuccessThreshold \in Nat \ {0}
    /\ MaxFaults \in Nat
    /\ MaxExpiries \in Nat

VARIABLES state,            \* the state key ("HALF_OPEN": no key)
          failures,         \* the failures key (0: no key, or "0")
          successes,        \* the failures:success key
          pc,               \* the next command of each caller
          up,               \* whether the Risk Service answers in time
          failed,           \* how many calls failed, up to the threshold
          streak,           \* successes since a call failed, up to the threshold
          faults,
          expiries

redis == <<state, failures, successes>>
history == <<failed, streak>>
env == <<faults, expiries>>
vars == <<redis, pc, up, history, env>>

States == {"CLOSED", "OPEN", "HALF_OPEN"}
Commands == {"idle", "call", "succeeded", "probe", "close", "zero", "clean",
             "failed", "open"}

AtMost(bound, n) == IF n < bound THEN n ELSE bound

TypeOK ==
    /\ state \in States
    /\ failures \in 0..FailureThreshold
    /\ successes \in 0..SuccessThreshold
    /\ pc \in [Callers -> Commands]
    /\ up \in BOOLEAN
    /\ failed \in 0..FailureThreshold
    /\ streak \in 0..SuccessThreshold
    /\ faults \in 0..MaxFaults
    /\ expiries \in 0..MaxExpiries

Init ==
    /\ state = "HALF_OPEN"
    /\ failures = 0
    /\ successes = 0
    /\ pc = [c \in Callers |-> "idle"]
    /\ up \in BOOLEAN
    /\ failed = 0
    /\ streak = 0
    /\ faults = 0
    /\ expiries = 0

-----------------------------------------------------------------------------
(* Variations that the properties below rule out: a threshold that is met  *)
(* once only, one call too early or never, a CLOSED with a TTL.            *)
IncrFailuresExactly(c) ==
    /\ pc[c] = "failed"
    /\ failures' = AtMost(FailureThreshold, failures + 1)
    /\ pc' = [pc EXCEPT ![c] = IF failures + 1 = FailureThreshold
                               THEN "open" ELSE "idle"]
    /\ UNCHANGED <<state, successes, up, history, env>>

IncrFailuresOffByOne(c) ==
    /\ pc[c] = "failed"
    /\ failures' = AtMost(FailureThreshold, failures + 1)
    /\ pc' = [pc EXCEPT ![c] = IF failures + 1 >= FailureThreshold - 1
                               THEN "open" ELSE "idle"]
    /\ UNCHANGED <<state, successes, up, history, env>>

IncrFailuresOnly(c) ==
    /\ pc[c] = "failed"
    /\ failures' = failures + 1
    /\ pc' = [pc EXCEPT ![c] = "idle"]
    /\ UNCHANGED <<state, successes, up, history, env>>

ExpireClosedToo ==
    /\ state # "HALF_OPEN"
    /\ state' = "HALF_OPEN"
    /\ UNCHANGED <<failures, successes, pc, up, history, env>>

-----------------------------------------------------------------------------
Goto(c, command) == pc' = [pc EXCEPT ![c] = command]

(* An error of Redis. *)
Fault == faults < MaxFaults /\ faults' = faults + 1 /\ UNCHANGED expiries

(* Allow reads the state key; only OPEN refuses the call, an error does    *)
(* not.  A refused caller answers with the fallback score, and is done.    *)
Allow(c) ==
    /\ pc[c] = "idle"
    /\ \/ state # "OPEN" /\ UNCHANGED env
       \/ Fault
    /\ Goto(c, "call")
    /\ UNCHANGED <<redis, up, history>>

(* CalculateRisk returns. *)
CallReturns(c) ==
    /\ pc[c] = "call"
    /\ IF up
       THEN /\ Goto(c, "succeeded")
            /\ streak' = AtMost(SuccessThreshold, streak + 1)
            /\ UNCHANGED failed
       ELSE /\ Goto(c, "failed")
            /\ failed' = AtMost(FailureThreshold, failed + 1)
            /\ streak' = 0
    /\ UNCHANGED <<redis, up, env>>

-----------------------------------------------------------------------------
(* RecordSuccess: nothing unless the state key reads HALF_OPEN. *)
ReadState(c) ==
    /\ pc[c] = "succeeded"
    /\ \/ Goto(c, IF state = "HALF_OPEN" THEN "probe" ELSE "idle") /\ UNCHANGED env
       \/ Goto(c, "idle") /\ Fault
    /\ UNCHANGED <<redis, up, history>>

IncrSuccesses(c) ==
    /\ pc[c] = "probe"
    /\ successes' = AtMost(SuccessThreshold, successes + 1)
    /\ Goto(c, IF successes + 1 >= SuccessThreshold THEN "close" ELSE "idle")
    /\ UNCHANGED <<state, failures, up, history, env>>

(* setState: SET of the state key without a TTL, SET of the failures. *)
SetClosed(c) ==
    /\ pc[c] = "close"
    /\ state' = "CLOSED"
    /\ Goto(c, "zero")
    /\ UNCHANGED <<failures, successes, up, history, env>>

ZeroFailures(c) ==
    /\ pc[c] = "zero"
    /\ failures' = 0
    /\ Goto(c, "clean")
    /\ UNCHANGED <<state, successes, up, history, env>>

DelCounters(c) ==
    /\ pc[c] = "clean"
    /\ failures' = 0
    /\ successes' = 0
    /\ Goto(c, "idle")
    /\ UNCHANGED <<state, up, history, env>>

-----------------------------------------------------------------------------
(* RecordFailure, whatever the state key says. *)
IncrFailures(c) ==
    /\ pc[c] = "failed"
    /\ failures' = AtMost(FailureThreshold, failures + 1)
    /\ Goto(c, IF failures + 1 >= FailureThreshold THEN "open" ELSE "idle")
    /\ UNCHANGED <<state, successes, up, history, env>>

SetOpen(c) ==
    /\ pc[c] = "open"
    /\ state' = "OPEN"
    /\ Goto(c, "idle")
    /\ UNCHANGED <<failures, successes, up, history, env>>

(* An INCR returns an error, whether it took effect or not: the recording  *)
(* ends here.                                                              *)
IncrFails(c) ==
    /\ \/ /\ pc[c] = "probe"
          /\ successes' \in {successes, AtMost(SuccessThreshold, successes + 1)}
          /\ UNCHANGED failures
       \/ /\ pc[c] = "failed"
          /\ failures' \in {failures, AtMost(FailureThreshold, failures + 1)}
          /\ UNCHANGED successes
    /\ Fault
    /\ Goto(c, "idle")
    /\ UNCHANGED <<state, up, history>>

(* A SET or DEL that has no effect is at most logged: the next command     *)
(* follows all the same.                                                   *)
SetFails(c) ==
    /\ pc[c] \in {"close", "zero", "clean", "open"}
    /\ Goto(c, CASE pc[c] = "close" -> "zero"
                 [] pc[c] = "zero" -> "clean"
                 [] OTHER -> "idle")
    /\ Fault
    /\ UNCHANGED <<redis, up, history>>

(* The process of the caller dies between two commands. *)
Die(c) ==
    /\ pc[c] # "idle"
    /\ Goto(c, "idle")
    /\ Fault
    /\ UNCHANGED <<redis, up, history>>

-----------------------------------------------------------------------------
(* The TTL of OPEN runs out. *)
ExpireOpen ==
    /\ state = "OPEN"
    /\ state' = "HALF_OPEN"
    /\ UNCHANGED <<failures, successes, pc, up, history, env>>

(* The TTL of a counter runs out, or Redis evicts it. *)
ExpireCounter ==
    /\ expiries < MaxExpiries
    /\ expiries' = expiries + 1
    /\ \/ failures' = 0 /\ UNCHANGED successes
       \/ successes' = 0 /\ UNCHANGED failures
    /\ UNCHANGED <<state, pc, up, history, faults>>

(* The Risk Service goes down or comes back. *)
Flip ==
    /\ up' = ~up
    /\ UNCHANGED <<redis, pc, history, env>>

Record(c) == \/ ReadState(c) \/ IncrSuccesses(c) \/ SetClosed(c)
             \/ ZeroFailures(c) \/ DelCounters(c)
             \/ IncrFailures(c) \/ SetOpen(c)
             \/ IncrFails(c) \/ SetFails(c)

Next == \/ \E c \in Callers : \/ Allow(c) \/ CallReturns(c) \/ Record(c)
                              \/ Die(c)
        \/ ExpireOpen \/ ExpireCounter \/ Flip

(* Transactions keep coming, calls return (call_timeout_ms), and the key   *)
(* of an OPEN circuit expires.                                             *)
Fairness ==
    /\ \A c \in Callers : WF_vars(Allow(c) \/ CallReturns(c) \/ Record(c))
    /\ WF_vars(ExpireOpen)

Safety == Init /\ [][Next]_vars
Spec == Safety /\ Fairness

-----------------------------------------------------------------------------
(* The circuit is never open before failure_threshold calls failed,        *)
(* however the commands of the callers interleave (RecordFailure).         *)
NoSpuriousOpen == state = "OPEN" => failed >= FailureThreshold

(* When the Risk Service is back for good the circuit is closed for good   *)
(* in the end: no late failure, no half-done transition and no counter     *)
(* left behind keeps it open or makes it expire (RecordSuccess, setState). *)
Recovers == <>[]up => <>[](state = "CLOSED")

(* When the Risk Service is down for good the circuit opens, and opens     *)
(* again whenever it has expired: no late success keeps it closed          *)
(* (RecordFailure).                                                        *)
TripsInOutage == <>[]~up => []<>(state = "OPEN")

(* breaker.go of RecordSuccess: "In HALF_OPEN state, once successThreshold *)
(* consecutive successes are recorded, the circuit transitions back to     *)
(* CLOSED".                                                                *)
ClosesAfterConsecutiveSuccesses ==
    [][state = "HALF_OPEN" /\ state' = "CLOSED" => streak >= SuccessThreshold]_vars
=============================================================================
