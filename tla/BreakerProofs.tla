---------------------------- MODULE BreakerProofs ----------------------------
(***************************************************************************)
(* Proofs about the circuit breaker, for any number of callers, any        *)
(* thresholds and any bounds on faults and expiring counters.              *)
(*                                                                         *)
(* TypeCorrect: the type invariant.                                        *)
(* NeverOpensEarly: the circuit is not open before failure_threshold calls *)
(*   failed.                                                               *)
(***************************************************************************)
EXTENDS CircuitBreaker, FiniteSetTheorems, TLAPS

-----------------------------------------------------------------------------
LEMMA AtMostType ==
    ASSUME NEW bound \in Nat, NEW n \in Nat
    PROVE  AtMost(bound, n) \in 0..bound
BY DEF AtMost

LEMMA InitType == Init => TypeOK
BY BreakerAssumption DEF Init, TypeOK, States, Commands

LEMMA NextType == TypeOK /\ [Next]_vars => TypeOK'
<1> SUFFICES ASSUME TypeOK, [Next]_vars
             PROVE  TypeOK'
    OBVIOUS
<1>t. /\ AtMost(FailureThreshold, failures + 1) \in 0..FailureThreshold
      /\ AtMost(FailureThreshold, failed + 1) \in 0..FailureThreshold
      /\ AtMost(SuccessThreshold, successes + 1) \in 0..SuccessThreshold
      /\ AtMost(SuccessThreshold, streak + 1) \in 0..SuccessThreshold
  <2>1. /\ failures + 1 \in Nat /\ failed + 1 \in Nat
        /\ successes + 1 \in Nat /\ streak + 1 \in Nat
        /\ FailureThreshold \in Nat /\ SuccessThreshold \in Nat
      BY BreakerAssumption DEF TypeOK
  <2> QED
      BY <2>1, AtMostType
<1> USE BreakerAssumption, <1>t
        DEF TypeOK, States, Commands, redis, history, env, Goto, Fault
<1>1. ASSUME NEW c \in Callers, Allow(c) PROVE TypeOK'
    BY <1>1 DEF Allow
<1>2. ASSUME NEW c \in Callers, CallReturns(c) PROVE TypeOK'
    BY <1>2 DEF CallReturns
<1>3. ASSUME NEW c \in Callers, ReadState(c) PROVE TypeOK'
    BY <1>3 DEF ReadState
<1>4. ASSUME NEW c \in Callers, IncrSuccesses(c) PROVE TypeOK'
    BY <1>4 DEF IncrSuccesses
<1>5. ASSUME NEW c \in Callers, SetClosed(c) PROVE TypeOK'
    BY <1>5 DEF SetClosed
<1>6. ASSUME NEW c \in Callers, ZeroFailures(c) PROVE TypeOK'
    BY <1>6 DEF ZeroFailures
<1>7. ASSUME NEW c \in Callers, DelCounters(c) PROVE TypeOK'
    BY <1>7 DEF DelCounters
<1>8. ASSUME NEW c \in Callers, IncrFailures(c) PROVE TypeOK'
    BY <1>8 DEF IncrFailures
<1>9. ASSUME NEW c \in Callers, SetOpen(c) PROVE TypeOK'
    BY <1>9 DEF SetOpen
<1>10. ASSUME NEW c \in Callers, IncrFails(c) PROVE TypeOK'
    BY <1>10 DEF IncrFails
<1>11. ASSUME NEW c \in Callers, SetFails(c) PROVE TypeOK'
    BY <1>11 DEF SetFails
<1>12. ASSUME NEW c \in Callers, Die(c) PROVE TypeOK'
    BY <1>12 DEF Die
<1>13. CASE ExpireOpen
    BY <1>13 DEF ExpireOpen
<1>14. CASE ExpireCounter
    BY <1>14 DEF ExpireCounter
<1>15. CASE Flip
    BY <1>15 DEF Flip
<1>16. CASE UNCHANGED vars
    BY <1>16 DEF vars
<1> QED
    BY <1>1, <1>2, <1>3, <1>4, <1>5, <1>6, <1>7, <1>8, <1>9, <1>10, <1>11,
       <1>12, <1>13, <1>14, <1>15, <1>16 DEF Next, Record

(* Every behaviour of the breaker keeps the type invariant. *)
THEOREM TypeCorrect == Safety => []TypeOK
BY InitType, NextType, PTL DEF Safety

-----------------------------------------------------------------------------
(* The failures key counts failed calls: together with those whose failure *)
(* has yet to be recorded it never exceeds them.  A caller on its way to   *)
(* SET OPEN saw the threshold reached.                                     *)

Failing == {c \in Callers : pc[c] = "failed"}

CountsFailures ==
    failed < FailureThreshold => failures + Cardinality(Failing) <= failed

OpensLate ==
    state = "OPEN" \/ (\E c \in Callers : pc[c] = "open")
        => failed >= FailureThreshold

LEMMA FailingFinite ==
    /\ IsFiniteSet(Failing)
    /\ Cardinality(Failing) \in Nat
<1>1. Failing \subseteq Callers
    BY DEF Failing
<1> QED
    BY <1>1, BreakerAssumption, FS_Subset, FS_CardinalityType

(* Steps that record no failure and let no call fail. *)
CountsNoMore ==
    /\ failures' \in {failures, 0}
    /\ failed' = failed
    /\ Failing' \subseteq Failing

LEMMA CountKept ==
    ASSUME TypeOK, CountsFailures, CountsNoMore
    PROVE  CountsFailures'
<1>1. Cardinality(Failing') <= Cardinality(Failing) /\ Cardinality(Failing') \in Nat
    BY FailingFinite, FS_Subset, FS_CardinalityType DEF CountsNoMore
<1> QED
    BY <1>1, FailingFinite, BreakerAssumption DEF CountsNoMore, CountsFailures, TypeOK

(* A step that records a failure, or gives up on it, takes one from those  *)
(* that are to be recorded.                                                *)
LEMMA CountRecorded ==
    ASSUME TypeOK, CountsFailures, NEW c \in Callers, pc[c] = "failed",
           failures' \in {failures, AtMost(FailureThreshold, failures + 1)},
           failed' = failed, Failing' = Failing \ {c}
    PROVE  CountsFailures'
<1>1. Cardinality(Failing') = Cardinality(Failing) - 1
    BY FailingFinite, FS_RemoveElement DEF Failing
<1>2. failures' <= failures + 1 /\ failures' \in Nat
    BY BreakerAssumption DEF AtMost, TypeOK
<1> QED
    BY <1>1, <1>2, FailingFinite, BreakerAssumption DEF CountsFailures, TypeOK

LEMMA CountFailed ==
    ASSUME TypeOK, CountsFailures, NEW c \in Callers, failures' = failures,
           failed' = AtMost(FailureThreshold, failed + 1), Failing' = Failing \cup {c}
    PROVE  CountsFailures'
<1>1. Cardinality(Failing') <= Cardinality(Failing) + 1 /\ Cardinality(Failing') \in Nat
  <2>1. /\ IsFiniteSet(Failing \cup {c})
        /\ Cardinality(Failing \cup {c})
              = IF c \in Failing THEN Cardinality(Failing) ELSE Cardinality(Failing) + 1
      BY FailingFinite, FS_AddElement
  <2> QED
      BY <2>1, FailingFinite
<1>2. failed' < FailureThreshold => failed' = failed + 1 /\ failed < FailureThreshold
    BY BreakerAssumption DEF AtMost, TypeOK
<1> QED
    BY <1>1, <1>2, FailingFinite, BreakerAssumption DEF CountsFailures, TypeOK

LEMMA InitCounts == Init => CountsFailures /\ OpensLate
<1> SUFFICES ASSUME Init PROVE CountsFailures /\ OpensLate
    OBVIOUS
<1>1. Failing = {}
    BY DEF Init, Failing
<1> QED
    BY <1>1, FS_EmptySet DEF Init, CountsFailures, OpensLate

LEMMA NextCounts == TypeOK /\ CountsFailures /\ [Next]_vars => CountsFailures'
<1> SUFFICES ASSUME TypeOK, CountsFailures, [Next]_vars
             PROVE  CountsFailures'
    OBVIOUS
<1>k. ASSUME CountsNoMore PROVE CountsFailures'
    BY <1>k, CountKept
<1> USE DEF redis, history, env, Goto, Fault, TypeOK
<1>1. ASSUME NEW c \in Callers, Allow(c) PROVE CountsNoMore
    BY <1>1 DEF Allow, CountsNoMore, Failing
<1>2. ASSUME NEW c \in Callers, CallReturns(c) PROVE CountsFailures'
  <2>1. CASE up
    <3>1. CountsNoMore
        BY <1>2, <2>1 DEF CallReturns, CountsNoMore, Failing
    <3> QED
        BY <3>1, <1>k
  <2>2. CASE ~up
    <3>1. Failing' = Failing \cup {c}
        BY <1>2, <2>2 DEF CallReturns, Failing
    <3>2. failures' = failures /\ failed' = AtMost(FailureThreshold, failed + 1)
        BY <1>2, <2>2 DEF CallReturns
    <3> QED
        BY <3>1, <3>2, CountFailed
  <2> QED
      BY <2>1, <2>2
<1>3. ASSUME NEW c \in Callers, ReadState(c) PROVE CountsNoMore
    BY <1>3 DEF ReadState, CountsNoMore, Failing
<1>4. ASSUME NEW c \in Callers, IncrSuccesses(c) PROVE CountsNoMore
    BY <1>4 DEF IncrSuccesses, CountsNoMore, Failing
<1>5. ASSUME NEW c \in Callers, SetClosed(c) PROVE CountsNoMore
    BY <1>5 DEF SetClosed, CountsNoMore, Failing
<1>6. ASSUME NEW c \in Callers, ZeroFailures(c) PROVE CountsNoMore
    BY <1>6 DEF ZeroFailures, CountsNoMore, Failing
<1>7. ASSUME NEW c \in Callers, DelCounters(c) PROVE CountsNoMore
    BY <1>7 DEF DelCounters, CountsNoMore, Failing
<1>8. ASSUME NEW c \in Callers, IncrFailures(c) PROVE CountsFailures'
  <2>1. Failing' = Failing \ {c}
      BY <1>8 DEF IncrFailures, Failing
  <2> QED
      BY <1>8, <2>1, CountRecorded DEF IncrFailures
<1>9. ASSUME NEW c \in Callers, SetOpen(c) PROVE CountsNoMore
    BY <1>9 DEF SetOpen, CountsNoMore, Failing
<1>10. ASSUME NEW c \in Callers, IncrFails(c) PROVE CountsFailures'
  <2>1. CASE pc[c] = "probe"
    <3>1. CountsNoMore
        BY <1>10, <2>1 DEF IncrFails, CountsNoMore, Failing
    <3> QED
        BY <3>1, <1>k
  <2>2. CASE pc[c] = "failed"
    <3>1. Failing' = Failing \ {c}
        BY <1>10, <2>2 DEF IncrFails, Failing
    <3> QED
        BY <1>10, <2>2, <3>1, CountRecorded DEF IncrFails
  <2> QED
      BY <1>10, <2>1, <2>2 DEF IncrFails
<1>11. ASSUME NEW c \in Callers, SetFails(c) PROVE CountsNoMore
    BY <1>11 DEF SetFails, CountsNoMore, Failing
<1>12. ASSUME NEW c \in Callers, Die(c) PROVE CountsNoMore
    BY <1>12 DEF Die, CountsNoMore, Failing
<1>13. ASSUME ExpireOpen PROVE CountsNoMore
    BY <1>13 DEF ExpireOpen, CountsNoMore, Failing
<1>14. ASSUME ExpireCounter PROVE CountsNoMore
    BY <1>14 DEF ExpireCounter, CountsNoMore, Failing
<1>15. ASSUME Flip PROVE CountsNoMore
    BY <1>15 DEF Flip, CountsNoMore, Failing
<1>16. ASSUME UNCHANGED vars PROVE CountsNoMore
    BY <1>16 DEF vars, CountsNoMore, Failing
<1> QED
    BY <1>1, <1>2, <1>3, <1>4, <1>5, <1>6, <1>7, <1>8, <1>9, <1>10, <1>11,
       <1>12, <1>13, <1>14, <1>15, <1>16, <1>k DEF Next, Record

LEMMA NextOpens ==
    TypeOK /\ CountsFailures /\ OpensLate /\ [Next]_vars => OpensLate'
<1> SUFFICES ASSUME TypeOK, CountsFailures, OpensLate, [Next]_vars
             PROVE  OpensLate'
    OBVIOUS
<1> USE BreakerAssumption DEF redis, history, env, Goto, Fault, TypeOK, OpensLate
<1>1. ASSUME NEW c \in Callers, Allow(c) PROVE OpensLate'
    BY <1>1 DEF Allow
<1>2. ASSUME NEW c \in Callers, CallReturns(c) PROVE OpensLate'
    BY <1>2 DEF CallReturns, AtMost
<1>3. ASSUME NEW c \in Callers, ReadState(c) PROVE OpensLate'
    BY <1>3 DEF ReadState
<1>4. ASSUME NEW c \in Callers, IncrSuccesses(c) PROVE OpensLate'
    BY <1>4 DEF IncrSuccesses
<1>5. ASSUME NEW c \in Callers, SetClosed(c) PROVE OpensLate'
    BY <1>5 DEF SetClosed
<1>6. ASSUME NEW c \in Callers, ZeroFailures(c) PROVE OpensLate'
    BY <1>6 DEF ZeroFailures
<1>7. ASSUME NEW c \in Callers, DelCounters(c) PROVE OpensLate'
    BY <1>7 DEF DelCounters
<1>8. ASSUME NEW c \in Callers, IncrFailures(c) PROVE OpensLate'
  <2>1. Cardinality(Failing) > 0
    <3>1. c \in Failing
        BY <1>8 DEF IncrFailures, Failing
    <3> QED
        BY <3>1, FailingFinite, FS_EmptySet
  <2>2. failures + 1 >= FailureThreshold => failed >= FailureThreshold
      BY <2>1, FailingFinite DEF CountsFailures
  <2> QED
      BY <1>8, <2>2 DEF IncrFailures
<1>9. ASSUME NEW c \in Callers, SetOpen(c) PROVE OpensLate'
    BY <1>9 DEF SetOpen
<1>10. ASSUME NEW c \in Callers, IncrFails(c) PROVE OpensLate'
    BY <1>10 DEF IncrFails
<1>11. ASSUME NEW c \in Callers, SetFails(c) PROVE OpensLate'
    BY <1>11 DEF SetFails
<1>12. ASSUME NEW c \in Callers, Die(c) PROVE OpensLate'
    BY <1>12 DEF Die
<1>13. CASE ExpireOpen
    BY <1>13 DEF ExpireOpen
<1>14. CASE ExpireCounter
    BY <1>14 DEF ExpireCounter
<1>15. CASE Flip
    BY <1>15 DEF Flip
<1>16. CASE UNCHANGED vars
    BY <1>16 DEF vars
<1> QED
    BY <1>1, <1>2, <1>3, <1>4, <1>5, <1>6, <1>7, <1>8, <1>9, <1>10, <1>11,
       <1>12, <1>13, <1>14, <1>15, <1>16 DEF Next, Record

(* However the commands of the callers interleave, fail or are cut short,  *)
(* the circuit is not open before failure_threshold calls failed.          *)
THEOREM NeverOpensEarly == Safety => []NoSpuriousOpen
<1>1. OpensLate => NoSpuriousOpen
    BY DEF OpensLate, NoSpuriousOpen
<1> QED
    BY <1>1, InitType, InitCounts, NextType, NextCounts, NextOpens, PTL DEF Safety

=============================================================================
