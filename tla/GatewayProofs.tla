---------------------------- MODULE GatewayProofs ----------------------------
(***************************************************************************)
(* Proofs about SubmitTransaction, for any number of calls, keys and       *)
(* gateways, whichever of them tolerate errors of Redis, and any bounds on *)
(* expiries and crashes.                                                   *)
(*                                                                         *)
(* TypeCorrect: the type invariant, with the exclusion by the mutex.       *)
(* ClaimsAdmitOne: a claim of a key admits at most one transaction.        *)
(* DuplicatesNameClaimant: a duplicate is told a transaction that claimed  *)
(*   the key.                                                              *)
(***************************************************************************)
EXTENDS Gateway, FiniteSetTheorems, TLAPS

-----------------------------------------------------------------------------
(* Type correctness.  Only LockSchema lets a call into the stage that      *)
(* holds the mutex, and only when no call of its gateway is there.         *)

LEMMA InitType == Init => TypeOK
BY GatewayAssumption DEF Init, TypeOK, Stages, Answers

LEMMA NextType == TypeOK /\ [Next]_vars => TypeOK'
<1> SUFFICES ASSUME TypeOK, [Next]_vars
             PROVE  TypeOK'
    OBVIOUS
<1> USE GatewayAssumption DEF TypeOK, Stages, Answers, calls, topic
<1>1. ASSUME NEW c \in Calls, Receive(c) PROVE TypeOK'
    BY <1>1 DEF Receive, Goto, Reply
<1>2. ASSUME NEW c \in Calls, Claim(c) PROVE TypeOK'
    BY <1>2 DEF Claim, Goto
<1>3. ASSUME NEW c \in Calls, ClaimExists(c) PROVE TypeOK'
    BY <1>3 DEF ClaimExists, Goto
<1>4. ASSUME NEW c \in Calls, ClaimFails(c) PROVE TypeOK'
  <2>1. claim' \in [Keys -> Calls \cup {None}]
      BY <1>4 DEF ClaimFails
  <2> QED
      BY <1>4, <2>1 DEF ClaimFails, RedisError, Goto, Reply
<1>5. ASSUME NEW c \in Calls, GetFindsOriginal(c) PROVE TypeOK'
    BY <1>5 DEF GetFindsOriginal, ReplyDuplicate
<1>6. ASSUME NEW c \in Calls, GetFindsNothing(c) PROVE TypeOK'
    BY <1>6 DEF GetFindsNothing, Goto
<1>7. ASSUME NEW c \in Calls, GetFails(c) PROVE TypeOK'
    BY <1>7 DEF GetFails, RedisError, Goto, Reply
<1>8. ASSUME NEW c \in Calls, LockSchema(c) PROVE TypeOK'
    BY <1>8 DEF LockSchema, MutexFree, Goto
<1>9. ASSUME NEW c \in Calls, SchemaFetched(c) PROVE TypeOK'
    BY <1>9 DEF SchemaFetched, Goto
<1>10. ASSUME NEW c \in Calls, SchemaFails(c) PROVE TypeOK'
    BY <1>10 DEF SchemaFails, Reply
<1>11. ASSUME NEW c \in Calls, WriteSucceeds(c) PROVE TypeOK'
    BY <1>11 DEF WriteSucceeds, Reply
<1>12. ASSUME NEW c \in Calls, WriteFails(c) PROVE TypeOK'
    BY <1>12 DEF WriteFails, Reply
<1>13. ASSUME NEW c \in Calls, LateWrite(c) PROVE TypeOK'
    BY <1>13 DEF LateWrite, calls
<1>14. ASSUME NEW k \in Keys, Expire(k) PROVE TypeOK'
    BY <1>14 DEF Expire, calls, topic
<1>15. ASSUME NEW g \in Gateways, Crash(g) PROVE TypeOK'
  <2> DEFINE dying == {c \in InFlight : GatewayOf[c] = g}
  <2>1. /\ stage' = [c \in Calls |-> IF c \in dying THEN "over" ELSE stage[c]]
        /\ answer' = [c \in Calls |-> IF c \in dying THEN "died" ELSE answer[c]]
        /\ writing' \subseteq Calls
        /\ hasSchema' \subseteq Gateways
        /\ crashes' \in 0..MaxCrashes
        /\ UNCHANGED <<original, claim, enqueued, kafkaUp, unclaimed, expiries>>
      BY <1>15 DEF Crash, InFlight
  <2>2. /\ stage' \in [Calls -> Stages]
        /\ answer' \in [Calls -> Answers]
        /\ \A c \in Calls : stage'[c] = "fetching" => stage[c] = "fetching"
      BY <2>1
  <2> QED
      BY <2>1, <2>2
<1>16. ASSUME Outage PROVE TypeOK'
    BY <1>16 DEF Outage
<1>17. CASE UNCHANGED vars
    BY <1>17 DEF vars, calls, topic
<1> QED
    BY <1>1, <1>2, <1>3, <1>4, <1>5, <1>6, <1>7, <1>8, <1>9, <1>10, <1>11,
       <1>12, <1>13, <1>14, <1>15, <1>16, <1>17 DEF Next, Handle, WriteReturns

(* Every behaviour of the gateways keeps the type invariant; in particular *)
(* the mutex of a producer admits one call to the registry at a time.      *)
THEOREM TypeCorrect == Safety => []TypeOK
BY InitType, NextType, PTL DEF Safety

-----------------------------------------------------------------------------
(* A claim admits one transaction.  The bound on the topic is not          *)
(* inductive: a call that holds its key and has yet to write counts too,   *)
(* and so does the key that may still be claimed.                          *)

Past == {c \in Calls : stage[c] \in {"schema", "fetching", "write"}} \cup OnItsWay

(* Calls for k that went on, or wrote, on the strength of a key of their own. *)
Admitted(k) == {c \in Past \ unclaimed : KeyOf[c] = k}

(* How often k was claimed so far. *)
Claimed(k) == expiries[k] + IF claim[k] = None THEN 0 ELSE 1

OnePerClaim == \A k \in Keys : Cardinality(Admitted(k)) <= Claimed(k)

(* A step that admits no call and takes no claim back keeps the bound. *)
AdmitsNone ==
    \A k \in Keys : Admitted(k)' \subseteq Admitted(k) /\ Claimed(k) <= Claimed(k)'

LEMMA AdmittedFinite ==
    ASSUME TypeOK, NEW k \in Keys
    PROVE  /\ IsFiniteSet(Admitted(k))
           /\ Cardinality(Admitted(k)) \in Nat
           /\ Claimed(k) \in Nat
<1>1. Admitted(k) \subseteq Calls
    BY DEF Admitted, Past, OnItsWay, TypeOK
<1>2. IsFiniteSet(Admitted(k))
    BY <1>1, FS_Subset, GatewayAssumption
<1>3. Claimed(k) \in Nat
    BY GatewayAssumption DEF Claimed, TypeOK
<1> QED
    BY <1>2, <1>3, FS_CardinalityType

LEMMA KeepsBound ==
    ASSUME TypeOK, TypeOK', OnePerClaim, AdmitsNone
    PROVE  OnePerClaim'
<1> SUFFICES ASSUME NEW k \in Keys
             PROVE  Cardinality(Admitted(k)') <= Claimed(k)'
    BY DEF OnePerClaim
<1>1. Cardinality(Admitted(k)') <= Cardinality(Admitted(k))
    BY AdmittedFinite, FS_Subset DEF AdmitsNone
<1>2. /\ Cardinality(Admitted(k)) <= Claimed(k)
      /\ Claimed(k) <= Claimed(k)'
    BY DEF OnePerClaim, AdmitsNone
<1>3. Admitted(k)' \subseteq Admitted(k)
    BY DEF AdmitsNone
<1>4. Cardinality(Admitted(k)') \in Nat
    BY <1>3, AdmittedFinite, FS_Subset, FS_CardinalityType
<1>5. Claimed(k)' \in Nat
    BY GatewayAssumption DEF TypeOK, Claimed
<1> QED
    BY <1>1, <1>2, <1>4, <1>5, AdmittedFinite

(* The one step that admits a call takes the key with it. *)
LEMMA ClaimKeepsBound ==
    ASSUME TypeOK, OnePerClaim, NEW c \in Calls, Claim(c)
    PROVE  OnePerClaim'
<1> SUFFICES ASSUME NEW k \in Keys
             PROVE  Cardinality(Admitted(k)') <= Claimed(k)'
    BY DEF OnePerClaim
<1>1. CASE k # KeyOf[c]
  <2>1. Admitted(k)' = Admitted(k)
      BY <1>1 DEF Claim, Goto, Admitted, Past, OnItsWay, TypeOK, topic
  <2>2. Claimed(k)' = Claimed(k)
      BY <1>1 DEF Claim, Claimed, TypeOK
  <2> QED
      BY <2>1, <2>2 DEF OnePerClaim
<1>2. CASE k = KeyOf[c]
  <2>1. Admitted(k)' \subseteq Admitted(k) \cup {c}
      BY DEF Claim, Goto, Admitted, Past, OnItsWay, TypeOK, topic
  <2>2. Claimed(k)' = Claimed(k) + 1
      BY <1>2, GatewayAssumption DEF Claim, Claimed, TypeOK
  <2>3. /\ IsFiniteSet(Admitted(k) \cup {c})
        /\ Cardinality(Admitted(k) \cup {c}) <= Cardinality(Admitted(k)) + 1
    <3>1. IsFiniteSet(Admitted(k)) /\ Cardinality(Admitted(k)) \in Nat
        BY AdmittedFinite
    <3>2. /\ IsFiniteSet(Admitted(k) \cup {c})
          /\ Cardinality(Admitted(k) \cup {c})
                = IF c \in Admitted(k) THEN Cardinality(Admitted(k))
                                       ELSE Cardinality(Admitted(k)) + 1
        BY <3>1, FS_AddElement
    <3> QED
        BY <3>1, <3>2
  <2>4. /\ Cardinality(Admitted(k)') <= Cardinality(Admitted(k) \cup {c})
        /\ Cardinality(Admitted(k)') \in Nat
        /\ Cardinality(Admitted(k) \cup {c}) \in Nat
      BY <2>1, <2>3, FS_Subset, FS_CardinalityType
  <2>5. Cardinality(Admitted(k)) <= Claimed(k)
      BY DEF OnePerClaim
  <2> QED
      BY <2>2, <2>3, <2>4, <2>5, AdmittedFinite
<1> QED
    BY <1>1, <1>2

LEMMA InitClaims == Init => OnePerClaim
<1> SUFFICES ASSUME Init, NEW k \in Keys
             PROVE  Cardinality(Admitted(k)) <= Claimed(k)
    BY DEF OnePerClaim
<1>1. Admitted(k) = {}
    BY DEF Init, Admitted, Past, OnItsWay
<1>2. Claimed(k) = 0
    BY DEF Init, Claimed
<1> QED
    BY <1>1, <1>2, FS_EmptySet

LEMMA NextClaims == TypeOK /\ OnePerClaim /\ [Next]_vars => OnePerClaim'
<1> SUFFICES ASSUME TypeOK, OnePerClaim, [Next]_vars
             PROVE  OnePerClaim'
    OBVIOUS
<1>t. TypeOK'
    BY NextType
<1> DEFINE Keeps == /\ \A k \in Keys : Claimed(k) <= Claimed(k)'
                    /\ Past' \ unclaimed' \subseteq Past \ unclaimed
<1>k. ASSUME Keeps PROVE AdmitsNone
    BY <1>k DEF AdmitsNone, Admitted
<1>c. ASSUME UNCHANGED <<claim, expiries>>
      PROVE  \A k \in Keys : Claimed(k) <= Claimed(k)'
  <2> SUFFICES ASSUME NEW k \in Keys
               PROVE  Claimed(k) <= Claimed(k)'
      OBVIOUS
  <2>1. Claimed(k)' = Claimed(k)
      BY <1>c DEF Claimed
  <2> QED
      BY <2>1, AdmittedFinite
<1>a. ASSUME NEW c \in Calls, UNCHANGED expiries,
             \/ claim' = claim
             \/ claim' = [claim EXCEPT ![KeyOf[c]] = IF @ = None THEN c ELSE @]
             \/ claim' = [claim EXCEPT ![KeyOf[c]] = c]
      PROVE  \A k \in Keys : Claimed(k) <= Claimed(k)'
    BY <1>a, GatewayAssumption DEF Claimed, TypeOK
<1> USE DEF Past, OnItsWay, TypeOK, calls, topic
<1>1. ASSUME NEW c \in Calls, Receive(c) PROVE Keeps
    BY <1>1, <1>c DEF Receive, Goto, Reply
<1>2. ASSUME NEW c \in Calls, Claim(c) PROVE OnePerClaim'
    BY <1>2, ClaimKeepsBound
<1>3. ASSUME NEW c \in Calls, ClaimExists(c) PROVE Keeps
  <2>1. \A k \in Keys : Claimed(k) <= Claimed(k)'
      BY <1>3, <1>a DEF ClaimExists
  <2> QED
      BY <1>3, <2>1 DEF ClaimExists, Goto
<1>4. ASSUME NEW c \in Calls, ClaimFails(c) PROVE Keeps
  <2>1. \A k \in Keys : Claimed(k) <= Claimed(k)'
      BY <1>4, <1>a DEF ClaimFails
  <2> QED
      BY <1>4, <2>1 DEF ClaimFails, RedisError, Goto, Reply
<1>5. ASSUME NEW c \in Calls, GetFindsOriginal(c) PROVE Keeps
    BY <1>5, <1>c DEF GetFindsOriginal, ReplyDuplicate
<1>6. ASSUME NEW c \in Calls, GetFindsNothing(c) PROVE Keeps
    BY <1>6, <1>c DEF GetFindsNothing, Goto
<1>7. ASSUME NEW c \in Calls, GetFails(c) PROVE Keeps
    BY <1>7, <1>c DEF GetFails, RedisError, Goto, Reply
<1>8. ASSUME NEW c \in Calls, LockSchema(c) PROVE Keeps
    BY <1>8, <1>c DEF LockSchema, Goto
<1>9. ASSUME NEW c \in Calls, SchemaFetched(c) PROVE Keeps
    BY <1>9, <1>c DEF SchemaFetched, Goto
<1>10. ASSUME NEW c \in Calls, SchemaFails(c) PROVE Keeps
    BY <1>10, <1>c DEF SchemaFails, Reply
<1>11. ASSUME NEW c \in Calls, WriteSucceeds(c) PROVE Keeps
    BY <1>11, <1>c DEF WriteSucceeds, Reply
<1>12. ASSUME NEW c \in Calls, WriteFails(c) PROVE Keeps
    BY <1>12, <1>c DEF WriteFails, Reply
<1>13. ASSUME NEW c \in Calls, LateWrite(c) PROVE Keeps
    BY <1>13, <1>c DEF LateWrite
<1>14. ASSUME NEW k \in Keys, Expire(k) PROVE Keeps
  <2>1. \A l \in Keys : Claimed(l)' = Claimed(l)
      BY <1>14 DEF Expire, Claimed
  <2>2. \A l \in Keys : Claimed(l) <= Claimed(l)'
      BY <2>1, AdmittedFinite
  <2> QED
      BY <1>14, <2>2 DEF Expire
<1>15. ASSUME NEW g \in Gateways, Crash(g) PROVE Keeps
  <2>1. /\ \A c \in Calls : stage'[c] \in {stage[c], "over"}
        /\ \A c \in writing' : c \in writing \/ stage[c] = "write"
        /\ UNCHANGED <<claim, enqueued, unclaimed, expiries>>
      BY <1>15 DEF Crash
  <2> QED
      BY <2>1, <1>c, <1>t
<1>16. ASSUME Outage PROVE Keeps
    BY <1>16, <1>c DEF Outage
<1>17. ASSUME UNCHANGED vars PROVE Keeps
    BY <1>17, <1>c DEF vars
<1>18. CASE Keeps
    BY <1>18, <1>k, <1>t, KeepsBound
<1> HIDE DEF Keeps
<1> QED
    BY <1>1, <1>2, <1>3, <1>4, <1>5, <1>6, <1>7, <1>8, <1>9, <1>10, <1>11,
       <1>12, <1>13, <1>14, <1>15, <1>16, <1>17, <1>18
    DEF Next, Handle, WriteReturns

LEMMA ClaimsBoundTopic == TypeOK /\ OnePerClaim => OneTransactionPerClaim
<1> SUFFICES ASSUME TypeOK, OnePerClaim, NEW k \in Keys
             PROVE  Cardinality({c \in OnItsWay : KeyOf[c] = k})
                       <= 1 + expiries[k] + Cardinality({c \in unclaimed : KeyOf[c] = k})
    BY DEF OneTransactionPerClaim
<1> DEFINE Sent == {c \in OnItsWay : KeyOf[c] = k}
           Free == {c \in unclaimed : KeyOf[c] = k}
<1>1. /\ Sent \subseteq Admitted(k) \cup Free
      /\ Free \subseteq Calls
    BY DEF Admitted, Past, OnItsWay, TypeOK
<1>2. IsFiniteSet(Admitted(k)) /\ IsFiniteSet(Free)
    BY <1>1, AdmittedFinite, FS_Subset, GatewayAssumption
<1>3. /\ IsFiniteSet(Admitted(k) \cup Free)
      /\ Cardinality(Admitted(k) \cup Free)
            = Cardinality(Admitted(k)) + Cardinality(Free) - Cardinality(Admitted(k) \cap Free)
    BY <1>2, FS_Union
<1>4. IsFiniteSet(Sent) /\ Cardinality(Sent) <= Cardinality(Admitted(k) \cup Free)
    BY <1>1, <1>3, FS_Subset
<1>5. IsFiniteSet(Admitted(k) \cap Free)
    BY <1>2, FS_Subset
<1>6. /\ Cardinality(Sent) \in Nat
      /\ Cardinality(Free) \in Nat
      /\ Cardinality(Admitted(k)) \in Nat
      /\ Cardinality(Admitted(k) \cap Free) \in Nat
    BY <1>2, <1>4, <1>5, FS_CardinalityType
<1>7. Cardinality(Admitted(k)) <= 1 + expiries[k]
    BY <1>6, GatewayAssumption DEF OnePerClaim, Claimed, TypeOK
<1>8. expiries[k] \in Nat
    BY GatewayAssumption DEF TypeOK
<1> QED
    BY <1>3, <1>4, <1>6, <1>7, <1>8

(* Whatever the interleaving of the calls and whatever fails between a     *)
(* claim and its write, the transactions of a key on the topic are at most *)
(* as many as the times it was claimed and the calls that had no claim.    *)
THEOREM ClaimsAdmitOne == Safety => []OneTransactionPerClaim
BY InitType, InitClaims, NextType, NextClaims, ClaimsBoundTopic, PTL DEF Safety

-----------------------------------------------------------------------------
(* Whom a duplicate is told.  A call that holds its key or was named to    *)
(* another one has not been turned away: while it is at work it holds the  *)
(* key or waits for Kafka, and afterwards it is on the topic, failed, or   *)
(* died.                                                                   *)

Standing(t) ==
    \/ t \in OnItsWay
    \/ t \in InFlight /\ (claim[KeyOf[t]] = t \/ stage[t] = "write")
    \/ answer[t] \in {"internal", "died"}
    \/ original[t] = t

Named(k, t) == t \in Calls /\ KeyOf[t] = k /\ Standing(t)

(* A call that is not over has no answer yet, and what a late write may    *)
(* still bring to the topic belongs to a call that failed or died.         *)
Unanswered ==
    /\ \A c \in Calls : stage[c] # "over" => answer[c] = "none" /\ original[c] = None
    /\ \A c \in writing : answer[c] \in {"internal", "died"}

Claimants ==
    /\ Unanswered
    /\ \A k \in Keys : claim[k] # None => Named(k, claim[k])
    /\ \A c \in Calls : answer[c] = "duplicate" => Named(KeyOf[c], original[c])

(* What every step does: it costs no call its standing, gives a key only   *)
(* to a call with standing, and names only the call that holds the key.    *)
StandingKept == \A t \in Calls : Standing(t) => Standing(t)'

KeysToClaimants ==
    \A k \in Keys : claim'[k] \in {None, claim[k]} \/ Named(k, claim[k])'

NamesHolder ==
    \A c \in Calls : answer'[c] = "duplicate" =>
        \/ answer[c] = "duplicate" /\ original'[c] = original[c]
        \/ claim[KeyOf[c]] # None /\ original'[c] = claim[KeyOf[c]]

Respects == StandingKept /\ KeysToClaimants /\ NamesHolder /\ Unanswered'

LEMMA KeepsClaimants ==
    ASSUME TypeOK, Claimants, Respects
    PROVE  Claimants'
<1>1. ASSUME NEW k \in Keys, NEW t, Named(k, t)
      PROVE  t \in Calls /\ KeyOf[t] = k /\ Standing(t)'
    BY <1>1 DEF Respects, StandingKept, Named
<1>2. ASSUME NEW k \in Keys, claim'[k] # None
      PROVE  Named(k, claim[k])'
  <2>1. CASE claim'[k] = claim[k]
    <3>1. Named(k, claim[k])
        BY <1>2, <2>1 DEF Claimants
    <3>2. claim[k] \in Calls /\ KeyOf[claim[k]] = k /\ Standing(claim[k])'
        BY <1>2, <2>1, <3>1 DEF Named, Respects, StandingKept, Standing
    <3> QED
        BY <2>1, <3>2 DEF Named, Standing
  <2>2. CASE claim'[k] # claim[k]
      BY <1>2, <2>2 DEF Respects, KeysToClaimants
  <2> QED
      BY <2>1, <2>2
<1>3. ASSUME NEW c \in Calls, answer'[c] = "duplicate"
      PROVE  Named(KeyOf[c], original[c])'
  <2>1. KeyOf[c] \in Keys
      BY GatewayAssumption
  <2>2. PICK t : t = original'[c] /\ Named(KeyOf[c], t)
      BY <1>3, <2>1 DEF Respects, NamesHolder, Claimants
  <2>3. t \in Calls /\ KeyOf[t] = KeyOf[c] /\ (Standing(t) => Standing(t)')
      BY <2>2 DEF Named, Respects, StandingKept
  <2> QED
      BY <2>2, <2>3 DEF Named, Standing
<1> QED
    BY <1>2, <1>3 DEF Claimants, Respects

LEMMA InitClaimants == Init => Claimants
BY GatewayAssumption DEF Init, Claimants, Unanswered

LEMMA NextClaimants == TypeOK /\ Claimants /\ [Next]_vars => Claimants'
<1> SUFFICES ASSUME TypeOK, Claimants, [Next]_vars
             PROVE  Claimants'
    OBVIOUS
<1>u. Unanswered
    BY DEF Claimants
<1> USE GatewayAssumption DEF calls, topic, InFlight, OnItsWay
<1>1. ASSUME NEW c \in Calls, Receive(c) PROVE Respects
  <2>1. StandingKept
      BY <1>1, <1>u DEF TypeOK, StandingKept, Standing, Unanswered, Receive, Goto, Reply
  <2>2. KeysToClaimants
      BY <1>1 DEF KeysToClaimants, Receive
  <2>3. NamesHolder
      BY <1>1 DEF TypeOK, NamesHolder, Receive, Goto, Reply
  <2>4. Unanswered'
      BY <1>1, <1>u DEF TypeOK, Unanswered, Receive, Goto, Reply
  <2> QED
      BY <2>1, <2>2, <2>3, <2>4 DEF Respects
<1>2. ASSUME NEW c \in Calls, Claim(c) PROVE Respects
  <2>1. StandingKept
      BY <1>2, <1>u DEF TypeOK, StandingKept, Standing, Unanswered, Claim, Goto
  <2>2. KeysToClaimants
      BY <1>2 DEF TypeOK, KeysToClaimants, Named, Standing, Claim, Goto
  <2>3. NamesHolder
      BY <1>2 DEF TypeOK, NamesHolder, Claim, Goto
  <2>4. Unanswered'
      BY <1>2, <1>u DEF TypeOK, Unanswered, Claim, Goto
  <2> QED
      BY <2>1, <2>2, <2>3, <2>4 DEF Respects
<1>3. ASSUME NEW c \in Calls, ClaimExists(c) PROVE Respects
  <2>1. StandingKept
      BY <1>3, <1>u DEF TypeOK, StandingKept, Standing, Unanswered, ClaimExists, Goto
  <2>2. KeysToClaimants
      BY <1>3 DEF TypeOK, KeysToClaimants, Named, Standing, ClaimExists, Goto
  <2>3. NamesHolder
      BY <1>3 DEF TypeOK, NamesHolder, ClaimExists, Goto
  <2>4. Unanswered'
      BY <1>3, <1>u DEF TypeOK, Unanswered, ClaimExists, Goto
  <2> QED
      BY <2>1, <2>2, <2>3, <2>4 DEF Respects
<1>4. ASSUME NEW c \in Calls, ClaimFails(c) PROVE Respects
  <2>1. StandingKept
      BY <1>4, <1>u DEF TypeOK, StandingKept, Standing, Unanswered, ClaimFails, RedisError, Goto, Reply
  <2>2. KeysToClaimants
      BY <1>4 DEF TypeOK, KeysToClaimants, Named, Standing, ClaimFails, RedisError, Goto, Reply
  <2>3. NamesHolder
      BY <1>4 DEF TypeOK, NamesHolder, ClaimFails, RedisError, Goto, Reply
  <2>4. Unanswered'
      BY <1>4, <1>u DEF TypeOK, Unanswered, ClaimFails, RedisError, Goto, Reply
  <2> QED
      BY <2>1, <2>2, <2>3, <2>4 DEF Respects
<1>5. ASSUME NEW c \in Calls, GetFindsOriginal(c) PROVE Respects
  <2>1. StandingKept
      BY <1>5, <1>u DEF TypeOK, StandingKept, Standing, Unanswered, GetFindsOriginal, ReplyDuplicate
  <2>2. KeysToClaimants
      BY <1>5 DEF KeysToClaimants, GetFindsOriginal, ReplyDuplicate
  <2>3. NamesHolder
      BY <1>5 DEF TypeOK, NamesHolder, GetFindsOriginal, ReplyDuplicate
  <2>4. Unanswered'
      BY <1>5, <1>u DEF TypeOK, Unanswered, GetFindsOriginal, ReplyDuplicate
  <2> QED
      BY <2>1, <2>2, <2>3, <2>4 DEF Respects
<1>6. ASSUME NEW c \in Calls, GetFindsNothing(c) PROVE Respects
  <2>1. StandingKept
      BY <1>6, <1>u DEF TypeOK, StandingKept, Standing, Unanswered, GetFindsNothing, Goto
  <2>2. KeysToClaimants
      BY <1>6 DEF KeysToClaimants, GetFindsNothing, Goto
  <2>3. NamesHolder
      BY <1>6 DEF TypeOK, NamesHolder, GetFindsNothing, Goto
  <2>4. Unanswered'
      BY <1>6, <1>u DEF TypeOK, Unanswered, GetFindsNothing, Goto
  <2> QED
      BY <2>1, <2>2, <2>3, <2>4 DEF Respects
<1>7. ASSUME NEW c \in Calls, GetFails(c) PROVE Respects
  <2>1. StandingKept
      BY <1>7, <1>u DEF TypeOK, StandingKept, Standing, Unanswered, GetFails, RedisError, Goto, Reply
  <2>2. KeysToClaimants
      BY <1>7 DEF KeysToClaimants, GetFails, RedisError, Goto, Reply
  <2>3. NamesHolder
      BY <1>7 DEF TypeOK, NamesHolder, GetFails, RedisError, Goto, Reply
  <2>4. Unanswered'
      BY <1>7, <1>u DEF TypeOK, Unanswered, GetFails, RedisError, Goto, Reply
  <2> QED
      BY <2>1, <2>2, <2>3, <2>4 DEF Respects
<1>8. ASSUME NEW c \in Calls, LockSchema(c) PROVE Respects
  <2>1. StandingKept
      BY <1>8, <1>u DEF TypeOK, StandingKept, Standing, Unanswered, LockSchema, Goto
  <2>2. KeysToClaimants
      BY <1>8 DEF KeysToClaimants, LockSchema, Goto
  <2>3. NamesHolder
      BY <1>8 DEF TypeOK, NamesHolder, LockSchema, Goto
  <2>4. Unanswered'
      BY <1>8, <1>u DEF TypeOK, Unanswered, LockSchema, Goto
  <2> QED
      BY <2>1, <2>2, <2>3, <2>4 DEF Respects
<1>9. ASSUME NEW c \in Calls, SchemaFetched(c) PROVE Respects
  <2>1. StandingKept
      BY <1>9, <1>u DEF TypeOK, StandingKept, Standing, Unanswered, SchemaFetched, Goto
  <2>2. KeysToClaimants
      BY <1>9 DEF KeysToClaimants, SchemaFetched, Goto
  <2>3. NamesHolder
      BY <1>9 DEF TypeOK, NamesHolder, SchemaFetched, Goto
  <2>4. Unanswered'
      BY <1>9, <1>u DEF TypeOK, Unanswered, SchemaFetched, Goto
  <2> QED
      BY <2>1, <2>2, <2>3, <2>4 DEF Respects
<1>10. ASSUME NEW c \in Calls, SchemaFails(c) PROVE Respects
  <2>1. StandingKept
      BY <1>10, <1>u DEF TypeOK, StandingKept, Standing, Unanswered, SchemaFails, Reply
  <2>2. KeysToClaimants
      BY <1>10 DEF KeysToClaimants, SchemaFails, Reply
  <2>3. NamesHolder
      BY <1>10 DEF TypeOK, NamesHolder, SchemaFails, Reply
  <2>4. Unanswered'
      BY <1>10, <1>u DEF TypeOK, Unanswered, SchemaFails, Reply
  <2> QED
      BY <2>1, <2>2, <2>3, <2>4 DEF Respects
<1>11. ASSUME NEW c \in Calls, WriteSucceeds(c) PROVE Respects
  <2>1. StandingKept
      BY <1>11, <1>u DEF TypeOK, StandingKept, Standing, Unanswered, WriteSucceeds, Reply
  <2>2. KeysToClaimants
      BY <1>11 DEF KeysToClaimants, WriteSucceeds, Reply
  <2>3. NamesHolder
      BY <1>11 DEF TypeOK, NamesHolder, WriteSucceeds, Reply
  <2>4. Unanswered'
      BY <1>11, <1>u DEF TypeOK, Unanswered, WriteSucceeds, Reply
  <2> QED
      BY <2>1, <2>2, <2>3, <2>4 DEF Respects
<1>12. ASSUME NEW c \in Calls, WriteFails(c) PROVE Respects
  <2>1. StandingKept
      BY <1>12, <1>u DEF TypeOK, StandingKept, Standing, Unanswered, WriteFails, Reply
  <2>2. KeysToClaimants
      BY <1>12 DEF KeysToClaimants, WriteFails, Reply
  <2>3. NamesHolder
      BY <1>12 DEF TypeOK, NamesHolder, WriteFails, Reply
  <2>4. Unanswered'
      BY <1>12, <1>u DEF TypeOK, Unanswered, WriteFails, Reply
  <2> QED
      BY <2>1, <2>2, <2>3, <2>4 DEF Respects
<1>13. ASSUME NEW c \in Calls, LateWrite(c) PROVE Respects
  <2>1. StandingKept
      BY <1>13, <1>u DEF TypeOK, StandingKept, Standing, Unanswered, LateWrite
  <2>2. KeysToClaimants
      BY <1>13 DEF KeysToClaimants, LateWrite
  <2>3. NamesHolder
      BY <1>13 DEF TypeOK, NamesHolder, LateWrite
  <2>4. Unanswered'
      BY <1>13, <1>u DEF TypeOK, Unanswered, LateWrite
  <2> QED
      BY <2>1, <2>2, <2>3, <2>4 DEF Respects
<1>14. ASSUME NEW k \in Keys, Expire(k) PROVE Respects
  <2>0. UNCHANGED <<stage, answer, original, writing, enqueued>>
      BY <1>14 DEF Expire, calls, topic
  <2>1. StandingKept
      BY <1>14, <2>0, GatewayAssumption DEF TypeOK, StandingKept, Standing, Expire
  <2>2. KeysToClaimants
      BY <1>14 DEF TypeOK, KeysToClaimants, Expire
  <2>3. NamesHolder
      BY <2>0 DEF NamesHolder
  <2>4. Unanswered'
      BY <2>0, <1>u DEF Unanswered
  <2> QED
      BY <2>1, <2>2, <2>3, <2>4 DEF Respects
<1>15. ASSUME NEW g \in Gateways, Crash(g) PROVE Respects
  <2> DEFINE dying == {c \in InFlight : GatewayOf[c] = g}
  <2>0. /\ stage' = [c \in Calls |-> IF c \in dying THEN "over" ELSE stage[c]]
        /\ answer' = [c \in Calls |-> IF c \in dying THEN "died" ELSE answer[c]]
        /\ writing \subseteq writing'
        /\ \A c \in writing' : c \in writing \/ c \in dying
        /\ UNCHANGED <<original, claim, enqueued>>
      BY <1>15 DEF Crash
  <2>1. StandingKept
      BY <2>0 DEF TypeOK, StandingKept, Standing
  <2>2. KeysToClaimants
      BY <2>0 DEF KeysToClaimants
  <2>3. NamesHolder
      BY <2>0 DEF NamesHolder
  <2>4. Unanswered'
      BY <2>0, <1>u DEF TypeOK, Unanswered
  <2> QED
      BY <2>1, <2>2, <2>3, <2>4 DEF Respects
<1>16. ASSUME Outage PROVE Respects
    BY <1>16, <1>u DEF Outage, Respects, StandingKept, Standing, KeysToClaimants,
                       NamesHolder, Unanswered
<1>17. ASSUME UNCHANGED vars PROVE Respects
    BY <1>17, <1>u DEF vars, Respects, StandingKept, Standing, KeysToClaimants,
                       NamesHolder, Unanswered
<1>18. CASE Respects
    BY <1>18, KeepsClaimants
<1> QED
    BY <1>1, <1>2, <1>3, <1>4, <1>5, <1>6, <1>7, <1>8, <1>9, <1>10, <1>11,
       <1>12, <1>13, <1>14, <1>15, <1>16, <1>17, <1>18
    DEF Next, Handle, WriteReturns

LEMMA ClaimantsNamed == Claimants => DuplicateNamesClaimant
BY DEF Claimants, Named, Standing, DuplicateNamesClaimant

(* A call that is answered ALREADY_EXISTS is told a transaction with its   *)
(* own key that was not turned away as a duplicate of another one.         *)
THEOREM DuplicatesNameClaimant == Safety => []DuplicateNamesClaimant
BY InitType, InitClaimants, NextType, NextClaimants, ClaimantsNamed, PTL DEF Safety

=============================================================================
