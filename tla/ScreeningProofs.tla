-------------------------- MODULE ScreeningProofs --------------------------
(***************************************************************************)
(* Proofs about the velocity store, for any deliveries, window, bucket,    *)
(* length of a call and order of the Redis commands, and about the way     *)
(* of one transaction from its validation to the answer about it, for      *)
(* any requests, counts, amounts, risks and thresholds.                    *)
(*                                                                         *)
(* VelocityTypeCorrect, ScreeningTypeCorrect: the type invariants.         *)
(* MerchantsOfTheBucket: the merchants counted are those of one bucket,    *)
(*   none lost to the expiry of its key.                                   *)
(* CountsAreOfTheWindow: a count is between the transactions surely in     *)
(*   the window and those that may be.                                     *)
(* SumsAreOfTheWindow: a counted transaction has its amount in the sum.    *)
(* VerdictsAreOrdered: a lower score has no harder verdict, but where the  *)
(*   thresholds of the two services that decide differ.                    *)
(* SignsAgree: rules and features see the same signs of fraud.             *)
(* AnswersAreWhole: the owner is answered a published verdict, whole.      *)
(* ScoresAreMonotone: more of a sign of fraud never lowers a score.        *)
(* HalvesMoveAlone, ScreenTypesCorrect: side by side the two behave as     *)
(*   they do alone, and both keep their types.                             *)
(***************************************************************************)
EXTENDS MCScreening, FiniteSetTheorems, TLAPS

-----------------------------------------------------------------------------
(* The velocity store.                                                     *)

AtWork == Writes \cup Reads

(* A delivery that is at work began at most Slack ticks ago. *)
Timed == \A j \in Jobs : stage[j] \in AtWork => now[j] <= clock /\ clock - now[j] <= Slack

VelocityInv == VelocityTypeOK /\ Timed

(* A larger dividend has no smaller quotient. *)
LEMMA QuotientGrows ==
    ASSUME NEW a \in Nat, NEW b \in Nat, NEW n \in Nat \ {0}, a <= b
    PROVE  a \div n \in 0 .. b \div n
OBVIOUS

LEMMA BucketType ==
    ASSUME VelocityTypeOK, NEW j \in Jobs
    PROVE  BucketOf(j) \in CardBuckets
<1>1. now[j] \in Nat /\ MaxTime \in Nat /\ now[j] <= MaxTime /\ Bucket \in Nat \ {0}
    BY VelocityAssumption DEF VelocityTypeOK
<1> QED
    BY <1>1, QuotientGrows DEF BucketOf, CardBuckets

LEMMA VelocityInitInv == VelocityInit => VelocityInv
<1> SUFFICES ASSUME VelocityInit PROVE VelocityInv
    OBVIOUS
<1> USE VelocityAssumption DEF VelocityInit
<1>1. Timed
    BY DEF Timed, AtWork, Writes, Reads
<1>2. VelocityTypeOK
    BY DEF VelocityTypeOK
<1> QED
    BY <1>1, <1>2 DEF VelocityInv

LEMMA VelocityNextInv == VelocityInv /\ [VelocityNext]_velocityVars => VelocityInv'
<1> SUFFICES ASSUME VelocityInv, [VelocityNext]_velocityVars PROVE VelocityInv'
    OBVIOUS
<1>a. /\ VelocityTypeOK /\ Timed
      /\ \A j \in Jobs : TxnOf[j] \in Txns /\ BucketOf(j) \in CardBuckets
    BY VelocityAssumption, BucketType DEF VelocityInv
<1>w. /\ Window \in Nat \ {0} /\ Slack \in Nat /\ MaxTime \in Nat /\ NoScore = 0 - 2 * Window
    BY VelocityAssumption DEF NoScore
<1> USE DEF To, Forget, Member, NoWrite, Writes, Reads, AtWork
<1>1. ASSUME NEW j \in Jobs, Begin(j) PROVE VelocityInv'
  <2>1. VelocityTypeOK'
      BY <1>1, <1>a, <1>w DEF Begin, VelocityTypeOK
  <2>2. Timed'
      BY <1>1, <1>a, <1>w DEF Begin, VelocityTypeOK, Timed
  <2> QED
      BY <2>1, <2>2 DEF VelocityInv
<1>2. ASSUME NEW j \in Jobs, Prune(j) PROVE VelocityInv'
  <2>1. scores' \in [Txns \cup Jobs -> (0 .. MaxTime) \cup {NoScore}]
      BY <1>2, <1>a DEF Prune, PruneScores, VelocityTypeOK
  <2>2. ttl' \in [set : 0 .. 2 * Window, hash : 0 .. 2 * Window]
      BY <1>2, <1>a, <1>w DEF Prune, PruneScores, VelocityTypeOK
  <2>3. VelocityTypeOK'
      BY <1>2, <1>a, <2>1, <2>2 DEF Prune, VelocityTypeOK
  <2>4. Timed'
      BY <1>2, <1>a DEF Prune, VelocityTypeOK, Timed
  <2> QED
      BY <2>3, <2>4 DEF VelocityInv
<1>3. ASSUME NEW j \in Jobs, Add(j) PROVE VelocityInv'
  <2>1. VelocityTypeOK'
      BY <1>3, <1>a DEF Add, VelocityTypeOK
  <2>2. Timed'
      BY <1>3, <1>a DEF Add, VelocityTypeOK, Timed
  <2> QED
      BY <2>1, <2>2 DEF VelocityInv
<1>4. ASSUME NEW j \in Jobs, KeepScores(j) PROVE VelocityInv'
  <2>1. VelocityTypeOK'
      BY <1>4, <1>a, <1>w DEF KeepScores, VelocityTypeOK
  <2>2. Timed'
      BY <1>4, <1>a DEF KeepScores, VelocityTypeOK, Timed
  <2> QED
      BY <2>1, <2>2 DEF VelocityInv
<1>5. ASSUME NEW j \in Jobs, SetValue(j) PROVE VelocityInv'
  <2>1. VelocityTypeOK'
      BY <1>5, <1>a DEF SetValue, VelocityTypeOK
  <2>2. Timed'
      BY <1>5, <1>a DEF SetValue, VelocityTypeOK, Timed
  <2> QED
      BY <2>1, <2>2 DEF VelocityInv
<1>6. ASSUME NEW j \in Jobs, KeepValues(j) PROVE VelocityInv'
  <2>1. VelocityTypeOK'
      BY <1>6, <1>a, <1>w DEF KeepValues, VelocityTypeOK
  <2>2. Timed'
      BY <1>6, <1>a DEF KeepValues, VelocityTypeOK, Timed
  <2> QED
      BY <2>1, <2>2 DEF VelocityInv
<1>7. ASSUME NEW j \in Jobs, AddUnique(j) PROVE VelocityInv'
  <2>1. VelocityTypeOK'
      BY <1>7, <1>a DEF AddUnique, VelocityTypeOK
  <2>2. Timed'
      BY <1>7, <1>a DEF AddUnique, VelocityTypeOK, Timed
  <2> QED
      BY <2>1, <2>2 DEF VelocityInv
<1>15. ASSUME NEW j \in Jobs, KeepUnique(j) PROVE VelocityInv'
  <2>1. lives' \in [CardBuckets -> 0 .. 2 * Bucket]
      BY <1>15, <1>a, VelocityAssumption DEF KeepUnique, ExpireUnique, VelocityTypeOK
  <2>2. VelocityTypeOK'
      BY <1>15, <1>a, <2>1 DEF KeepUnique, ExpireUnique, VelocityTypeOK
  <2>3. Timed'
      BY <1>15, <1>a DEF KeepUnique, ExpireUnique, VelocityTypeOK, Timed
  <2> QED
      BY <2>2, <2>3 DEF VelocityInv
<1>8. ASSUME NEW j \in Jobs, ExecFails(j) PROVE VelocityInv'
  <2>1. VelocityTypeOK'
      BY <1>8, <1>a, <1>w DEF ExecFails, VelocityTypeOK
  <2>2. Timed'
      BY <1>8, <1>a DEF ExecFails, VelocityTypeOK, Timed
  <2> QED
      BY <2>1, <2>2 DEF VelocityInv
<1>9. ASSUME NEW j \in Jobs, Count(j) PROVE VelocityInv'
  <2>1. VelocityTypeOK'
      BY <1>9, <1>a DEF Count, VelocityTypeOK
  <2>2. Timed'
      BY <1>9, <1>a DEF Count, VelocityTypeOK, Timed
  <2> QED
      BY <2>1, <2>2 DEF VelocityInv
<1>10. ASSUME NEW j \in Jobs, RangeScores(j) PROVE VelocityInv'
  <2>1. InWindow(j) \subseteq Txns \cup Jobs
      BY DEF InWindow
  <2>2. VelocityTypeOK'
      BY <1>10, <1>a, <2>1 DEF RangeScores, VelocityTypeOK
  <2>3. Timed'
      BY <1>10, <1>a DEF RangeScores, VelocityTypeOK, Timed
  <2> QED
      BY <2>2, <2>3 DEF VelocityInv
<1>11. ASSUME NEW j \in Jobs, Sum(j) PROVE VelocityInv'
  <2>1. VelocityTypeOK'
      BY <1>11, <1>a DEF Sum, VelocityTypeOK
  <2>2. Timed'
      BY <1>11, <1>a DEF Sum, VelocityTypeOK, Timed
  <2> QED
      BY <2>1, <2>2 DEF VelocityInv
<1>12. ASSUME NEW j \in Jobs, CountUnique(j) PROVE VelocityInv'
  <2>1. VelocityTypeOK'
      BY <1>12, <1>a, <1>w DEF CountUnique, VelocityTypeOK
  <2>2. Timed'
      BY <1>12, <1>a DEF CountUnique, VelocityTypeOK, Timed
  <2> QED
      BY <2>1, <2>2 DEF VelocityInv
<1>13. CASE VelocityTick
  <2>1. scores' \in [Txns \cup Jobs -> (0 .. MaxTime) \cup {NoScore}] /\ values' \subseteq Txns \cup Jobs
      BY <1>13, <1>a DEF VelocityTick, VelocityTypeOK
  <2>2. dropped' \subseteq Txns
      BY <1>13, <1>a DEF VelocityTick, VelocityTypeOK
  <2>3. ttl' \in [set : 0 .. 2 * Window, hash : 0 .. 2 * Window]
      BY <1>13, <1>a, <1>w DEF VelocityTick, VelocityTypeOK
  <2>6. uniques' \in [CardBuckets -> SUBSET Txns] /\ lives' \in [CardBuckets -> 0 .. 2 * Bucket]
      BY <1>13, <1>a, VelocityAssumption DEF VelocityTick, VelocityTypeOK
  <2>4. VelocityTypeOK'
      BY <1>13, <1>a, <1>w, <2>1, <2>2, <2>3, <2>6 DEF VelocityTick, VelocityTypeOK
  <2>5. Timed'
      BY <1>13, <1>a, <1>w DEF VelocityTick, VelocityTypeOK, Timed
  <2> QED
      BY <2>4, <2>5 DEF VelocityInv
<1>14. CASE UNCHANGED velocityVars
  <2>1. VelocityInv' = VelocityInv
      BY <1>14 DEF velocityVars, VelocityInv, VelocityTypeOK, Timed
  <2> QED
      BY <2>1
<1> QED
    BY <1>1, <1>2, <1>3, <1>4, <1>5, <1>6, <1>7, <1>8, <1>9, <1>10, <1>11, <1>12,
       <1>13, <1>14, <1>15 DEF VelocityNext

(* The keys and the deliveries of the velocity store keep their types,     *)
(* for any deliveries, window, bucket and length of a call.                *)
THEOREM VelocityTypeCorrect == VelocitySpec => []VelocityTypeOK
<1>1. VelocityInv => VelocityTypeOK
    BY DEF VelocityInv
<1> QED
    BY <1>1, VelocityInitInv, VelocityNextInv, PTL DEF VelocitySpec

-----------------------------------------------------------------------------
(* Unique merchants: from EndOf(b) on no delivery adds to bucket b or      *)
(* reads it, and its key does not expire before.                           *)
EndOf(b) == b * Bucket + 2 * Bucket

AddedTo(j) == stage[j] \in {"keepunique"} \cup Reads

BucketsKept ==
    /\ \A b \in CardBuckets : uniques[b] # added[b] => EndOf(b) <= clock
    /\ \A b \in CardBuckets : lives[b] # 0 => EndOf(b) <= clock + lives[b]
    /\ \A j \in Jobs : AddedTo(j) => TxnOf[j] \in added[BucketOf(j)]
    /\ \A b \in CardBuckets \ cut : uniques[b] # {} /\ lives[b] = 0 =>
           \E j \in Jobs : stage[j] = "keepunique" /\ BucketOf(j) = b

LEMMA QuotientBounds ==
    ASSUME NEW a \in Nat, NEW n \in Nat \ {0}
    PROVE  (a \div n) * n <= a /\ a < (a \div n) * n + n
OBVIOUS

(* A call is over before the end of the bucket that it began in. *)
LEMMA CallsEndInTime ==
    ASSUME VelocityInv, NEW j \in Jobs, stage[j] \in AtWork
    PROVE  /\ BucketOf(j) * Bucket <= clock /\ clock < EndOf(BucketOf(j))
           /\ BucketOf(j) \in Nat
<1>1. /\ now[j] \in Nat /\ clock \in Nat /\ Bucket \in Nat \ {0} /\ Slack \in Nat
      /\ Slack <= Bucket /\ now[j] <= clock /\ clock - now[j] <= Slack
    BY VelocityAssumption DEF VelocityInv, VelocityTypeOK, Timed
<1>2. /\ BucketOf(j) * Bucket <= now[j] /\ now[j] < BucketOf(j) * Bucket + Bucket
    BY <1>1, QuotientBounds DEF BucketOf
<1>3. BucketOf(j) \in Nat
    BY <1>1, QuotientGrows DEF BucketOf
<1>4. PICK n \in Nat : n = BucketOf(j) * Bucket
    BY <1>1, <1>3
<1> QED
    BY <1>1, <1>2, <1>3, <1>4 DEF EndOf

LEMMA BucketsNext == VelocityInv /\ BucketsKept /\ [VelocityNext]_velocityVars => BucketsKept'
<1> SUFFICES ASSUME VelocityInv, BucketsKept, [VelocityNext]_velocityVars PROVE BucketsKept'
    OBVIOUS
<1>a. VelocityTypeOK /\ \A j \in Jobs : BucketOf(j) \in CardBuckets
    BY BucketType DEF VelocityInv
<1>w. /\ Bucket \in Nat \ {0} /\ clock \in Nat /\ MaxTime \in Nat
      /\ \A b \in CardBuckets : lives[b] \in Nat /\ EndOf(b) \in Int
  <2>1. /\ Bucket \in Nat \ {0} /\ clock \in Nat /\ MaxTime \in Nat
        /\ \A b \in CardBuckets : lives[b] \in Nat
      BY <1>a, VelocityAssumption DEF VelocityTypeOK
  <2>2. \A b \in CardBuckets : b \in Nat
      BY <2>1 DEF CardBuckets
  <2> QED
      BY <2>1, <2>2 DEF EndOf
<1> USE DEF Writes, Reads
(* A step of j that neither adds to a bucket nor leaves one to keep. *)
<1>b. ASSUME UNCHANGED <<clock, uniques, lives, added, cut>>,
             NEW j \in Jobs, NEW s, stage' = [stage EXCEPT ![j] = s], stage[j] # "keepunique",
             \A i \in Jobs \ {j} : now'[i] = now[i],
             s \in {"keepunique"} \cup Reads => stage[j] \in Reads /\ now'[j] = now[j]
      PROVE  BucketsKept'
  <2>1. \A i \in Jobs : AddedTo(i)' => AddedTo(i) /\ now'[i] = now[i]
      BY <1>a, <1>b DEF VelocityTypeOK, AddedTo
  <2>2. \A i \in Jobs : AddedTo(i)' => TxnOf[i] \in added'[BucketOf(i)']
      BY <1>b, <2>1 DEF BucketsKept, BucketOf
  <2>3. \A i \in Jobs : stage[i] = "keepunique" =>
            stage'[i] = "keepunique" /\ BucketOf(i)' = BucketOf(i)
      BY <1>a, <1>b DEF VelocityTypeOK, BucketOf
  <2> QED
      BY <1>b, <2>2, <2>3 DEF BucketsKept
<1>1. ASSUME NEW j \in Jobs,
             \/ Begin(j) \/ Prune(j) \/ Add(j) \/ KeepScores(j) \/ SetValue(j) \/ KeepValues(j)
             \/ ExecFails(j) /\ stage[j] # "keepunique"
      PROVE  BucketsKept'
  <2>1. /\ UNCHANGED <<clock, uniques, lives, added>> /\ stage[j] # "keepunique"
        /\ \A i \in Jobs \ {j} : now'[i] = now[i]
        /\ \E s \in (Writes \ {"keepunique"}) \cup {"failed"} : stage' = [stage EXCEPT ![j] = s]
      BY <1>1, <1>a DEF Begin, Prune, Add, KeepScores, SetValue, KeepValues, ExecFails,
                        To, Forget, VelocityTypeOK
  <2>2. cut' = cut
      BY <1>1 DEF Begin, Prune, Add, KeepScores, SetValue, KeepValues, ExecFails
  <2>3. PICK s \in (Writes \ {"keepunique"}) \cup {"failed"} : stage' = [stage EXCEPT ![j] = s]
      BY <2>1
  <2> QED
      BY <1>b, <2>1, <2>2, <2>3
<1>2. ASSUME NEW j \in Jobs, Count(j) \/ RangeScores(j) \/ Sum(j) \/ CountUnique(j)
      PROVE  BucketsKept'
  <2>1. /\ UNCHANGED <<clock, uniques, lives, added, cut>> /\ stage[j] \in Reads
        /\ \A i \in Jobs \ {j} : now'[i] = now[i]
        /\ \E s \in Reads \cup {"done"} : /\ stage' = [stage EXCEPT ![j] = s]
                                          /\ s \in Reads => now'[j] = now[j]
      BY <1>2, <1>a DEF Count, RangeScores, Sum, CountUnique, NoWrite, To, Forget,
                        VelocityTypeOK
  <2>2. PICK s \in Reads \cup {"done"} : /\ stage' = [stage EXCEPT ![j] = s]
                                         /\ s \in Reads => now'[j] = now[j]
      BY <2>1
  <2> QED
      BY <1>b, <2>1, <2>2
<1>3. ASSUME NEW j \in Jobs, AddUnique(j) PROVE BucketsKept'
  <2>1. /\ stage[j] = "unique" /\ UNCHANGED <<clock, now, lives, cut>>
        /\ stage'[j] = "keepunique" /\ \A i \in Jobs \ {j} : stage'[i] = stage[i]
        /\ \A i \in Jobs : BucketOf(i)' = BucketOf(i)
      BY <1>3, <1>a DEF AddUnique, To, VelocityTypeOK, BucketOf
  <2>2. \A b \in CardBuckets :
            /\ uniques'[b] = IF b = BucketOf(j) THEN uniques[b] \cup {TxnOf[j]} ELSE uniques[b]
            /\ added'[b] = IF b = BucketOf(j) THEN added[b] \cup {TxnOf[j]} ELSE added[b]
      BY <1>3, <1>a DEF AddUnique, VelocityTypeOK
  <2>3. \A b \in CardBuckets : uniques'[b] # added'[b] => EndOf(b) <= clock'
      BY <2>1, <2>2 DEF BucketsKept
  <2>4. \A i \in Jobs : AddedTo(i)' => TxnOf[i] \in added'[BucketOf(i)']
      BY <1>a, <2>1, <2>2 DEF BucketsKept, AddedTo
  <2>5. ASSUME NEW b \in CardBuckets \ cut', uniques'[b] # {}, lives'[b] = 0
        PROVE  \E i \in Jobs : stage'[i] = "keepunique" /\ BucketOf(i)' = b
    <3>1. CASE b = BucketOf(j)
        BY <2>1, <3>1
    <3>2. CASE b # BucketOf(j)
        BY <2>1, <2>2, <2>5, <3>2 DEF BucketsKept
    <3> QED
        BY <3>1, <3>2
  <2>6. \A b \in CardBuckets : lives'[b] # 0 => EndOf(b) <= clock' + lives'[b]
      BY <2>1 DEF BucketsKept
  <2> QED
      BY <2>3, <2>4, <2>5, <2>6 DEF BucketsKept, EndOf
<1>4. ASSUME NEW j \in Jobs, KeepUnique(j) PROVE BucketsKept'
  <2>1. /\ stage[j] = "keepunique" /\ UNCHANGED <<clock, now, uniques, added>>
        /\ stage'[j] = "count" /\ \A i \in Jobs \ {j} : stage'[i] = stage[i]
        /\ \A i \in Jobs : BucketOf(i)' = BucketOf(i)
        /\ cut' = cut \ {BucketOf(j)}
      BY <1>4, <1>a DEF KeepUnique, ExpireUnique, To, VelocityTypeOK, BucketOf
  <2>2. \A b \in CardBuckets :
            lives'[b] = IF b = BucketOf(j) /\ uniques[b] # {} THEN 2 * Bucket ELSE lives[b]
      BY <1>4, <1>a DEF KeepUnique, ExpireUnique, VelocityTypeOK
  <2>3. EndOf(BucketOf(j)) <= clock + 2 * Bucket
    <3>1. BucketOf(j) * Bucket <= clock /\ BucketOf(j) \in Nat
        BY <2>1, CallsEndInTime DEF AtWork
    <3>2. PICK n \in Nat : n = BucketOf(j) * Bucket
        BY <1>w, <3>1
    <3> QED
        BY <1>w, <3>1, <3>2 DEF EndOf
  <2>4. \A b \in CardBuckets : lives'[b] # 0 => EndOf(b) <= clock' + lives'[b]
      BY <2>1, <2>2, <2>3 DEF BucketsKept
  <2>5. \A i \in Jobs : AddedTo(i)' => TxnOf[i] \in added'[BucketOf(i)']
      BY <2>1 DEF BucketsKept, AddedTo
  <2>6. ASSUME NEW b \in CardBuckets \ cut', uniques'[b] # {}, lives'[b] = 0
        PROVE  \E i \in Jobs : stage'[i] = "keepunique" /\ BucketOf(i)' = b
    <3>1. b # BucketOf(j) /\ lives[b] = 0 /\ b \notin cut
        BY <1>w, <2>1, <2>2, <2>6
    <3>2. PICK i \in Jobs : stage[i] = "keepunique" /\ BucketOf(i) = b
        BY <2>1, <2>6, <3>1 DEF BucketsKept
    <3> QED
        BY <2>1, <3>1, <3>2
  <2> QED
      BY <2>1, <2>4, <2>5, <2>6 DEF BucketsKept, EndOf
<1>5. ASSUME NEW j \in Jobs, ExecFails(j), stage[j] = "keepunique" PROVE BucketsKept'
  <2>1. /\ UNCHANGED <<clock, uniques, lives, added>>
        /\ stage'[j] = "failed" /\ \A i \in Jobs \ {j} : stage'[i] = stage[i]
        /\ \A i \in Jobs \ {j} : BucketOf(i)' = BucketOf(i)
        /\ cut' = cut \cup {b \in CardBuckets : b = BucketOf(j) /\ lives[b] = 0}
      BY <1>5, <1>a DEF ExecFails, To, Forget, VelocityTypeOK, BucketOf
  <2>2. \A i \in Jobs : AddedTo(i)' => TxnOf[i] \in added'[BucketOf(i)']
      BY <2>1 DEF BucketsKept, AddedTo
  <2>3. ASSUME NEW b \in CardBuckets \ cut', uniques'[b] # {}, lives'[b] = 0
        PROVE  \E i \in Jobs : stage'[i] = "keepunique" /\ BucketOf(i)' = b
    <3>1. b # BucketOf(j) /\ b \notin cut
        BY <2>1, <2>3
    <3>2. PICK i \in Jobs : stage[i] = "keepunique" /\ BucketOf(i) = b
        BY <2>1, <2>3, <3>1 DEF BucketsKept
    <3> QED
        BY <2>1, <3>1, <3>2
  <2> QED
      BY <2>1, <2>2, <2>3 DEF BucketsKept, EndOf
<1>6. CASE VelocityTick
  <2>1. clock' = clock + 1 /\ UNCHANGED <<stage, now, added, cut>>
      BY <1>6 DEF VelocityTick
  <2>2. \A b \in CardBuckets :
            /\ uniques'[b] = IF lives[b] = 1 THEN {} ELSE uniques[b]
            /\ lives'[b] = IF lives[b] = 0 THEN 0 ELSE lives[b] - 1
      BY <1>6 DEF VelocityTick
  <2>3. \A b \in CardBuckets : uniques'[b] # added'[b] => EndOf(b) <= clock'
      BY <1>w, <2>1, <2>2 DEF BucketsKept
  <2>4. \A b \in CardBuckets : lives'[b] # 0 => EndOf(b) <= clock' + lives'[b]
      BY <1>w, <2>1, <2>2 DEF BucketsKept
  <2>5. \A i \in Jobs : AddedTo(i)' => TxnOf[i] \in added'[BucketOf(i)']
      BY <2>1 DEF BucketsKept, AddedTo, BucketOf
  <2>6. \A b \in CardBuckets \ cut' : uniques'[b] # {} /\ lives'[b] = 0 =>
            \E i \in Jobs : stage'[i] = "keepunique" /\ BucketOf(i)' = b
      BY <1>w, <2>1, <2>2 DEF BucketsKept, BucketOf
  <2> QED
      BY <2>3, <2>4, <2>5, <2>6 DEF BucketsKept, EndOf
<1>7. CASE UNCHANGED velocityVars
    BY <1>7 DEF velocityVars, BucketsKept, AddedTo, BucketOf, EndOf
<1> QED
    BY <1>1, <1>2, <1>3, <1>4, <1>5, <1>6, <1>7 DEF VelocityNext

(* The merchants that a delivery counts are all those of the bucket it     *)
(* began in, however late in it, and whatever other pipelines were cut: no *)
(* key expires before the last reader is done, and one lives for ever only *)
(* after a cut, for any bucket that is at least as long as a call.         *)
THEOREM MerchantsOfTheBucket == VelocitySpec => []UniqueInBucket
<1>1. VelocityInit => BucketsKept
    BY DEF VelocityInit, BucketsKept, AddedTo, Reads
<1>2. VelocityInv /\ BucketsKept => UniqueInBucket
  <2> SUFFICES ASSUME VelocityInv, BucketsKept PROVE UniqueInBucket
      OBVIOUS
  <2>1. ASSUME NEW j \in Jobs, stage[j] \in Reads
        PROVE  TxnOf[j] \in uniques[BucketOf(j)] /\ uniques[BucketOf(j)] = added[BucketOf(j)]
    <3>1. BucketOf(j) \in CardBuckets /\ clock \in Nat
        BY BucketType, VelocityAssumption DEF VelocityInv, VelocityTypeOK
    <3>2. clock < EndOf(BucketOf(j)) /\ EndOf(BucketOf(j)) \in Int
        BY <2>1, <3>1, CallsEndInTime, VelocityAssumption DEF AtWork, EndOf
    <3>3. uniques[BucketOf(j)] = added[BucketOf(j)]
        BY <3>1, <3>2 DEF BucketsKept
    <3> QED
        BY <2>1, <3>3 DEF BucketsKept, AddedTo
  <2> QED
      BY <2>1 DEF UniqueInBucket, BucketsKept
<1> QED
    BY <1>1, <1>2, VelocityInitInv, VelocityNextInv, BucketsNext, PTL DEF VelocitySpec

-----------------------------------------------------------------------------
(* Counts: the set holds what was last added, and of that all whose EXPIRE *)
(* came in time for as long as it is in the window.                        *)
LastScores ==
    /\ \A m \in Jobs : scores[m] = NoScore
    /\ \A t \in Txns : scores[t] \in {NoScore, last[t]} /\ last[t] <= clock

KeptInWindow ==
    \A t \in Txns \ unkept : last[t] > clock - Window =>
        scores[t] = last[t] /\ ttl.set + clock >= last[t] + 2 * Window

ScoresInv == LastScores /\ KeptInWindow

LEMMA ScoresNext == VelocityInv /\ ScoresInv /\ [VelocityNext]_velocityVars => ScoresInv'
<1> SUFFICES ASSUME VelocityInv, ScoresInv, [VelocityNext]_velocityVars PROVE ScoresInv'
    OBVIOUS
<1>a. /\ VelocityTypeOK /\ Timed /\ LastScores /\ KeptInWindow
      /\ \A j \in Jobs : TxnOf[j] \in Txns
      /\ Txns \cap Jobs = {}
    BY VelocityAssumption DEF VelocityInv, ScoresInv
<1>w. /\ Window \in Nat \ {0} /\ Slack \in Nat /\ Slack <= Window /\ MaxTime \in Nat
      /\ NoScore = 0 - 2 * Window
    BY VelocityAssumption DEF NoScore
<1>t. /\ clock \in Nat /\ ttl.set \in Nat
      /\ \A t \in Txns : last[t] \in Int /\ scores[t] \in Int
      /\ \A j \in Jobs : now[j] \in Nat
    BY <1>a, <1>w DEF VelocityTypeOK
<1>1. ASSUME NEW j \in Jobs, Prune(j) PROVE ScoresInv'
  <2>1. UNCHANGED <<clock, last, unkept>> /\ stage[j] = "prune"
      BY <1>1 DEF Prune
  <2>2. \A m \in Txns \cup Jobs : scores'[m] = IF m \in Stale(j) THEN NoScore ELSE scores[m]
      BY <1>1 DEF Prune, PruneScores
  <2>3. LastScores'
      BY <1>a, <2>1, <2>2 DEF LastScores
  <2>4. now[j] <= clock
      BY <1>a, <2>1 DEF Timed, AtWork, Writes, Reads
  <2>5. ASSUME NEW t \in Txns \ unkept', last'[t] > clock' - Window
        PROVE  scores'[t] = last'[t] /\ ttl'.set + clock' >= last'[t] + 2 * Window
    <3>1. scores[t] = last[t] /\ ttl.set + clock >= last[t] + 2 * Window
        BY <1>a, <2>1, <2>5 DEF KeptInWindow
    <3>2. t \notin Stale(j)
        BY <1>t, <1>w, <2>1, <2>4, <2>5, <3>1 DEF Stale
    <3>3. ttl' = ttl
        BY <1>1, <3>2 DEF Prune, PruneScores
    <3> QED
        BY <2>1, <2>2, <3>1, <3>2, <3>3
  <2>6. KeptInWindow'
      BY <2>5 DEF KeptInWindow
  <2> QED
      BY <2>3, <2>6 DEF ScoresInv
<1>2. ASSUME NEW j \in Jobs, Add(j) PROVE ScoresInv'
  <2>1. /\ UNCHANGED <<clock, ttl>> /\ stage[j] = "add" /\ unkept' = unkept \cup {TxnOf[j]}
        /\ scores' = [scores EXCEPT ![TxnOf[j]] = now[j]]
        /\ last' = [last EXCEPT ![TxnOf[j]] = now[j]]
      BY <1>2 DEF Add, Member
  <2>2. now[j] <= clock
      BY <1>a, <2>1 DEF Timed, AtWork, Writes, Reads
  <2>3. LastScores'
      BY <1>a, <1>t, <2>1, <2>2 DEF LastScores, VelocityTypeOK
  <2>4. \A t \in Txns \ unkept' : t \notin unkept /\ last'[t] = last[t] /\ scores'[t] = scores[t]
      BY <1>a, <2>1 DEF VelocityTypeOK
  <2>5. KeptInWindow'
      BY <1>a, <2>1, <2>4 DEF KeptInWindow
  <2> QED
      BY <2>3, <2>5 DEF ScoresInv
<1>3. ASSUME NEW j \in Jobs, KeepScores(j) PROVE ScoresInv'
  <2>1. UNCHANGED <<clock, scores, last>>
      BY <1>3 DEF KeepScores
  <2>2. LastScores'
      BY <1>a, <2>1 DEF LastScores
  <2>3. ttl'.set \in {ttl.set, 2 * Window} /\ ttl'.set >= ttl.set
      BY <1>3, <1>a, <1>w, <1>t DEF KeepScores, VelocityTypeOK
  <2>4. ASSUME NEW t \in Txns \ unkept', last'[t] > clock' - Window
        PROVE  scores'[t] = last'[t] /\ ttl'.set + clock' >= last'[t] + 2 * Window
    <3>1. CASE t \notin unkept
      <4>1. scores[t] = last[t] /\ ttl.set + clock >= last[t] + 2 * Window
          BY <1>a, <2>1, <2>4, <3>1 DEF KeptInWindow
      <4> QED
          BY <1>t, <1>w, <2>1, <2>3, <4>1
    <3>2. CASE t \in unkept
      <4>1. t = TxnOf[j] /\ scores[TxnOf[j]] # NoScore
          BY <1>3, <3>2 DEF KeepScores, Member
      <4>2. scores[t] = last[t] /\ last[t] <= clock
          BY <1>a, <4>1 DEF LastScores
      <4>3. ttl'.set = 2 * Window
          BY <1>3, <1>a, <4>1 DEF KeepScores, VelocityTypeOK
      <4> QED
          BY <1>t, <1>w, <2>1, <4>2, <4>3
    <3> QED
        BY <3>1, <3>2
  <2>5. KeptInWindow'
      BY <2>4 DEF KeptInWindow
  <2> QED
      BY <2>2, <2>5 DEF ScoresInv
<1>4. CASE VelocityTick
  <2>1. /\ clock' = clock + 1 /\ UNCHANGED <<last, unkept>>
        /\ scores' = IF ttl.set = 1 THEN [m \in Txns \cup Jobs |-> NoScore] ELSE scores
        /\ ttl'.set = IF ttl.set = 0 THEN 0 ELSE ttl.set - 1
      BY <1>4 DEF VelocityTick
  <2>2. LastScores'
      BY <1>a, <1>t, <2>1 DEF LastScores
  <2>3. ASSUME NEW t \in Txns \ unkept', last'[t] > clock' - Window
        PROVE  scores'[t] = last'[t] /\ ttl'.set + clock' >= last'[t] + 2 * Window
    <3>1. last[t] > clock - Window /\ last[t] <= clock /\ last'[t] = last[t]
        BY <1>a, <1>t, <1>w, <2>1, <2>3 DEF LastScores
    <3>2. scores[t] = last[t] /\ ttl.set + clock >= last[t] + 2 * Window
        BY <1>a, <2>1, <2>3, <3>1 DEF KeptInWindow
    <3>3. ttl.set > 1
        BY <1>t, <1>w, <2>1, <2>3, <3>1, <3>2
    <3> QED
        BY <1>t, <2>1, <3>1, <3>2, <3>3
  <2>4. KeptInWindow'
      BY <2>3 DEF KeptInWindow
  <2> QED
      BY <2>2, <2>4 DEF ScoresInv
<1>5. ASSUME UNCHANGED <<clock, scores, last, unkept>>, ttl'.set = ttl.set PROVE ScoresInv'
    BY <1>a, <1>5 DEF ScoresInv, LastScores, KeptInWindow
<1>6. ASSUME NEW j \in Jobs,
             Begin(j) \/ SetValue(j) \/ KeepValues(j) \/ AddUnique(j) \/ KeepUnique(j)
             \/ ExecFails(j) \/ Count(j) \/ RangeScores(j) \/ Sum(j) \/ CountUnique(j)
      PROVE  ScoresInv'
  <2>1. UNCHANGED <<clock, scores, last, unkept>> /\ ttl'.set = ttl.set
      BY <1>6, <1>a DEF Begin, SetValue, KeepValues, AddUnique, KeepUnique, ExpireUnique,
                        ExecFails, Count, RangeScores,
                        Sum, CountUnique, NoWrite, VelocityTypeOK
  <2> QED
      BY <1>5, <2>1
<1>7. CASE UNCHANGED velocityVars
    BY <1>5, <1>7 DEF velocityVars
<1> QED
    BY <1>1, <1>2, <1>3, <1>4, <1>6, <1>7 DEF VelocityNext

(* The number a delivery gets from ZCOUNT is between the transactions of   *)
(* the last window whose EXPIRE came in time and those since a window      *)
(* before the delivery began, whatever was redelivered, failed or expired. *)
THEOREM CountsAreOfTheWindow == VelocitySpec => []CountsTheWindow
<1>1. VelocityInit => ScoresInv
  <2> SUFFICES ASSUME VelocityInit PROVE ScoresInv
      OBVIOUS
  <2>1. /\ clock = 0 /\ \A t \in Txns : last[t] = NoScore
        /\ \A m \in Txns \cup Jobs : scores[m] = NoScore
      BY DEF VelocityInit
  <2>2. Window \in Nat \ {0} /\ NoScore = 0 - 2 * Window
      BY VelocityAssumption DEF NoScore
  <2> QED
      BY <2>1, <2>2 DEF ScoresInv, LastScores, KeptInWindow
<1>2. VelocityInv /\ ScoresInv => CountsTheWindow
  <2> SUFFICES ASSUME VelocityInv, ScoresInv, NEW j \in Jobs, stage[j] = "count"
               PROVE  /\ Cardinality({t \in Txns \ unkept : last[t] > clock - Window})
                             <= Counted(j)
                      /\ Counted(j) <= Cardinality({t \in Txns : last[t] >= now[j] - Window})
      BY DEF CountsTheWindow
  <2> DEFINE A == {t \in Txns \ unkept : last[t] > clock - Window}
             B == {t \in Txns : last[t] >= now[j] - Window}
  <2>1. /\ Window \in Nat \ {0} /\ NoScore = 0 - 2 * Window
        /\ clock \in Nat /\ now[j] \in Nat /\ now[j] <= clock
        /\ \A t \in Txns : last[t] \in Int /\ scores[t] \in Int
      BY VelocityAssumption
         DEF NoScore, VelocityInv, VelocityTypeOK, Timed, AtWork, Writes, Reads
  <2>2. A \in SUBSET InWindow(j)
      BY <2>1 DEF ScoresInv, KeptInWindow, InWindow
  <2>3. InWindow(j) \in SUBSET B
      BY <2>1 DEF ScoresInv, LastScores, InWindow
  <2>4. B \in SUBSET Txns /\ IsFiniteSet(Txns)
      BY VelocityAssumption
  <2>5. IsFiniteSet(B)
      BY <2>4, FS_Subset
  <2>6. IsFiniteSet(InWindow(j)) /\ Cardinality(InWindow(j)) <= Cardinality(B)
      BY <2>3, <2>5, FS_Subset
  <2>7. Cardinality(A) <= Cardinality(InWindow(j))
      BY <2>2, <2>6, FS_Subset
  <2> QED
      BY <2>6, <2>7 DEF Counted
<1> QED
    BY <1>1, <1>2, VelocityInitInv, VelocityNextInv, ScoresNext, PTL DEF VelocitySpec

-----------------------------------------------------------------------------
(* Sums: the amount of a member outlives the time for which it is counted. *)

\* A delivery of t has not stored the amount, or never will; is about to keep it.
Owed(t) == \E i \in Jobs : TxnOf[i] = t /\ stage[i] \in {"keep", "value", "failed"}
Sending(t) == \E i \in Jobs : TxnOf[i] = t /\ stage[i] = "keepvalue"

\* The amount of t is there until the clock is at n, unless one of the cases
\* holds in which it may be missing.
StoredUntil(t, n) ==
    \/ t \in dropped \/ Owed(t)
    \/ t \in values /\ (Sending(t) \/ ttl.hash + clock >= n)

LEMMA StoredStays ==
    ASSUME VelocityInv, VelocityNext, ~VelocityTick,
           NEW t \in Txns, NEW n \in Int, n <= clock + 2 * Window, StoredUntil(t, n)
    PROVE  StoredUntil(t, n)'
<1>a. VelocityTypeOK /\ \A j \in Jobs : TxnOf[j] \in Txns
    BY VelocityAssumption DEF VelocityInv
<1>w. /\ Window \in Nat \ {0} /\ clock \in Nat /\ ttl.hash \in 0 .. 2 * Window
    BY <1>a, VelocityAssumption DEF VelocityTypeOK
(* A step that neither fails, nor is one of the two that pay what is owed. *)
<1>b. ASSUME NEW j \in Jobs, NEW s, stage' = [stage EXCEPT ![j] = s],
             UNCHANGED <<clock, values, dropped>>, ttl'.hash = ttl.hash,
             stage[j] \in {"keep", "value", "failed"} => s \in {"keep", "value", "failed"},
             stage[j] = "keepvalue" => s \in {"keepvalue", "failed"}
      PROVE  StoredUntil(t, n)'
  <2>0. /\ stage'[j] = s /\ \A i \in Jobs \ {j} : stage'[i] = stage[i]
      BY <1>a, <1>b DEF VelocityTypeOK
  <2>1. Owed(t) => Owed(t)'
      BY <1>b, <2>0 DEF Owed
  <2>2. Sending(t) => Sending(t)' \/ Owed(t)'
      BY <1>b, <2>0 DEF Owed, Sending
  <2> QED
      BY <1>b, <2>1, <2>2 DEF StoredUntil
<1>1. ASSUME NEW j \in Jobs, SetValue(j) PROVE StoredUntil(t, n)'
  <2>1. /\ stage[j] = "value" /\ stage' = [stage EXCEPT ![j] = "keepvalue"]
        /\ UNCHANGED <<clock, ttl>>
        /\ values' = values \cup {TxnOf[j]} /\ dropped' = dropped \ {TxnOf[j]}
      BY <1>1 DEF SetValue, To, Member
  <2>2. stage'[j] = "keepvalue" /\ \A i \in Jobs \ {j} : stage'[i] = stage[i]
      BY <1>a, <2>1 DEF VelocityTypeOK
  <2>3. CASE t = TxnOf[j]
    <3>1. Sending(t)' /\ t \in values'
        BY <2>1, <2>2, <2>3 DEF Sending
    <3> QED
        BY <3>1 DEF StoredUntil
  <2>4. CASE t # TxnOf[j]
    <3>1. Owed(t) => Owed(t)'
        BY <2>1, <2>2, <2>4 DEF Owed
    <3>2. Sending(t) => Sending(t)'
        BY <2>1, <2>2, <2>4 DEF Sending
    <3> QED
        BY <2>1, <2>4, <3>1, <3>2 DEF StoredUntil
  <2> QED
      BY <2>3, <2>4
<1>2. ASSUME NEW j \in Jobs, KeepValues(j) PROVE StoredUntil(t, n)'
  <2>1. /\ stage[j] = "keepvalue" /\ stage' = [stage EXCEPT ![j] = "unique"]
        /\ UNCHANGED <<clock, values, dropped>>
      BY <1>2 DEF KeepValues, To
  <2>2. stage'[j] = "unique" /\ \A i \in Jobs \ {j} : stage'[i] = stage[i]
      BY <1>a, <2>1 DEF VelocityTypeOK
  <2>3. Owed(t) => Owed(t)'
      BY <2>1, <2>2 DEF Owed
  <2>4. t \in values => ttl'.hash + clock' >= n
    <3>1. t \in values => ttl'.hash = 2 * Window
        BY <1>2, <1>a DEF KeepValues, VelocityTypeOK
    <3> QED
        BY <1>w, <2>1, <3>1
  <2> QED
      BY <2>1, <2>3, <2>4 DEF StoredUntil
<1>3. ASSUME NEW j \in Jobs,
             Begin(j) \/ Prune(j) \/ Add(j) \/ KeepScores(j) \/ AddUnique(j) \/ KeepUnique(j)
             \/ ExecFails(j) \/ Count(j) \/ RangeScores(j) \/ Sum(j) \/ CountUnique(j)
      PROVE  StoredUntil(t, n)'
  <2>1. UNCHANGED <<clock, values, dropped>>
      BY <1>3 DEF Begin, Prune, Add, KeepScores, AddUnique, KeepUnique, ExpireUnique,
                  ExecFails, Count, RangeScores,
                  Sum, CountUnique, NoWrite
  <2>2. ttl'.hash = ttl.hash
      BY <1>3, <1>a DEF Begin, Prune, PruneScores, Add, KeepScores, AddUnique,
                        KeepUnique, ExpireUnique, ExecFails, Count,
                  RangeScores, Sum, CountUnique, NoWrite, VelocityTypeOK
  <2>3. \E s \in AtWork \cup {"failed", "done"} :
            /\ stage' = [stage EXCEPT ![j] = s]
            /\ stage[j] \in {"keep", "value", "failed"} => s \in {"keep", "value", "failed"}
            /\ stage[j] = "keepvalue" => s \in {"keepvalue", "failed"}
    <3>1. CASE ExecFails(j)
        BY <3>1 DEF ExecFails, To, AtWork, Writes, Reads
    <3>2. CASE RangeScores(j)
        BY <3>2 DEF RangeScores, To, AtWork, Writes, Reads
    <3>3. CASE Begin(j) \/ Prune(j) \/ Add(j) \/ KeepScores(j) \/ AddUnique(j) \/ KeepUnique(j)
        BY <3>3 DEF Begin, Prune, Add, KeepScores, AddUnique, KeepUnique, ExpireUnique,
                    To, AtWork, Writes, Reads
    <3>4. CASE Count(j) \/ Sum(j) \/ CountUnique(j)
        BY <3>4 DEF Count, Sum, CountUnique, To, AtWork, Writes, Reads
    <3> QED
        BY <1>3, <3>1, <3>2, <3>3, <3>4
  <2>4. PICK s \in AtWork \cup {"failed", "done"} :
            /\ stage' = [stage EXCEPT ![j] = s]
            /\ stage[j] \in {"keep", "value", "failed"} => s \in {"keep", "value", "failed"}
            /\ stage[j] = "keepvalue" => s \in {"keepvalue", "failed"}
      BY <2>3
  <2> QED
      BY <1>b, <2>1, <2>2, <2>4
<1> QED
    BY <1>1, <1>2, <1>3 DEF VelocityNext

(* When the hash expires it is no longer needed. *)
LEMMA StoredAge ==
    ASSUME VelocityInv, VelocityTick,
           NEW t \in Txns, NEW n \in Int, StoredUntil(t, n)
    PROVE  StoredUntil(t, n)' \/ n <= clock'
<1>a. clock \in Nat /\ ttl.hash \in Nat
    BY VelocityAssumption DEF VelocityInv, VelocityTypeOK
<1>1. /\ clock' = clock + 1 /\ UNCHANGED stage
      /\ values' = IF ttl.hash = 1 THEN {} ELSE values
      /\ dropped' = IF ttl.hash = 1
                    THEN dropped \cup {TxnOf[j] : j \in {i \in Jobs : stage[i] = "keepvalue"}}
                    ELSE dropped
      /\ ttl'.hash = IF ttl.hash = 0 THEN 0 ELSE ttl.hash - 1
    BY DEF VelocityTick
<1>2. Owed(t) => Owed(t)'
    BY <1>1 DEF Owed
<1>3. Sending(t) => Sending(t)'
    BY <1>1 DEF Sending
<1>4. CASE t \in dropped \/ Owed(t)
    BY <1>1, <1>2, <1>4 DEF StoredUntil
<1>5. CASE t \in values /\ Sending(t)
  <2>1. CASE ttl.hash = 1
      BY <1>1, <1>5, <2>1 DEF StoredUntil, Sending
  <2>2. CASE ttl.hash # 1
      BY <1>1, <1>3, <1>5, <2>2 DEF StoredUntil
  <2> QED
      BY <2>1, <2>2
<1>6. CASE t \in values /\ ttl.hash + clock >= n
  <2>1. CASE ttl.hash \in {0, 1}
      BY <1>a, <1>1, <1>6, <2>1
  <2>2. CASE ttl.hash > 1
    <3>1. ttl'.hash + clock' >= n /\ t \in values'
        BY <1>a, <1>1, <1>6, <2>2
    <3> QED
        BY <3>1 DEF StoredUntil
  <2> QED
      BY <1>a, <2>1, <2>2
<1> QED
    BY <1>4, <1>5, <1>6 DEF StoredUntil

AmountsKept ==
    /\ \A t \in Txns :
           scores[t] + 2 * Window <= clock \/ StoredUntil(t, scores[t] + 2 * Window)
    /\ \A j \in Jobs, t \in Txns : stage[j] \in AtWork \ {"prune"} =>
           \/ scores[t] = NoScore \/ scores[t] > now[j] - Window
           \/ StoredUntil(t, now[j] + 2 * Window)
    /\ \A j \in Jobs : stage[j] = "sum" =>
           \A t \in ranged[j] : t \in Txns /\ StoredUntil(t, now[j] + Window + 1)

(* A step that gives no transaction a score and lets no delivery past its   *)
(* pruning or its range.                                                    *)
LEMMA AmountsStay ==
    ASSUME VelocityInv, ScoresInv, AmountsKept, VelocityNext, ~VelocityTick,
           UNCHANGED scores,
           \A j \in Jobs : stage'[j] \in AtWork \ {"prune"} =>
               stage[j] \in AtWork \ {"prune"} /\ now'[j] = now[j],
           \A j \in Jobs : stage'[j] = "sum" => stage[j] = "sum" /\ ranged'[j] = ranged[j]
    PROVE  AmountsKept'
<1>w. /\ Window \in Nat \ {0} /\ clock \in Nat /\ clock' = clock
      /\ \A j \in Jobs : now[j] \in Nat
      /\ \A t \in Txns : scores[t] \in Int /\ scores[t] <= clock
    <2>1. /\ Window \in Nat \ {0} /\ clock \in Nat /\ NoScore = 0 - 2 * Window
          /\ \A j \in Jobs : now[j] \in Nat
          /\ \A t \in Txns : scores[t] \in Int
        BY VelocityAssumption DEF VelocityInv, VelocityTypeOK, NoScore
    <2>2. \A t \in Txns : scores[t] <= clock
        BY <2>1 DEF ScoresInv, LastScores
    <2>3. clock' = clock
        BY DEF VelocityNext, Begin, Prune, Add, KeepScores, SetValue, KeepValues,
               AddUnique, KeepUnique, ExpireUnique,
               ExecFails, Count, RangeScores, Sum, CountUnique, NoWrite
    <2> QED
        BY <2>1, <2>2, <2>3
<1>1. ASSUME NEW t \in Txns
      PROVE  \/ scores'[t] + 2 * Window <= clock'
             \/ StoredUntil(t, scores[t] + 2 * Window)'
  <2>1. PICK n \in Int : n = scores[t] + 2 * Window
      BY <1>w
  <2>2. n <= clock \/ StoredUntil(t, n)
      BY <2>1 DEF AmountsKept
  <2>3. n <= clock \/ StoredUntil(t, n)'
      BY <1>w, <2>1, <2>2, StoredStays
  <2>4. scores'[t] + 2 * Window = n
      BY <2>1
  <2> QED
      BY <1>w, <2>3, <2>4
<1>2. ASSUME NEW j \in Jobs, NEW t \in Txns, stage'[j] \in AtWork \ {"prune"}
      PROVE  \/ scores'[t] = NoScore \/ scores'[t] > now'[j] - Window
             \/ StoredUntil(t, now[j] + 2 * Window)'
  <2>1. stage[j] \in AtWork \ {"prune"} /\ now'[j] = now[j]
      BY <1>2
  <2>2. PICK n \in Int : n = now[j] + 2 * Window
      BY <1>w
  <2>3. \/ scores[t] = NoScore \/ scores[t] > now[j] - Window
        \/ StoredUntil(t, n)
      BY <2>1, <2>2 DEF AmountsKept
  <2>4. n <= clock + 2 * Window
      BY <1>w, <2>1, <2>2 DEF VelocityInv, Timed
  <2>5. StoredUntil(t, n) => StoredUntil(t, n)'
      BY <2>4, StoredStays
  <2>6. now'[j] + 2 * Window = n
      BY <2>1, <2>2
  <2> QED
      BY <2>1, <2>3, <2>5, <2>6
<1>3. ASSUME NEW j \in Jobs, stage'[j] = "sum", NEW t \in ranged'[j]
      PROVE  t \in Txns /\ StoredUntil(t, now[j] + Window + 1)'
  <2>1. stage[j] = "sum" /\ ranged'[j] = ranged[j] /\ now'[j] = now[j] /\ now[j] <= clock
      BY <1>3 DEF AtWork, Reads, VelocityInv, Timed
  <2>2. PICK n \in Int : n = now[j] + Window + 1
      BY <1>w
  <2>3. t \in Txns /\ StoredUntil(t, n)
      BY <1>3, <2>1, <2>2 DEF AmountsKept
  <2>4. StoredUntil(t, n)'
      BY <1>w, <2>1, <2>2, <2>3, StoredStays
  <2>5. now'[j] + Window + 1 = n
      BY <2>1, <2>2
  <2> QED
      BY <2>3, <2>4, <2>5
<1> QED
    BY <1>1, <1>2, <1>3 DEF AmountsKept

LEMMA AmountsPruned ==
    ASSUME VelocityInv, ScoresInv, AmountsKept, VelocityNext, NEW k \in Jobs, Prune(k)
    PROVE  AmountsKept'
<1>w. /\ Window \in Nat \ {0} /\ clock \in Nat /\ NoScore = 0 - 2 * Window
      /\ \A j \in Jobs : now[j] \in Nat
      /\ \A t \in Txns : scores[t] \in Int /\ scores[t] <= clock
    BY VelocityAssumption DEF VelocityInv, VelocityTypeOK, NoScore, ScoresInv, LastScores
<1>1. /\ stage[k] = "prune" /\ UNCHANGED <<clock, now, ranged>>
      /\ \A m \in Txns : scores'[m] = IF m \in Stale(k) THEN NoScore ELSE scores[m]
      /\ \A i \in Jobs \ {k} : stage'[i] = stage[i]
      /\ stage'[k] = "add"
    BY DEF Prune, PruneScores, To, VelocityInv, VelocityTypeOK
<1>2. ~VelocityTick
    BY <1>w, <1>1 DEF VelocityTick
<1>3. ASSUME NEW t \in Txns, NEW n \in Int, n <= clock + 2 * Window, StoredUntil(t, n)
      PROVE  StoredUntil(t, n)'
    BY <1>2, <1>3, StoredStays
<1>4. ASSUME NEW t \in Txns
      PROVE  \/ scores'[t] + 2 * Window <= clock'
             \/ StoredUntil(t, scores[t] + 2 * Window)'
  <2>1. CASE scores'[t] = NoScore
      BY <1>w, <1>1, <2>1
  <2>2. CASE scores'[t] = scores[t]
    <3>1. PICK n \in Int : n = scores[t] + 2 * Window
        BY <1>w
    <3>2. n <= clock \/ StoredUntil(t, n)
        BY <3>1 DEF AmountsKept
    <3>3. n <= clock \/ StoredUntil(t, n)'
        BY <1>w, <1>3, <3>1, <3>2
    <3>4. scores'[t] + 2 * Window = n
        BY <2>2, <3>1
    <3> QED
        BY <1>w, <1>1, <3>3, <3>4
  <2> QED
      BY <1>1, <2>1, <2>2
<1>5. ASSUME NEW j \in Jobs, NEW t \in Txns, stage'[j] \in AtWork \ {"prune"}
      PROVE  \/ scores'[t] = NoScore \/ scores'[t] > now'[j] - Window
             \/ StoredUntil(t, now[j] + 2 * Window)'
  <2>1. CASE j = k
    <3>1. t \in Stale(k) \/ scores[t] > now[k] - Window
        BY <1>w DEF Stale
    <3> QED
        BY <1>1, <2>1, <3>1
  <2>2. CASE j # k
    <3>1. stage[j] \in AtWork \ {"prune"}
        BY <1>1, <1>5, <2>2
    <3>2. PICK n \in Int : n = now[j] + 2 * Window
        BY <1>w
    <3>3. scores[t] = NoScore \/ scores[t] > now[j] - Window \/ StoredUntil(t, n)
        BY <3>1, <3>2 DEF AmountsKept
    <3>4. n <= clock + 2 * Window
        BY <1>w, <3>1, <3>2 DEF VelocityInv, Timed
    <3>5. StoredUntil(t, n) => StoredUntil(t, n)'
        BY <1>3, <3>4
    <3>6. now'[j] + 2 * Window = n
        BY <1>1, <3>2
    <3> QED
        BY <1>1, <3>3, <3>5, <3>6
  <2> QED
      BY <2>1, <2>2
<1>6. ASSUME NEW j \in Jobs, stage'[j] = "sum", NEW t \in ranged'[j]
      PROVE  t \in Txns /\ StoredUntil(t, now[j] + Window + 1)'
  <2>1. stage[j] = "sum" /\ ranged'[j] = ranged[j] /\ now[j] <= clock
      BY <1>1, <1>6 DEF AtWork, Reads, VelocityInv, Timed
  <2>2. PICK n \in Int : n = now[j] + Window + 1
      BY <1>w
  <2>3. t \in Txns /\ StoredUntil(t, n)
      BY <1>6, <2>1, <2>2 DEF AmountsKept
  <2>4. StoredUntil(t, n)'
      BY <1>w, <1>3, <2>1, <2>2, <2>3
  <2>5. now'[j] + Window + 1 = n
      BY <1>1, <2>2
  <2> QED
      BY <2>3, <2>4, <2>5
<1> QED
    BY <1>4, <1>5, <1>6 DEF AmountsKept

LEMMA AmountsAdded ==
    ASSUME VelocityInv, ScoresInv, AmountsKept, VelocityNext, NEW k \in Jobs, Add(k)
    PROVE  AmountsKept'
<1>w. /\ Window \in Nat \ {0} /\ clock \in Nat /\ TxnOf[k] \in Txns
      /\ \A j \in Jobs : now[j] \in Nat
      /\ \A t \in Txns : scores[t] \in Int /\ scores[t] <= clock
    <2>1. /\ Window \in Nat \ {0} /\ clock \in Nat /\ TxnOf[k] \in Txns
          /\ NoScore = 0 - 2 * Window
          /\ \A j \in Jobs : now[j] \in Nat
          /\ \A t \in Txns : scores[t] \in Int
        BY VelocityAssumption DEF VelocityInv, VelocityTypeOK, NoScore
    <2> QED
        BY <2>1 DEF ScoresInv, LastScores
<1>1. /\ stage[k] = "add" /\ UNCHANGED <<clock, now, ranged>>
      /\ \A m \in Txns \ {TxnOf[k]} : scores'[m] = scores[m]
      /\ \A i \in Jobs \ {k} : stage'[i] = stage[i]
      /\ stage'[k] = "keep"
    BY <1>w DEF Add, Member, To, VelocityInv, VelocityTypeOK
<1>2. ~VelocityTick
    BY <1>w, <1>1 DEF VelocityTick
<1>3. ASSUME NEW t \in Txns, NEW n \in Int, n <= clock + 2 * Window, StoredUntil(t, n)
      PROVE  StoredUntil(t, n)'
    BY <1>2, <1>3, StoredStays
<1>o. Owed(TxnOf[k])'
    BY <1>1 DEF Owed
<1>4. ASSUME NEW t \in Txns
      PROVE  \/ scores'[t] + 2 * Window <= clock'
             \/ StoredUntil(t, scores[t] + 2 * Window)'
  <2>1. CASE t = TxnOf[k]
      BY <1>o, <2>1 DEF StoredUntil
  <2>2. CASE t # TxnOf[k]
    <3>1. PICK n \in Int : n = scores[t] + 2 * Window
        BY <1>w
    <3>2. n <= clock \/ StoredUntil(t, n)
        BY <3>1 DEF AmountsKept
    <3>3. n <= clock \/ StoredUntil(t, n)'
        BY <1>w, <1>3, <3>1, <3>2
    <3>4. scores'[t] + 2 * Window = n
        BY <1>1, <2>2, <3>1
    <3> QED
        BY <1>w, <1>1, <3>3, <3>4
  <2> QED
      BY <2>1, <2>2
<1>5. ASSUME NEW j \in Jobs, NEW t \in Txns, stage'[j] \in AtWork \ {"prune"}
      PROVE  \/ scores'[t] = NoScore \/ scores'[t] > now'[j] - Window
             \/ StoredUntil(t, now[j] + 2 * Window)'
  <2>1. CASE t = TxnOf[k]
      BY <1>o, <2>1 DEF StoredUntil
  <2>2. CASE t # TxnOf[k]
    <3>1. stage[j] \in AtWork \ {"prune"}
        BY <1>1, <1>5 DEF AtWork, Writes, Reads
    <3>2. PICK n \in Int : n = now[j] + 2 * Window
        BY <1>w
    <3>3. scores[t] = NoScore \/ scores[t] > now[j] - Window \/ StoredUntil(t, n)
        BY <3>1, <3>2 DEF AmountsKept
    <3>4. n <= clock + 2 * Window
        BY <1>w, <3>1, <3>2 DEF VelocityInv, Timed
    <3>5. StoredUntil(t, n) => StoredUntil(t, n)'
        BY <1>3, <3>4
    <3>6. now'[j] + 2 * Window = n /\ scores'[t] = scores[t]
        BY <1>1, <2>2, <3>2
    <3> QED
        BY <1>1, <3>3, <3>5, <3>6
  <2> QED
      BY <2>1, <2>2
<1>6. ASSUME NEW j \in Jobs, stage'[j] = "sum", NEW t \in ranged'[j]
      PROVE  t \in Txns /\ StoredUntil(t, now[j] + Window + 1)'
  <2>1. stage[j] = "sum" /\ ranged'[j] = ranged[j] /\ now[j] <= clock
      BY <1>1, <1>6 DEF AtWork, Reads, VelocityInv, Timed
  <2>2. PICK n \in Int : n = now[j] + Window + 1
      BY <1>w
  <2>3. t \in Txns /\ StoredUntil(t, n)
      BY <1>6, <2>1, <2>2 DEF AmountsKept
  <2>4. StoredUntil(t, n)'
      BY <1>w, <1>3, <2>1, <2>2, <2>3
  <2>5. now'[j] + Window + 1 = n
      BY <1>1, <2>2
  <2> QED
      BY <2>3, <2>4, <2>5
<1> QED
    BY <1>4, <1>5, <1>6 DEF AmountsKept

LEMMA AmountsRanged ==
    ASSUME VelocityInv, ScoresInv, AmountsKept, VelocityNext, NEW k \in Jobs, RangeScores(k)
    PROVE  AmountsKept'
<1>w. /\ Window \in Nat \ {0} /\ Slack \in Nat /\ Slack <= Window /\ clock \in Nat
      /\ NoScore = 0 - 2 * Window
      /\ \A j \in Jobs : now[j] \in Nat
      /\ \A t \in Txns : scores[t] \in Int
    BY VelocityAssumption DEF VelocityInv, VelocityTypeOK, NoScore
<1>1. /\ stage[k] = "range" /\ UNCHANGED <<clock, now, scores>>
      /\ \A i \in Jobs \ {k} : stage'[i] = stage[i] /\ ranged'[i] = ranged[i]
      /\ stage'[k] \in {"sum", "distinct"}
      /\ stage'[k] = "sum" => ranged'[k] = InWindow(k)
    BY DEF RangeScores, NoWrite, To, VelocityInv, VelocityTypeOK
<1>2. ~VelocityTick
    BY <1>w, <1>1 DEF VelocityTick
<1>k. now[k] <= clock /\ clock - now[k] <= Slack
    BY <1>1 DEF AtWork, Reads, VelocityInv, Timed
(* What is in the window has its amount until the sum is over. *)
<1>3. ASSUME NEW t \in InWindow(k)
      PROVE  t \in Txns /\ StoredUntil(t, now[k] + Window + 1)
  <2>1. t \in Txns /\ scores[t] >= now[k] - Window
    <3>1. t \notin Jobs
        BY <1>w, <1>3 DEF InWindow, ScoresInv, LastScores
    <3> QED
        BY <1>3, <3>1 DEF InWindow
  <2>2. \/ scores[t] = NoScore \/ scores[t] > now[k] - Window
        \/ StoredUntil(t, now[k] + 2 * Window)
      BY <1>1, <2>1 DEF AmountsKept, AtWork, Reads
  <2>3. CASE StoredUntil(t, now[k] + 2 * Window)
    <3>1. now[k] + 2 * Window >= now[k] + Window + 1
        BY <1>w
    <3>2. ttl.hash \in Nat
        BY <1>w DEF VelocityInv, VelocityTypeOK
    <3>3. ttl.hash + clock >= now[k] + 2 * Window => ttl.hash + clock >= now[k] + Window + 1
        BY <1>w, <3>1, <3>2
    <3> QED
        BY <2>1, <2>3, <3>3 DEF StoredUntil
  <2>4. CASE scores[t] > now[k] - Window
    <3>1. scores[t] + 2 * Window > clock
        BY <1>w, <1>k, <2>1, <2>4
    <3>2. StoredUntil(t, scores[t] + 2 * Window)
        BY <1>w, <2>1, <3>1 DEF AmountsKept
    <3>3. ttl.hash \in Nat
        BY <1>w DEF VelocityInv, VelocityTypeOK
    <3>4. ttl.hash + clock >= scores[t] + 2 * Window => ttl.hash + clock >= now[k] + Window + 1
        BY <1>w, <2>1, <2>4, <3>3
    <3> QED
        BY <2>1, <3>2, <3>4 DEF StoredUntil
  <2>5. scores[t] # NoScore
      BY <1>w, <2>1
  <2> QED
      BY <2>2, <2>3, <2>4, <2>5
<1>4. ASSUME NEW t \in Txns, NEW n \in Int, n <= clock + 2 * Window, StoredUntil(t, n)
      PROVE  StoredUntil(t, n)'
    BY <1>2, <1>4, StoredStays
<1>5. \A t \in Txns : scores[t] <= clock
    BY <1>w DEF ScoresInv, LastScores
<1>6. ASSUME NEW t \in Txns
      PROVE  \/ scores'[t] + 2 * Window <= clock'
             \/ StoredUntil(t, scores[t] + 2 * Window)'
  <2>1. PICK n \in Int : n = scores[t] + 2 * Window
      BY <1>w
  <2>2. n <= clock \/ StoredUntil(t, n)
      BY <2>1 DEF AmountsKept
  <2>3. n <= clock \/ StoredUntil(t, n)'
      BY <1>w, <1>4, <1>5, <2>1, <2>2
  <2>4. scores'[t] + 2 * Window = n
      BY <1>1, <2>1
  <2> QED
      BY <1>w, <1>1, <2>3, <2>4
<1>7. ASSUME NEW j \in Jobs, NEW t \in Txns, stage'[j] \in AtWork \ {"prune"}
      PROVE  \/ scores'[t] = NoScore \/ scores'[t] > now'[j] - Window
             \/ StoredUntil(t, now[j] + 2 * Window)'
  <2>1. stage[j] \in AtWork \ {"prune"}
      BY <1>1, <1>7 DEF AtWork, Writes, Reads
  <2>2. PICK n \in Int : n = now[j] + 2 * Window
      BY <1>w
  <2>3. scores[t] = NoScore \/ scores[t] > now[j] - Window \/ StoredUntil(t, n)
      BY <2>1, <2>2 DEF AmountsKept
  <2>4. n <= clock + 2 * Window
      BY <1>w, <2>1, <2>2 DEF VelocityInv, Timed
  <2>5. StoredUntil(t, n) => StoredUntil(t, n)'
      BY <1>4, <2>4
  <2>6. now'[j] + 2 * Window = n
      BY <1>1, <2>2
  <2> QED
      BY <1>1, <2>3, <2>5, <2>6
<1>8. ASSUME NEW j \in Jobs, stage'[j] = "sum", NEW t \in ranged'[j]
      PROVE  t \in Txns /\ StoredUntil(t, now[j] + Window + 1)'
  <2>1. now[j] <= clock
      BY <1>1, <1>8, <1>k DEF AtWork, Reads, VelocityInv, Timed
  <2>2. PICK n \in Int : n = now[j] + Window + 1
      BY <1>w
  <2>3. t \in Txns /\ StoredUntil(t, n)
    <3>1. CASE j = k
        BY <1>1, <1>3, <1>8, <2>2, <3>1
    <3>2. CASE j # k
        BY <1>1, <1>8, <2>2, <3>2 DEF AmountsKept
    <3> QED
        BY <3>1, <3>2
  <2>4. StoredUntil(t, n)'
      BY <1>w, <1>4, <2>1, <2>2, <2>3
  <2>5. now'[j] + Window + 1 = n
      BY <1>1, <2>2
  <2> QED
      BY <2>3, <2>4, <2>5
<1> QED
    BY <1>6, <1>7, <1>8 DEF AmountsKept

LEMMA AmountsAge ==
    ASSUME VelocityInv, ScoresInv, AmountsKept, VelocityTick
    PROVE  AmountsKept'
<1>w. /\ Window \in Nat \ {0} /\ Slack \in Nat /\ Slack <= Window /\ clock \in Nat
      /\ NoScore = 0 - 2 * Window
      /\ \A j \in Jobs : now[j] \in Nat
      /\ \A t \in Txns : scores[t] \in Int
    BY VelocityAssumption DEF VelocityInv, VelocityTypeOK, NoScore
<1>1. /\ clock' = clock + 1 /\ UNCHANGED <<stage, now, ranged>>
      /\ \A j \in Jobs : stage[j] \in AtWork => clock - now[j] < Slack
      /\ \A t \in Txns : scores'[t] \in {scores[t], NoScore}
    BY DEF VelocityTick, AtWork
<1>2. ASSUME NEW t \in Txns
      PROVE  \/ scores'[t] + 2 * Window <= clock'
             \/ StoredUntil(t, scores[t] + 2 * Window)'
  <2>1. CASE scores'[t] = NoScore
      BY <1>w, <1>1, <2>1
  <2>2. CASE scores'[t] = scores[t]
    <3>1. PICK n \in Int : n = scores[t] + 2 * Window
        BY <1>w
    <3>2. n <= clock \/ StoredUntil(t, n)
        BY <3>1 DEF AmountsKept
    <3>3. n <= clock' \/ StoredUntil(t, n)'
        BY <1>w, <1>1, <3>2, StoredAge
    <3>4. scores'[t] + 2 * Window = n
        BY <2>2, <3>1
    <3> QED
        BY <3>3, <3>4
  <2> QED
      BY <1>1, <2>1, <2>2
<1>3. ASSUME NEW j \in Jobs, NEW t \in Txns, stage'[j] \in AtWork \ {"prune"}
      PROVE  \/ scores'[t] = NoScore \/ scores'[t] > now'[j] - Window
             \/ StoredUntil(t, now[j] + 2 * Window)'
  <2>1. stage[j] \in AtWork \ {"prune"} /\ clock - now[j] < Slack
      BY <1>1, <1>3
  <2>2. PICK n \in Int : n = now[j] + 2 * Window
      BY <1>w
  <2>3. scores[t] = NoScore \/ scores[t] > now[j] - Window \/ StoredUntil(t, n)
      BY <2>1, <2>2 DEF AmountsKept
  <2>4. ~(n <= clock')
      BY <1>w, <1>1, <2>1, <2>2
  <2>5. StoredUntil(t, n) => StoredUntil(t, n)'
      BY <2>4, StoredAge
  <2>6. now'[j] + 2 * Window = n
      BY <1>1, <2>2
  <2> QED
      BY <1>1, <2>3, <2>5, <2>6
<1>4. ASSUME NEW j \in Jobs, stage'[j] = "sum", NEW t \in ranged'[j]
      PROVE  t \in Txns /\ StoredUntil(t, now[j] + Window + 1)'
  <2>1. clock - now[j] < Slack /\ stage[j] = "sum" /\ t \in ranged[j]
      BY <1>1, <1>4 DEF AtWork, Reads
  <2>2. PICK n \in Int : n = now[j] + Window + 1
      BY <1>w
  <2>3. t \in Txns /\ StoredUntil(t, n)
      BY <2>1, <2>2 DEF AmountsKept
  <2>4. ~(n <= clock')
      BY <1>w, <1>1, <2>1, <2>2
  <2>5. StoredUntil(t, n)'
      BY <2>3, <2>4, StoredAge
  <2>6. now'[j] + Window + 1 = n
      BY <1>1, <2>2
  <2> QED
      BY <2>3, <2>5, <2>6
<1> QED
    BY <1>2, <1>3, <1>4 DEF AmountsKept

LEMMA AmountsNext ==
    VelocityInv /\ ScoresInv /\ AmountsKept /\ [VelocityNext]_velocityVars => AmountsKept'
<1> SUFFICES ASSUME VelocityInv, ScoresInv, AmountsKept, [VelocityNext]_velocityVars
             PROVE  AmountsKept'
    OBVIOUS
<1>a. VelocityTypeOK /\ clock \in Nat
    BY VelocityAssumption DEF VelocityInv, VelocityTypeOK
<1>1. ASSUME NEW k \in Jobs, Prune(k) \/ Add(k) \/ RangeScores(k) PROVE AmountsKept'
  <2>1. VelocityNext
      BY <1>1 DEF VelocityNext
  <2> QED
      BY <1>1, <2>1, AmountsPruned, AmountsAdded, AmountsRanged
<1>2. CASE VelocityTick
    BY <1>2, AmountsAge
<1>3. ASSUME NEW k \in Jobs,
             Begin(k) \/ KeepScores(k) \/ SetValue(k) \/ KeepValues(k) \/ AddUnique(k)
             \/ KeepUnique(k) \/ ExecFails(k) \/ Count(k) \/ Sum(k) \/ CountUnique(k)
      PROVE  AmountsKept'
  <2>1. VelocityNext
      BY <1>3 DEF VelocityNext
  <2>2. UNCHANGED <<clock, scores>>
      BY <1>3 DEF Begin, KeepScores, SetValue, KeepValues, AddUnique, KeepUnique,
                  ExpireUnique, ExecFails, Count,
                  Sum, CountUnique, NoWrite
  <2>3. ~VelocityTick
      BY <1>a, <2>2 DEF VelocityTick
  <2>4. /\ \A j \in Jobs : stage'[j] \in AtWork \ {"prune"} =>
               stage[j] \in AtWork \ {"prune"} /\ now'[j] = now[j]
        /\ \A j \in Jobs : stage'[j] = "sum" => stage[j] = "sum" /\ ranged'[j] = ranged[j]
    <3> USE <1>a DEF VelocityTypeOK, To, Forget, AtWork, Writes, Reads
    <3>1. CASE Begin(k)
        BY <3>1 DEF Begin
    <3>2. CASE KeepScores(k) \/ SetValue(k) \/ KeepValues(k) \/ AddUnique(k) \/ KeepUnique(k)
        BY <3>2 DEF KeepScores, SetValue, KeepValues, AddUnique, KeepUnique, ExpireUnique
    <3>3. CASE ExecFails(k)
        BY <3>3 DEF ExecFails
    <3>4. CASE Count(k)
        BY <3>4 DEF Count, NoWrite
    <3>5. CASE Sum(k)
        BY <3>5 DEF Sum, NoWrite
    <3>6. CASE CountUnique(k)
        BY <3>6 DEF CountUnique, NoWrite
    <3> QED
        BY <1>3, <3>1, <3>2, <3>3, <3>4, <3>5, <3>6
  <2> QED
      BY <2>1, <2>2, <2>3, <2>4, AmountsStay
<1>4. CASE UNCHANGED velocityVars
  <2>1. AmountsKept' = AmountsKept
      BY <1>4 DEF velocityVars, AmountsKept, StoredUntil, Owed, Sending
  <2> QED
      BY <2>1
<1> QED
    BY <1>1, <1>2, <1>3, <1>4 DEF VelocityNext

(* A transaction that a delivery found in the set has its amount in the    *)
(* sum, whatever was pruned, failed or expired in between, but for those   *)
(* whose amount was yet to be stored or expired before its EXPIRE.         *)
THEOREM SumsAreOfTheWindow == VelocitySpec => []SumsTheWindow
<1>1. VelocityInit => ScoresInv /\ AmountsKept
  <2> SUFFICES ASSUME VelocityInit PROVE ScoresInv /\ AmountsKept
      OBVIOUS
  <2>1. /\ clock = 0 /\ \A t \in Txns : last[t] = NoScore
        /\ \A m \in Txns \cup Jobs : scores[m] = NoScore
        /\ \A j \in Jobs : stage[j] = "new"
      BY DEF VelocityInit
  <2>2. Window \in Nat \ {0} /\ NoScore = 0 - 2 * Window
      BY VelocityAssumption DEF NoScore
  <2> QED
      BY <2>1, <2>2 DEF ScoresInv, LastScores, KeptInWindow, AmountsKept, AtWork, Writes, Reads
<1>2. AmountsKept => SumsTheWindow
  <2> SUFFICES ASSUME AmountsKept, NEW j \in Jobs, stage[j] = "sum", NEW t \in ranged[j]
               PROVE  t \in Summed(j) \/ t \in dropped
                      \/ \E i \in Jobs : TxnOf[i] = t /\ stage[i] \in {"keep", "value", "failed"}
      BY DEF SumsTheWindow
  <2>1. StoredUntil(t, now[j] + Window + 1)
      BY DEF AmountsKept
  <2> QED
      BY <2>1 DEF StoredUntil, Owed, Summed
<1> QED
    BY <1>1, <1>2, VelocityInitInv, VelocityNextInv, ScoresNext, AmountsNext, PTL
       DEF VelocitySpec

-----------------------------------------------------------------------------
(* The score.                                                              *)

\* What is sent to the risk service: amounts whose logarithm is in the table,
\* and numbers.
FeatureVectors ==
    [amount_minor : Amounts, txn_count_1min : Int, txn_count_5min : Int, txn_count_1hr : Int,
     amount_sum_1min : Amounts, amount_sum_1hr : Amounts, unique_merchants_5min : Int,
     unique_terminals_5min : Int, merchant_risk : Int, is_night : Int, is_risky_mcc : Int,
     is_card_not_present : Int]

Value(f, x) == Normalise(f[x], Model[x])

LEMMA Units == One \in Nat /\ \A n \in Nat \ {0} : One \div n \in Nat
BY SMT DEF One

(* Clamping and each way to normalise keep the order and stay within 0..1. *)
LEMMA ClampGrows ==
    ASSUME NEW a \in Int, NEW b \in Int, a <= b
    PROVE  /\ Clamp(a) \in 0 .. One /\ Clamp(a) <= Clamp(b)
BY Units DEF Clamp

LEMMA LinearGrows ==
    ASSUME NEW cap \in {18, 28, 45, 9}, NEW w, NEW a \in Int, NEW b \in Int, a <= b
    PROVE  /\ Normalise(a, Linear(w, cap)) \in 0 .. One
           /\ Normalise(a, Linear(w, cap)) <= Normalise(b, Linear(w, cap))
<1> DEFINE k == One \div cap
<1>1. k \in Nat
    BY Units
<1>2. Normalise(a, Linear(w, cap)) = Clamp(k * a) /\ Normalise(b, Linear(w, cap)) = Clamp(k * b)
    BY DEF Normalise, Linear
<1> HIDE DEF k
<1>3. k * a \in Int /\ k * b \in Int /\ k * a <= k * b
    BY <1>1
<1> QED
    BY <1>2, <1>3, ClampGrows

LEMMA LogarithmGrows ==
    ASSUME NEW cap \in {12, 9, 10}, NEW w, NEW a \in Amounts, NEW b \in Amounts, a <= b
    PROVE  /\ Normalise(a, Logarithm(w, cap)) \in 0 .. One
           /\ Normalise(a, Logarithm(w, cap)) <= Normalise(b, Logarithm(w, cap))
<1> DEFINE k == One \div (1000 * cap)
           L(x) == IF x < 1 THEN 0 ELSE Log10[x]
<1>1. k \in Nat
    BY Units
<1>2. /\ Normalise(a, Logarithm(w, cap)) = Clamp(k * L(a))
      /\ Normalise(b, Logarithm(w, cap)) = Clamp(k * L(b))
    BY DEF Normalise, Logarithm
<1>3. L(a) \in Nat /\ L(b) \in Nat /\ L(a) <= L(b)
    BY LogarithmAssumption
<1> HIDE DEF k, L
<1>4. k * L(a) \in Int /\ k * L(b) \in Int /\ k * L(a) <= k * L(b)
    BY <1>1, <1>3
<1> QED
    BY <1>2, <1>4, ClampGrows

LEMMA BinaryGrows ==
    ASSUME NEW w, NEW a \in Int, NEW b \in Int, a <= b
    PROVE  /\ Normalise(a, Binary(w)) \in 0 .. One
           /\ Normalise(a, Binary(w)) <= Normalise(b, Binary(w))
BY Units DEF Normalise, Binary

LEMMA PassthroughGrows ==
    ASSUME NEW a \in Int, NEW b \in Int, a <= b
    PROVE  LET c == [weight |-> 5, method |-> "passthrough", cap |-> 1] IN
           Normalise(a, c) \in 0 .. One /\ Normalise(a, c) <= Normalise(b, c)
<1> DEFINE c == [weight |-> 5, method |-> "passthrough", cap |-> 1]
           k == One \div 100
<1>1. k \in Nat
    BY Units
<1>2. Normalise(a, c) = Clamp(k * a) /\ Normalise(b, c) = Clamp(k * b)
    BY DEF Normalise
<1> HIDE DEF k
<1>3. k * a \in Int /\ k * b \in Int /\ k * a <= k * b
    BY <1>1
<1> QED
    BY <1>2, <1>3, ClampGrows

(* The features of the model, one by one. *)
LEMMA ValueGrows ==
    ASSUME NEW f \in FeatureVectors, NEW g \in FeatureVectors, NEW x \in Features, f[x] <= g[x]
    PROVE  Value(f, x) \in 0 .. One /\ Value(f, x) <= Value(g, x)
<1> USE DEF FeatureVectors, Model, Value
<1>0. x \in {"amount_minor", "txn_count_1min", "txn_count_5min", "txn_count_1hr",
             "amount_sum_1min", "amount_sum_1hr", "unique_merchants_5min",
             "unique_terminals_5min", "merchant_risk", "is_night", "is_risky_mcc",
             "is_card_not_present"}
    BY DEF Features
<1>1. CASE x = "amount_minor"
    BY <1>1, LogarithmGrows
<1>2. CASE x = "txn_count_1min"
    BY <1>2, LinearGrows
<1>3. CASE x = "txn_count_5min"
    BY <1>3, LinearGrows
<1>4. CASE x = "txn_count_1hr"
    BY <1>4, LinearGrows
<1>5. CASE x = "amount_sum_1min"
    BY <1>5, LogarithmGrows
<1>6. CASE x = "amount_sum_1hr"
    BY <1>6, LogarithmGrows
<1>7. CASE x = "unique_merchants_5min"
    BY <1>7, LinearGrows
<1>8. CASE x = "unique_terminals_5min"
    BY <1>8, LinearGrows
<1>9. CASE x = "merchant_risk"
    BY <1>9, PassthroughGrows
<1>10. CASE x = "is_night"
    BY <1>10, BinaryGrows
<1>11. CASE x = "is_risky_mcc"
    BY <1>11, BinaryGrows
<1>12. CASE x = "is_card_not_present"
    BY <1>12, BinaryGrows
<1> QED
    BY <1>0, <1>1, <1>2, <1>3, <1>4, <1>5, <1>6, <1>7, <1>8, <1>9, <1>10, <1>11, <1>12

LEMMA FeatureIsNumber ==
    ASSUME NEW f \in FeatureVectors, NEW x \in Features
    PROVE  f[x] \in Int
<1>1. x \in {"amount_minor", "amount_sum_1min", "amount_sum_1hr"} => f[x] \in Amounts
    BY DEF FeatureVectors
<1>2. x \notin {"amount_minor", "amount_sum_1min", "amount_sum_1hr"} => f[x] \in Int
    BY DEF FeatureVectors, Features, Model
<1> QED
    BY <1>1, <1>2, LogarithmAssumption

(* The weighted sum grows with the features, and stays below the weights.  *)
LEMMA SumGrows ==
    ASSUME NEW f \in FeatureVectors, NEW g \in FeatureVectors,
           \A x \in Features : f[x] <= g[x]
    PROVE  /\ WeightedSum(f) \in Nat /\ WeightedSum(g) \in Nat
           /\ WeightedSum(f) <= WeightedSum(g)
<1> DEFINE V(x) == Value(f, x)
           W(x) == Value(g, x)
<1>1. \A x \in Features : V(x) \in 0 .. One /\ W(x) \in 0 .. One /\ V(x) <= W(x)
  <2>1. \A x \in Features : g[x] <= g[x]
      BY FeatureIsNumber
  <2> QED
      BY <2>1, ValueGrows
<1>2. One \in Nat
    BY Units
<1>3. Features = {"amount_minor", "txn_count_1min", "txn_count_5min", "txn_count_1hr",
                  "amount_sum_1min", "amount_sum_1hr", "unique_merchants_5min",
                  "unique_terminals_5min", "merchant_risk", "is_night", "is_risky_mcc",
                  "is_card_not_present"}
    BY DEF Features, Model
<1>4. WeightedSum(f) = 18 * V("amount_minor") + 16 * V("txn_count_1min")
          + 9 * V("txn_count_5min") + 6 * V("txn_count_1hr") + 14 * V("amount_sum_1min")
          + 7 * V("amount_sum_1hr") + 11 * V("unique_merchants_5min")
          + 6 * V("unique_terminals_5min") + 5 * V("merchant_risk") + 3 * V("is_night")
          + 2 * V("is_risky_mcc") + 2 * V("is_card_not_present")
    BY <1>3 DEF WeightedSum, SumOverFeatures, Value, Model, Logarithm, Linear, Binary
<1>5. WeightedSum(g) = 18 * W("amount_minor") + 16 * W("txn_count_1min")
          + 9 * W("txn_count_5min") + 6 * W("txn_count_1hr") + 14 * W("amount_sum_1min")
          + 7 * W("amount_sum_1hr") + 11 * W("unique_merchants_5min")
          + 6 * W("unique_terminals_5min") + 5 * W("merchant_risk") + 3 * W("is_night")
          + 2 * W("is_risky_mcc") + 2 * W("is_card_not_present")
    BY <1>3 DEF WeightedSum, SumOverFeatures, Value, Model, Logarithm, Linear, Binary
<1> DEFINE Ordered(x) == V(x) \in Nat /\ W(x) \in Nat /\ V(x) <= W(x)
<1>6. \A x \in Features : Ordered(x)
    BY <1>1, <1>2
<1> HIDE DEF V, W
<1>7. /\ Ordered("amount_minor") /\ Ordered("txn_count_1min") /\ Ordered("txn_count_5min")
      /\ Ordered("txn_count_1hr") /\ Ordered("amount_sum_1min") /\ Ordered("amount_sum_1hr")
      /\ Ordered("unique_merchants_5min") /\ Ordered("unique_terminals_5min")
      /\ Ordered("merchant_risk") /\ Ordered("is_night") /\ Ordered("is_risky_mcc")
      /\ Ordered("is_card_not_present")
    BY <1>3, <1>6
<1> DEFINE A1 == 18 * V("amount_minor") + 16 * V("txn_count_1min")
                 + 9 * V("txn_count_5min") + 6 * V("txn_count_1hr")
           A2 == 14 * V("amount_sum_1min") + 7 * V("amount_sum_1hr")
                 + 11 * V("unique_merchants_5min") + 6 * V("unique_terminals_5min")
           A3 == 5 * V("merchant_risk") + 3 * V("is_night")
                 + 2 * V("is_risky_mcc") + 2 * V("is_card_not_present")
           B1 == 18 * W("amount_minor") + 16 * W("txn_count_1min")
                 + 9 * W("txn_count_5min") + 6 * W("txn_count_1hr")
           B2 == 14 * W("amount_sum_1min") + 7 * W("amount_sum_1hr")
                 + 11 * W("unique_merchants_5min") + 6 * W("unique_terminals_5min")
           B3 == 5 * W("merchant_risk") + 3 * W("is_night")
                 + 2 * W("is_risky_mcc") + 2 * W("is_card_not_present")
<1>8. /\ A1 \in Nat /\ B1 \in Nat /\ A1 <= B1
      /\ A2 \in Nat /\ B2 \in Nat /\ A2 <= B2
      /\ A3 \in Nat /\ B3 \in Nat /\ A3 <= B3
  <2>1. A1 \in Nat /\ B1 \in Nat /\ A1 <= B1
      BY <1>7
  <2>2. A2 \in Nat /\ B2 \in Nat /\ A2 <= B2
      BY <1>7
  <2>3. A3 \in Nat /\ B3 \in Nat /\ A3 <= B3
      BY <1>7
  <2> QED
      BY <2>1, <2>2, <2>3
<1>9. WeightedSum(f) = A1 + A2 + A3 /\ WeightedSum(g) = B1 + B2 + B3
    BY <1>4, <1>5, <1>7
<1> HIDE DEF A1, A2, A3, B1, B2, B3
<1> QED
    BY <1>8, <1>9

LEMMA ScoreInRange ==
    ASSUME NEW f \in FeatureVectors
    PROVE  Score(f) \in 100 .. 1000
<1>1. WeightedSum(f) \in Nat
  <2>1. \A x \in Features : f[x] <= f[x]
      BY FeatureIsNumber
  <2> QED
      BY <2>1, SumGrows
<1> DEFINE raw == 100 + (18 * WeightedSum(f) + One) \div (2 * One)
<1>2. raw \in Int
    BY <1>1, SMT DEF One
<1>3. Score(f) = IF f.merchant_risk = NaN THEN 100
                 ELSE IF raw < 100 THEN 100 ELSE IF raw > 1000 THEN 1000 ELSE raw
    BY DEF Score
<1> HIDE DEF raw
<1> QED
    BY <1>2, <1>3

(* A vector that is larger in every feature has no smaller score. *)
LEMMA ScoreGrows ==
    ASSUME NEW f \in FeatureVectors, NEW g \in FeatureVectors,
           f.merchant_risk # NaN, g.merchant_risk # NaN,
           \A x \in Features : f[x] <= g[x]
    PROVE  Score(f) <= Score(g)
<1>1. /\ WeightedSum(f) \in Nat /\ WeightedSum(g) \in Nat
      /\ WeightedSum(f) <= WeightedSum(g)
    BY SumGrows
<1> DEFINE Raw(s) == 100 + (18 * s + One) \div (2 * One)
<1>2. /\ Raw(WeightedSum(f)) \in Int /\ Raw(WeightedSum(g)) \in Int
      /\ Raw(WeightedSum(f)) <= Raw(WeightedSum(g))
    BY <1>1, SMT DEF One
<1>3. /\ Score(f) = LET raw == Raw(WeightedSum(f)) IN
                    IF raw < 100 THEN 100 ELSE IF raw > 1000 THEN 1000 ELSE raw
      /\ Score(g) = LET raw == Raw(WeightedSum(g)) IN
                    IF raw < 100 THEN 100 ELSE IF raw > 1000 THEN 1000 ELSE raw
    BY DEF Score
<1> HIDE DEF Raw
<1> QED
    BY <1>2, <1>3

-----------------------------------------------------------------------------
(* From the request to the answer about its status.                        *)

\* The verdict of a score by the bands of a service, and the row it is stored in.
Verdict(e, s, band) == Result(e, DecisionNumber[ScoreDecision(s, band)], s)
RowOf(v) == [decision |-> MapDecision(v.decision), score |-> v.score,
             type |-> MapTransactionType(request.type), channel |-> MapChannel(request.channel)]

(* The event is that of the request; a delivery that waits for a score was  *)
(* sent the features of the event; a published verdict is that of a score;  *)
(* the row is that of a published verdict.                                  *)
RequestInv ==
    /\ config \in Configs /\ request \in Submissions /\ refused \in BOOLEAN
    /\ event = {} \/ \E t \in Instants : event = {Event(request, t)}

FeaturesInv ==
    /\ DOMAIN features = Deliveries
    /\ \A d \in Deliveries : features[d] # {} =>
           /\ verdicts[d] = {}
           /\ \E e \in event, v \in Velocities, risk \in MerchantRisks :
                  features[d] = {Build(e, v, risk)}

\* A score is computed by the risk service or is the fallback.
IsScore(s) == s \in Int /\ (s \in 100 .. 1000 \/ s = config.fallback)
BandsInUse == {config.engine, config.risk}
DecidedBy(v, band) == v.decision = DecisionNumber[ScoreDecision(v.score, band)]

IsVerdict(E, S) == \E e \in E : \E s \in Int : \E band \in BandsInUse :
                       IsScore(s) /\ S = {Verdict(e, s, band)}

VerdictsInv ==
    /\ DOMAIN verdicts = Deliveries
    /\ \A d \in Deliveries : verdicts[d] # {} => IsVerdict(event, verdicts[d])

RowInv == row # {} => \E d \in Deliveries : \E v \in verdicts[d] : row = {RowOf(v)}

AnswerInv ==
    /\ answer.to \in {"owner", "other", "nobody"}
    /\ answer.to = "owner" => \/ answer.status = "PENDING"
                              \/ \E d \in Deliveries : \E v \in verdicts[d] :
                                     /\ v.decision = DecisionNumber[answer.decision]
                                     /\ v.score = answer.score
    /\ answer.to = "other" => answer.status = "PENDING"

ScreeningInv == RequestInv /\ FeaturesInv /\ VerdictsInv /\ RowInv /\ AnswerInv

(* The engine and the risk service put a score in a band by the same rule. *)
LEMMA SameRule ==
    ASSUME NEW s \in Int, NEW band \in Bands
    PROVE  /\ ScoreToDecision(s, band) = ScoreDecision(s, band)
           /\ DecisionNumber[ScoreDecision(s, band)] \in 1 .. 3
           /\ Severity[DecisionNumber[ScoreDecision(s, band)]] =
                  IF s < band.approve THEN 0 ELSE IF s > band.decline THEN 2 ELSE 1
<1>1. /\ DecisionNumber["APPROVE"] = 1 /\ DecisionNumber["DECLINE"] = 2
      /\ DecisionNumber["REVIEW"] = 3
      /\ Severity[1] = 0 /\ Severity[2] = 2 /\ Severity[3] = 1
    BY DEF DecisionNumber, Severity
<1>i. band.approve \in Int /\ band.decline \in Int
    BY DEF Bands
<1>2. CASE s < band.approve
  <2>1. ScoreDecision(s, band) = "APPROVE"
      BY <1>2, Zenon DEF ScoreDecision
  <2>2. ~(s >= band.approve)
      BY <1>i, <1>2
  <2>3. ScoreToDecision(s, band) = "APPROVE"
      BY <1>2, <2>2, Zenon DEF ScoreToDecision
  <2> QED
      BY <1>1, <1>2, <2>1, <2>3
<1>3. CASE ~(s < band.approve) /\ s > band.decline
  <2>1. ScoreDecision(s, band) = "DECLINE"
      BY <1>3, Zenon DEF ScoreDecision
  <2>2. s >= band.approve
      BY <1>i, <1>3
  <2>3. ScoreToDecision(s, band) = "DECLINE"
      BY <1>3, <2>2, Zenon DEF ScoreToDecision
  <2> QED
      BY <1>1, <1>3, <2>1, <2>3
<1>4. CASE ~(s < band.approve) /\ ~(s > band.decline)
  <2>1. ScoreDecision(s, band) = "REVIEW"
      BY <1>4, Zenon DEF ScoreDecision
  <2>2. ScoreToDecision(s, band) = "REVIEW"
      BY <1>4, Zenon DEF ScoreToDecision
  <2> QED
      BY <1>1, <1>4, <2>1, <2>2
<1> QED
    BY <1>2, <1>3, <1>4

LEMMA ConfigType ==
    ASSUME RequestInv
    PROVE  /\ config.engine \in Bands /\ config.risk \in Bands /\ config.fallback \in Int
           /\ BandsInUse \subseteq Bands
BY ScreeningAssumption DEF RequestInv, BandsInUse

(* What an engine builds from the event is a feature vector. *)
LEMMA BuildType ==
    ASSUME RequestInv, NEW e \in event, NEW v \in Velocities, NEW risk \in MerchantRisks
    PROVE  /\ Build(e, v, risk) \in FeatureVectors
           /\ Build(e, v, risk).merchant_risk = risk
<1>1. PICK t \in Instants : e = Event(request, t)
    BY DEF RequestInv
<1>2. e.amount \in Amounts
    BY <1>1, ScreeningAssumption DEF RequestInv, Event
<1>3. /\ v.count1m \in Int /\ v.count5m \in Int /\ v.count1h \in Int /\ v.sum1m \in Amounts
      /\ v.sum1h \in Amounts /\ v.merchants \in Int /\ v.terminals \in Int /\ risk \in Int
    BY ScreeningAssumption
<1>4. \A b \in BOOLEAN : Bit(b) \in Int
    BY DEF Bit
<1>5. IsNight(e.hour) \in Int /\ IsRiskyMCC(e.mcc) \in Int /\ IsCardNotPresent(e.channel) \in Int
    BY DEF Bit, IsNight, IsRiskyMCC, IsCardNotPresent
<1> QED
    BY <1>2, <1>3, <1>5 DEF Build, FeatureVectors

LEMMA ScreeningInitInv == ScreeningInit => ScreeningInv
<1> SUFFICES ASSUME ScreeningInit PROVE ScreeningInv
    OBVIOUS
<1> USE DEF ScreeningInit
<1>1. RequestInv
    BY DEF RequestInv
<1>2. FeaturesInv /\ VerdictsInv
    BY DEF FeaturesInv, VerdictsInv
<1>3. RowInv /\ AnswerInv
    BY DEF RowInv, AnswerInv, NoAnswer
<1> QED
    BY <1>1, <1>2, <1>3 DEF ScreeningInv

(* A verdict stays what it is, once published. *)
LEMMA RowAndAnswerStay ==
    ASSUME RowInv, AnswerInv, UNCHANGED <<config, request, row, answer>>,
           \A d \in Deliveries : verdicts[d] \subseteq verdicts'[d]
    PROVE  RowInv' /\ AnswerInv'
<1>1. \A d \in Deliveries : \A v \in verdicts[d] : v \in verdicts'[d]
    OBVIOUS
<1>2. RowInv'
  <2> SUFFICES ASSUME row' # {} PROVE \E d \in Deliveries : \E v \in verdicts'[d] : row' = {RowOf(v)'}
      BY DEF RowInv
  <2>1. PICK d \in Deliveries : \E v \in verdicts[d] : row = {RowOf(v)}
      BY DEF RowInv
  <2>2. PICK v \in verdicts[d] : row = {RowOf(v)}
      BY <2>1
  <2>3. RowOf(v)' = RowOf(v)
      BY DEF RowOf
  <2> QED
      BY <1>1, <2>2, <2>3
<1>3. AnswerInv'
    BY <1>1 DEF AnswerInv
<1> QED
    BY <1>2, <1>3

LEMMA PublishKeeps ==
    ASSUME ScreeningInv, NEW d \in Deliveries, features[d] # {}, NEW s \in Int, IsScore(s),
           NEW band \in BandsInUse, Publish(d, DecisionNumber[ScoreDecision(s, band)], s)
    PROVE  ScreeningInv'
<1>1. PICK e \in event : verdicts' = [verdicts EXCEPT ![d] = {Verdict(e, s, band)}]
    BY DEF Publish, Verdict
<1>2. /\ features' = [features EXCEPT ![d] = {}]
      /\ UNCHANGED <<config, request, event, refused, row, answer>>
    BY DEF Publish
<1>3. /\ DOMAIN features = Deliveries /\ DOMAIN verdicts = Deliveries
      /\ verdicts[d] = {}
    BY DEF ScreeningInv, FeaturesInv, VerdictsInv
<1>4. RequestInv'
    BY <1>2 DEF ScreeningInv, RequestInv
<1>5. FeaturesInv'
  <2>1. \A i \in Deliveries : features'[i] # {} =>
            i # d /\ features'[i] = features[i] /\ verdicts'[i] = verdicts[i]
      BY <1>1, <1>2, <1>3
  <2> QED
      BY <1>2, <2>1 DEF ScreeningInv, FeaturesInv
<1>6. VerdictsInv'
  <2>1. \A i \in Deliveries : verdicts'[i] = IF i = d THEN {Verdict(e, s, band)} ELSE verdicts[i]
      BY <1>1, <1>3
  <2>2. DOMAIN verdicts' = Deliveries
      BY <1>1, <1>3
  <2>3. IsVerdict(event, {Verdict(e, s, band)})
      BY Zenon DEF IsVerdict
  <2>4. \A i \in Deliveries : verdicts'[i] # {} => IsVerdict(event, verdicts'[i])
      BY <2>1, <2>3 DEF ScreeningInv, VerdictsInv
  <2> QED
      BY <1>2, <2>2, <2>4 DEF VerdictsInv, IsVerdict, IsScore, BandsInUse
<1>7. RowInv' /\ AnswerInv'
  <2>1. \A i \in Deliveries : verdicts[i] \subseteq verdicts'[i]
      BY <1>1, <1>3
  <2> QED
      BY <1>2, <2>1, RowAndAnswerStay DEF ScreeningInv
<1> QED
    BY <1>4, <1>5, <1>6, <1>7 DEF ScreeningInv

(* The type, the channel and the numbers of a published verdict. *)
LEMMA VerdictFields ==
    ASSUME RequestInv, VerdictsInv, NEW d \in Deliveries, NEW v \in verdicts[d]
    PROVE  /\ v.type = request.type /\ v.channel = request.channel
           /\ v.score \in Int /\ IsScore(v.score)
           /\ \E band \in BandsInUse : DecidedBy(v, band)
<1>1. IsVerdict(event, verdicts[d])
    BY DEF VerdictsInv
<1>2. PICK e \in event, s \in Int, band \in BandsInUse :
          IsScore(s) /\ verdicts[d] = {Verdict(e, s, band)}
    BY <1>1, Zenon DEF IsVerdict
<1>3. IsScore(s) /\ verdicts[d] = {Verdict(e, s, band)}
    BY <1>2
<1>4. PICK t \in Instants : e = Event(request, t)
    BY DEF RequestInv
<1>5. e.type = request.type /\ e.channel = request.channel
    BY <1>4 DEF Event
<1>6. v = Verdict(e, s, band)
    BY <1>3
<1>7. /\ v.type = e.type /\ v.channel = e.channel /\ v.score = s
      /\ v.decision = DecisionNumber[ScoreDecision(s, band)]
    BY <1>6 DEF Verdict, Result
<1>8. DecidedBy(v, band)
    BY <1>7 DEF DecidedBy
<1> QED
    BY <1>3, <1>5, <1>7, <1>8

LEMMA VerdictNumber ==
    ASSUME RequestInv, VerdictsInv, NEW d \in Deliveries, NEW v \in verdicts[d]
    PROVE  v.decision \in 1 .. 3
<1>1. PICK band \in BandsInUse : DecidedBy(v, band)
    BY VerdictFields
<1>2. v.score \in Int /\ band \in Bands
    BY VerdictFields, ConfigType
<1>3. DecisionNumber[ScoreDecision(v.score, band)] \in 1 .. 3
    BY <1>2, SameRule
<1> QED
    BY <1>1, <1>3 DEF DecidedBy

LEMMA AcceptedKeeps ==
    ASSUME ScreeningInv, NEW t \in Instants, Accepted(t)
    PROVE  ScreeningInv'
<1>1. /\ event = {} /\ event' = {Event(request, t)}
      /\ UNCHANGED <<config, request, refused, features, verdicts, row, answer>>
    BY DEF Accepted
<1>2. RequestInv'
    BY <1>1 DEF ScreeningInv, RequestInv
<1>3. \A d \in Deliveries : features[d] = {} /\ verdicts[d] = {}
    BY <1>1 DEF ScreeningInv, FeaturesInv, VerdictsInv, IsVerdict
<1>4. FeaturesInv' /\ VerdictsInv'
    BY <1>1, <1>3 DEF ScreeningInv, FeaturesInv, VerdictsInv
<1>5. RowInv' /\ AnswerInv'
    BY <1>1, RowAndAnswerStay DEF ScreeningInv
<1> QED
    BY <1>2, <1>4, <1>5 DEF ScreeningInv

LEMMA EvaluatedKeeps ==
    ASSUME ScreeningInv, NEW d \in Deliveries, NEW v \in Velocities, NEW risk \in MerchantRisks,
           Evaluated(d, v, risk)
    PROVE  ScreeningInv'
<1>1. PICK e \in event : features' = [features EXCEPT ![d] = {Build(e, v, risk)}]
    BY DEF Evaluated
<1>2. /\ verdicts[d] = {} /\ UNCHANGED <<config, request, event, refused, verdicts, row, answer>>
      /\ DOMAIN features = Deliveries
    BY DEF Evaluated, Waits, ScreeningInv, FeaturesInv
<1>3. RequestInv' /\ VerdictsInv'
    BY <1>2 DEF ScreeningInv, RequestInv, VerdictsInv, IsVerdict, IsScore,
                     BandsInUse
<1>4. FeaturesInv'
  <2>1. DOMAIN features' = Deliveries
      BY <1>1, <1>2
  <2>2. ASSUME NEW i \in Deliveries, features'[i] # {}
        PROVE  /\ verdicts[i] = {}
               /\ \E x \in event, y \in Velocities, z \in MerchantRisks :
                      features'[i] = {Build(x, y, z)}
    <3>1. CASE i = d
        BY <1>1, <1>2, <3>1
    <3>2. CASE i # d
      <4>1. features'[i] = features[i]
          BY <1>1, <1>2, <3>2
      <4> QED
          BY <2>2, <4>1 DEF ScreeningInv, FeaturesInv
    <3> QED
        BY <3>1, <3>2
  <2> QED
      BY <1>2, <2>1, <2>2 DEF FeaturesInv
<1>5. RowInv' /\ AnswerInv'
    BY <1>2, RowAndAnswerStay DEF ScreeningInv
<1> QED
    BY <1>3, <1>4, <1>5 DEF ScreeningInv

(* The upsert replaces the verdict of a row and leaves the rest. *)
LEMMA Rewritten ==
    ASSUME NEW v, NEW w
    PROVE  [RowOf(w) EXCEPT !.decision = MapDecision(v.decision), !.score = v.score] = RowOf(v)
<1> DEFINE D == {"decision", "score", "type", "channel"}
           a == MapDecision(w.decision)
           b == w.score
           c == MapTransactionType(request.type)
           e == MapChannel(request.channel)
           x == MapDecision(v.decision)
           y == v.score
           R == [decision |-> a, score |-> b, type |-> c, channel |-> e]
           F == [z \in D |-> IF z = "decision" THEN x ELSE IF z = "score" THEN y
                    ELSE IF z = "type" THEN c ELSE e]
           G == [z \in D |-> IF z = "decision" THEN x ELSE IF z = "score" THEN b
                    ELSE IF z = "type" THEN c ELSE e]
<1>1. RowOf(w) = R /\ RowOf(v) = [decision |-> x, score |-> y, type |-> c, channel |-> e]
    BY DEF RowOf
<1> HIDE DEF a, b, c, e, x, y
<1>2. [R EXCEPT !["decision"] = x] = G
    OBVIOUS
<1>3. [G EXCEPT !["score"] = y] = F
    OBVIOUS
<1>4. [decision |-> x, score |-> y, type |-> c, channel |-> e] = F
    OBVIOUS
<1> HIDE DEF F, G
<1>5. [R EXCEPT !.decision = x, !.score = y] = [[R EXCEPT !["decision"] = x] EXCEPT !["score"] = y]
    OBVIOUS
<1> HIDE DEF R
<1>6. [R EXCEPT !.decision = x, !.score = y] = RowOf(v)
    BY <1>1, <1>2, <1>3, <1>4, <1>5
<1> QED
    BY <1>1, <1>6 DEF x, y

LEMMA PersistKeeps ==
    ASSUME ScreeningInv, NEW d \in Deliveries, Persist(d)
    PROVE  ScreeningInv'
<1>1. PICK v \in verdicts[d] : row' = Upsert(v)
    BY DEF Persist
<1>2. UNCHANGED <<config, request, event, refused, features, verdicts, answer>>
    BY DEF Persist
<1>3. RequestInv' /\ FeaturesInv' /\ VerdictsInv' /\ AnswerInv'
    BY <1>2 DEF ScreeningInv, RequestInv, FeaturesInv, VerdictsInv, AnswerInv, IsVerdict,
                     IsScore, BandsInUse
<1>4. Columns(v) = RowOf(v)
    BY VerdictFields DEF ScreeningInv, Columns, RowOf
<1>5. row' = {RowOf(v)}
  <2>1. CASE row = {}
      BY <1>1, <1>4, <2>1 DEF Upsert
  <2>2. CASE row # {}
    <3>1. PICK c \in Deliveries : \E w \in verdicts[c] : row = {RowOf(w)}
        BY <2>2 DEF ScreeningInv, RowInv
    <3>2. PICK w \in verdicts[c] : row = {RowOf(w)}
        BY <3>1
    <3>3. row' = {[RowOf(w) EXCEPT !.decision = Columns(v).decision, !.score = Columns(v).score]}
        BY <1>1, <3>2 DEF Upsert
    <3>4. [RowOf(w) EXCEPT !.decision = Columns(v).decision, !.score = Columns(v).score]
              = RowOf(v)
      <4>1. /\ Columns(v).decision = MapDecision(v.decision) /\ Columns(v).score = v.score
          BY DEF Columns
      <4> QED
          BY <4>1, Rewritten
    <3> QED
        BY <3>3, <3>4
  <2> QED
      BY <2>1, <2>2
<1>6. RowInv'
  <2>1. RowOf(v)' = RowOf(v)
      BY <1>2 DEF RowOf
  <2>2. \E w \in verdicts'[d] : row' = {RowOf(w)'}
      BY <1>2, <1>5, <2>1
  <2> QED
      BY <2>2 DEF RowInv
<1> QED
    BY <1>3, <1>6 DEF ScreeningInv

LEMMA AnsweredKeeps ==
    ASSUME ScreeningInv, NEW client \in {"owner", "other"}, Answered(client)
    PROVE  ScreeningInv'
<1>1. UNCHANGED <<config, request, event, refused, features, verdicts, row>>
    BY DEF Answered
<1>2. RequestInv' /\ FeaturesInv' /\ VerdictsInv'
    BY <1>1 DEF ScreeningInv, RequestInv, FeaturesInv, VerdictsInv, IsVerdict,
                     IsScore, BandsInUse
<1>3. RowInv'
    BY <1>1 DEF ScreeningInv, RowInv, RowOf
<1>4. CASE client = "owner" /\ row # {}
  <2>1. PICK d \in Deliveries : \E v \in verdicts[d] : row = {RowOf(v)}
      BY <1>4 DEF ScreeningInv, RowInv
  <2>2. PICK v \in verdicts[d] : row = {RowOf(v)}
      BY <2>1
  <2>3. (CHOOSE r \in row : TRUE) = RowOf(v)
      BY <2>2
  <2>4. answer' = [to |-> client, status |-> StatusOf(RowOf(v).decision)[1],
                   decision |-> StatusOf(RowOf(v).decision)[2], score |-> RowOf(v).score]
      BY <1>4, <2>3 DEF Answered
  <2>6. v.decision = DecisionNumber[StatusOf(MapDecision(v.decision))[2]]
    <3>1. v.decision \in 1 .. 3
        BY VerdictNumber DEF ScreeningInv
    <3>2. CASE v.decision = 1
      <4>1. MapDecision(1) = "APPROVED" /\ StatusOf("APPROVED")[2] = "APPROVE"
          BY DEF MapDecision, StatusOf
      <4> QED
          BY <3>2, <4>1 DEF DecisionNumber
    <3>3. CASE v.decision = 2
      <4>1. MapDecision(2) = "DECLINED" /\ StatusOf("DECLINED")[2] = "DECLINE"
          BY DEF MapDecision, StatusOf
      <4> QED
          BY <3>3, <4>1 DEF DecisionNumber
    <3>4. CASE v.decision = 3
      <4>1. MapDecision(3) = "REVIEW" /\ StatusOf("REVIEW")[2] = "REVIEW"
          BY DEF MapDecision, StatusOf
      <4> QED
          BY <3>4, <4>1 DEF DecisionNumber
    <3> QED
        BY <3>1, <3>2, <3>3, <3>4
  <2>7. /\ answer'.to = "owner" /\ answer'.score = v.score
        /\ v.decision = DecisionNumber[answer'.decision]
      BY <1>4, <2>4, <2>6 DEF RowOf
  <2> QED
      BY <1>1, <1>2, <1>3, <2>7 DEF ScreeningInv, AnswerInv
<1>5. CASE ~(client = "owner" /\ row # {})
  <2>1. answer' = [to |-> client, status |-> "PENDING", decision |-> "", score |-> 0]
      BY <1>5 DEF Answered
  <2>2. AnswerInv'
      BY <2>1 DEF AnswerInv
  <2> QED
      BY <1>2, <1>3, <2>2 DEF ScreeningInv
<1> QED
    BY <1>4, <1>5

LEMMA ScreeningNextInv == ScreeningInv /\ [ScreeningNext]_screeningVars => ScreeningInv'
<1> SUFFICES ASSUME ScreeningInv, [ScreeningNext]_screeningVars PROVE ScreeningInv'
    OBVIOUS
<1>1. ASSUME NEW t \in Instants, Accepted(t) PROVE ScreeningInv'
    BY <1>1, AcceptedKeeps
<1>2. CASE Rejected
  <2>1. UNCHANGED <<config, request, event, features, verdicts, row, answer>> /\ refused' = TRUE
      BY <1>2 DEF Rejected
  <2>2. RequestInv'
      BY <2>1 DEF ScreeningInv, RequestInv
  <2>3. FeaturesInv' /\ VerdictsInv' /\ RowInv' /\ AnswerInv'
      BY <2>1 DEF ScreeningInv, FeaturesInv, VerdictsInv, RowInv, RowOf, AnswerInv, IsVerdict,
                  IsScore, BandsInUse
  <2> QED
      BY <2>2, <2>3 DEF ScreeningInv
<1>3. ASSUME NEW d \in Deliveries, NEW v \in Velocities, NEW risk \in MerchantRisks,
             Evaluated(d, v, risk)
      PROVE  ScreeningInv'
    BY <1>3, EvaluatedKeeps
<1>4. ASSUME NEW d \in Deliveries, Scored(d) PROVE ScreeningInv'
  <2>1. PICK f \in features[d] :
            Publish(d, DecisionNumber[ScoreDecision(Score(f), config.risk)], Score(f))
      BY <1>4 DEF Scored
  <2>2. f \in FeatureVectors
      BY BuildType DEF ScreeningInv, FeaturesInv
  <2>3. IsScore(Score(f)) /\ Score(f) \in Int
      BY <2>2, ScoreInRange DEF IsScore
  <2>4. config.risk \in BandsInUse
      BY DEF BandsInUse
  <2> QED
      BY <2>1, <2>3, <2>4, PublishKeeps
<1>5. ASSUME NEW d \in Deliveries, FellBack(d) PROVE ScreeningInv'
  <2>1. config.fallback \in Int /\ config.engine \in Bands /\ IsScore(config.fallback)
      BY ConfigType DEF ScreeningInv, IsScore
  <2>2. ScoreToDecision(config.fallback, config.engine)
            = ScoreDecision(config.fallback, config.engine)
      BY <2>1, SameRule
  <2>3. /\ features[d] # {}
        /\ Publish(d, DecisionNumber[ScoreDecision(config.fallback, config.engine)],
                    config.fallback)
      BY <1>5, <2>2 DEF FellBack
  <2>4. config.engine \in BandsInUse
      BY DEF BandsInUse
  <2> QED
      BY <2>1, <2>3, <2>4, PublishKeeps
<1>6. ASSUME NEW d \in Deliveries, Persist(d) PROVE ScreeningInv'
    BY <1>6, PersistKeeps
<1>7. ASSUME NEW client \in {"owner", "other"}, Answered(client) PROVE ScreeningInv'
    BY <1>7, AnsweredKeeps
<1>8. CASE NotAnswered
  <2>1. UNCHANGED <<config, request, event, refused, features, verdicts, row>> /\ answer' = NoAnswer
      BY <1>8 DEF NotAnswered
  <2>2. AnswerInv'
      BY <2>1 DEF AnswerInv, NoAnswer
  <2>3. RequestInv' /\ FeaturesInv' /\ VerdictsInv' /\ RowInv'
      BY <2>1 DEF ScreeningInv, RequestInv, FeaturesInv, VerdictsInv, RowInv, RowOf, IsVerdict,
                  IsScore, BandsInUse
  <2> QED
      BY <2>2, <2>3 DEF ScreeningInv
<1>9. CASE UNCHANGED screeningVars
  <2>1. UNCHANGED <<config, request, event, refused, features, verdicts, row, answer>>
      BY <1>9 DEF screeningVars
  <2>2. RequestInv' /\ FeaturesInv' /\ VerdictsInv' /\ RowInv' /\ AnswerInv'
      BY <2>1 DEF ScreeningInv, RequestInv, FeaturesInv, VerdictsInv, RowInv, RowOf, AnswerInv,
                  IsVerdict, IsScore, BandsInUse
  <2> QED
      BY <2>2 DEF ScreeningInv
<1> QED
    BY <1>1, <1>2, <1>3, <1>4, <1>5, <1>6, <1>7, <1>8, <1>9 DEF ScreeningNext

(* A set of nothing or of one element has at most one element. *)
LEMMA AtMostOne ==
    ASSUME NEW S, S = {} \/ \E x : S = {x}
    PROVE  Cardinality(S) <= 1
<1>1. CASE S = {}
  <2>1. Cardinality(S) = 0
      BY <1>1, FS_EmptySet
  <2> QED
      BY <2>1
<1>2. CASE \E x : S = {x}
  <2>1. PICK x : S = {x}
      BY <1>2
  <2>2. Cardinality({x}) = 1
      BY FS_Singleton
  <2> QED
      BY <2>1, <2>2
<1> QED
    BY <1>1, <1>2

(* The types of one transaction's way, for any requests, counts and risks. *)
THEOREM ScreeningTypeCorrect == ScreeningSpec => []ScreeningTypeOK
<1>1. ScreeningInv => ScreeningTypeOK
  <2> SUFFICES ASSUME ScreeningInv PROVE ScreeningTypeOK
      OBVIOUS
  <2>1. Cardinality(event) <= 1
    <3>1. event = {} \/ \E x : event = {x}
        BY DEF ScreeningInv, RequestInv
    <3> QED
        BY <3>1, AtMostOne
  <2>2. ASSUME NEW d \in Deliveries
        PROVE  Cardinality(features[d]) <= 1 /\ Cardinality(verdicts[d]) <= 1
    <3>1. features[d] = {} \/ \E x : features[d] = {x}
        BY DEF ScreeningInv, FeaturesInv
    <3>2. verdicts[d] = {} \/ \E x : verdicts[d] = {x}
      <4>1. CASE verdicts[d] # {}
        <5>0. IsVerdict(event, verdicts[d])
            BY <4>1 DEF ScreeningInv, VerdictsInv
        <5>1. \E e \in event, n \in Int, band \in BandsInUse :
                  verdicts[d] = {Verdict(e, n, band)}
            BY <5>0, Zenon DEF IsVerdict
        <5> QED
            BY <5>1, Zenon
      <4> QED
          BY <4>1
    <3>3. Cardinality(features[d]) <= 1
        BY <3>1, AtMostOne
    <3>4. Cardinality(verdicts[d]) <= 1
        BY <3>2, AtMostOne
    <3> QED
        BY <3>3, <3>4
  <2>3. Cardinality(row) <= 1
    <3>1. row = {} \/ \E x : row = {x}
        BY DEF ScreeningInv, RowInv
    <3> QED
        BY <3>1, AtMostOne
  <2>4. ASSUME NEW d \in Deliveries, NEW v \in verdicts[d]
        PROVE  v.decision \in 0 .. 3 /\ v.score \in Int
    <3>1. v.decision \in 1 .. 3 /\ v.score \in Int
        BY VerdictNumber, VerdictFields DEF ScreeningInv
    <3> QED
        BY <3>1
  <2>5. DOMAIN features = Deliveries
      BY DEF ScreeningInv, FeaturesInv
  <2>6. config \in Configs /\ request \in Submissions /\ refused \in BOOLEAN
      BY DEF ScreeningInv, RequestInv
  <2>7. answer.to \in {"owner", "other", "nobody"}
      BY DEF ScreeningInv, AnswerInv
  <2> QED
      BY <2>1, <2>2, <2>3, <2>4, <2>5, <2>6, <2>7, Zenon DEF ScreeningTypeOK
<1> QED
    BY <1>1, ScreeningInitInv, ScreeningNextInv, PTL DEF ScreeningSpec

(* Of the verdicts that two deliveries get, from either service, the lower *)
(* score never has the harder decision but where the files of the two      *)
(* differ, and a score that no row can take is the fallback: for any       *)
(* thresholds, crossed ones among them, and any fallback.                  *)
THEOREM VerdictsAreOrdered == ScreeningSpec => []VerdictsKeepOrder
<1>1. ASSUME ScreeningInv, NEW c \in Deliveries, NEW d \in Deliveries,
             NEW v \in verdicts[c], NEW w \in verdicts[d],
             v.score <= w.score, Severity[v.decision] > Severity[w.decision]
      PROVE  Disputed(v.score) /\ Disputed(w.score)
  <2>1. PICK a \in BandsInUse : DecidedBy(v, a)
      BY <1>1, VerdictFields DEF ScreeningInv
  <2>2. PICK b \in BandsInUse : DecidedBy(w, b)
      BY <1>1, VerdictFields DEF ScreeningInv
  <2>3. /\ v.score \in Int /\ w.score \in Int /\ a \in Bands /\ b \in Bands
        /\ config.engine \in Bands /\ config.risk \in Bands
      BY <1>1, VerdictFields, ConfigType DEF ScreeningInv
  <2>4. Severity[v.decision] =
            IF v.score < a.approve THEN 0 ELSE IF v.score > a.decline THEN 2 ELSE 1
      BY <2>1, <2>3, SameRule DEF DecidedBy
  <2>5. Severity[w.decision] =
            IF w.score < b.approve THEN 0 ELSE IF w.score > b.decline THEN 2 ELSE 1
      BY <2>2, <2>3, SameRule DEF DecidedBy
  <2>6. \/ a = config.engine /\ b = config.risk
        \/ a = config.risk /\ b = config.engine
    <3>1. a # b
        BY <1>1, <2>3, <2>4, <2>5 DEF Bands
    <3> QED
        BY <3>1 DEF BandsInUse
  <2>7. /\ \/ (v.score < a.approve) # (v.score < b.approve)
           \/ (v.score > a.decline) # (v.score > b.decline)
        /\ \/ (w.score < a.approve) # (w.score < b.approve)
           \/ (w.score > a.decline) # (w.score > b.decline)
      BY <1>1, <2>3, <2>4, <2>5 DEF Bands
  <2> QED
      BY <2>6, <2>7 DEF Disputed
<1>2. ScreeningInv => VerdictsKeepOrder
  <2>1. ASSUME ScreeningInv, NEW d \in Deliveries, NEW v \in verdicts[d]
        PROVE  v.score \in 100 .. 1000 \/ v.score = config.fallback
      BY <2>1, VerdictFields DEF ScreeningInv, IsScore
  <2> QED
      BY <1>1, <2>1 DEF VerdictsKeepOrder
<1> QED
    BY <1>2, ScreeningInitInv, ScreeningNextInv, PTL DEF ScreeningSpec

(* The rules that are stored with a verdict and the features it came from  *)
(* tell of the same signs, for any request at any time.                    *)
THEOREM SignsAgree == ScreeningSpec => []RulesMatchFeatures
<1>1. ScreeningInv => RulesMatchFeatures
  <2> SUFFICES ASSUME ScreeningInv, NEW e \in event, NEW d \in Deliveries
               PROVE  /\ \A f \in features[d] :
                            /\ f.is_night = 1 <=> "NIGHT_TRANSACTION" \in Evaluate(e)
                            /\ f.is_risky_mcc = 1 <=> "RISKY_MCC" \in Evaluate(e)
                            /\ f.is_card_not_present = 1 <=> "CARD_NOT_PRESENT" \in Evaluate(e)
                      /\ "FOREIGN_CURRENCY" \in Evaluate(e) <=>
                             \/ ToUpper(request.currency) \notin Domestic
                             \/ request.currency # ToUpper(request.currency)
      BY DEF RulesMatchFeatures
  <2>1. /\ "NIGHT_TRANSACTION" \in Evaluate(e) <=> e.hour \in 0 .. 4
        /\ "RISKY_MCC" \in Evaluate(e) <=> e.mcc \in RiskyMCCs
        /\ "CARD_NOT_PRESENT" \in Evaluate(e) <=> e.channel = 2
        /\ "FOREIGN_CURRENCY" \in Evaluate(e) <=> e.currency \notin Domestic
      BY DEF Evaluate
  <2>2. ASSUME NEW f \in features[d]
        PROVE  /\ f.is_night = 1 <=> e.hour \in 0 .. 4
               /\ f.is_risky_mcc = 1 <=> e.mcc \in RiskyMCCs
               /\ f.is_card_not_present = 1 <=> e.channel = 2
    <3>1. PICK x \in event : \E v \in Velocities, risk \in MerchantRisks :
                   features[d] = {Build(x, v, risk)}
        BY <2>2 DEF ScreeningInv, FeaturesInv
    <3>2. x = e
        BY DEF ScreeningInv, RequestInv
    <3>3. /\ f.is_night = IsNight(e.hour) /\ f.is_risky_mcc = IsRiskyMCC(e.mcc)
          /\ f.is_card_not_present = IsCardNotPresent(e.channel)
        BY <2>2, <3>1, <3>2 DEF Build
    <3> QED
        BY <3>3 DEF IsNight, IsRiskyMCC, IsCardNotPresent, Bit
  <2>3. e.currency = request.currency
      BY DEF ScreeningInv, RequestInv, Event
  <2>4. request.currency \notin Domestic <=>
            \/ ToUpper(request.currency) \notin Domestic
            \/ request.currency # ToUpper(request.currency)
      BY DEF ToUpper, Domestic
  <2> QED
      BY <2>1, <2>2, <2>3, <2>4
<1> QED
    BY <1>1, ScreeningInitInv, ScreeningNextInv, PTL DEF ScreeningSpec

(* The owner is answered PENDING or a verdict that was published, whole,   *)
(* and nobody else is told; the row names what was asked for.              *)
THEOREM AnswersAreWhole == ScreeningSpec => []AnswersAreVerdicts
<1>1. ScreeningInv => AnswersAreVerdicts
  <2> SUFFICES ASSUME ScreeningInv PROVE AnswersAreVerdicts
      OBVIOUS
  <2>1. ASSUME NEW r \in row
        PROVE  /\ r.type = MapTransactionType(request.type)
               /\ r.channel = MapChannel(request.channel)
    <3>1. PICK d \in Deliveries : \E v \in verdicts[d] : row = {RowOf(v)}
        BY <2>1 DEF ScreeningInv, RowInv
    <3> QED
        BY <2>1, <3>1 DEF RowOf
  <2>2. ASSUME NEW x \in DOMAIN TypeNumber
        PROVE  MapTransactionType(TypeNumber[x])
                   = [SALES |-> "sales", VOID |-> "void", REFUND |-> "refund",
                      REVERSAL |-> "reversal"][x]
      BY <2>2 DEF TypeNumber, MapTransactionType
  <2>3. ASSUME NEW x \in DOMAIN ChannelNumber
        PROVE  MapChannel(ChannelNumber[x]) = [POS |-> "pos", PG |-> "pg"][x]
      BY <2>3 DEF ChannelNumber, MapChannel
  <2> QED
      BY <2>1, <2>2, <2>3 DEF ScreeningInv, AnswerInv, AnswersAreVerdicts
<1> QED
    BY <1>1, ScreeningInitInv, ScreeningNextInv, PTL DEF ScreeningSpec

(* What is raised in one feature is a feature vector. *)
LEMMA RaisedType ==
    ASSUME NEW f \in FeatureVectors, f.merchant_risk # NaN, NEW g \in Raised(f)
    PROVE  g \in FeatureVectors /\ g.merchant_risk # NaN
<1> USE DEF FeatureVectors
<1>f. Features = {"amount_minor", "txn_count_1min", "txn_count_5min", "txn_count_1hr",
                  "amount_sum_1min", "amount_sum_1hr", "unique_merchants_5min",
                  "unique_terminals_5min", "merchant_risk", "is_night", "is_risky_mcc",
                  "is_card_not_present"}
    BY DEF Features, Model
<1>1. \A x \in Features : Model[x].method = "linear_cap" =>
          x \in {"txn_count_1min", "txn_count_5min", "txn_count_1hr", "unique_merchants_5min",
                 "unique_terminals_5min"}
    BY <1>f DEF Model, Linear, Logarithm, Binary
<1>2. \A x \in Features : Model[x].method = "log10" =>
          x \in {"amount_minor", "amount_sum_1min", "amount_sum_1hr"}
    BY <1>f DEF Model, Linear, Logarithm, Binary
<1>3. \A x \in Features : Model[x].method = "binary" =>
          x \in {"is_night", "is_risky_mcc", "is_card_not_present"}
    BY <1>f DEF Model, Linear, Logarithm, Binary
<1>4. ASSUME NEW x \in {"txn_count_1min", "txn_count_5min", "txn_count_1hr",
                        "unique_merchants_5min", "unique_terminals_5min", "is_night",
                        "is_risky_mcc", "is_card_not_present"},
             NEW n \in Int, g = [f EXCEPT ![x] = n]
      PROVE  g \in FeatureVectors /\ g.merchant_risk = f.merchant_risk
    BY <1>4
<1>5. ASSUME NEW x \in {"amount_minor", "amount_sum_1min", "amount_sum_1hr"},
             NEW n \in Amounts, g = [f EXCEPT ![x] = n]
      PROVE  g \in FeatureVectors /\ g.merchant_risk = f.merchant_risk
    BY <1>5
<1>6. ASSUME NEW n \in MerchantRisks \ {NaN}, g = [f EXCEPT !.merchant_risk = n]
      PROVE  g \in FeatureVectors /\ g.merchant_risk = n
    BY <1>6, ScreeningAssumption
<1>7. \/ \E x \in Features, n \in {1, 10, 18, 46} :
             Model[x].method = "linear_cap" /\ g = [f EXCEPT ![x] = n]
      \/ \E x \in Features, n \in Amounts :
             Model[x].method = "log10" /\ g = [f EXCEPT ![x] = n]
      \/ \E x \in Features : Model[x].method = "binary" /\ g = [f EXCEPT ![x] = 1]
      \/ \E n \in MerchantRisks \ {NaN} : g = [f EXCEPT !.merchant_risk = n]
    BY DEF Raised
<1> HIDE DEF FeatureVectors
<1> QED
    BY <1>1, <1>2, <1>3, <1>4, <1>5, <1>6, <1>7

(* More of a sign of fraud never lowers a score, for any counts, amounts    *)
(* and risks, any table of logarithms that does not fall, and any thresholds. *)
THEOREM ScoresAreMonotone == ScreeningSpec => []ScoreIsMonotone
<1>1. ScreeningInv => ScoreIsMonotone
  <2> SUFFICES ASSUME ScreeningInv, NEW d \in Deliveries, NEW f \in features[d],
                      f.merchant_risk # NaN, NEW g \in Raised(f),
                      \A x \in Features : f[x] <= g[x]
               PROVE  Score(f) <= Score(g)
      BY DEF ScoreIsMonotone
  <2>1. f \in FeatureVectors
      BY BuildType DEF ScreeningInv, FeaturesInv
  <2>2. g \in FeatureVectors /\ g.merchant_risk # NaN
      BY <2>1, RaisedType
  <2> QED
      BY <2>1, <2>2, ScoreGrows
<1> QED
    BY <1>1, ScreeningInitInv, ScreeningNextInv, PTL DEF ScreeningSpec

-----------------------------------------------------------------------------
(* The velocity store and the verdict side by side (MCScreening).          *)

LEMMA HalvesStart == ScreenInit => VelocityInit /\ ScreeningInit
BY Zenon DEF ScreenInit

LEMMA HalvesStep ==
    [ScreenNext]_screenVars => [VelocityNext]_velocityVars /\ [ScreeningNext]_screeningVars
BY Zenon DEF ScreenNext, screenVars

(* Side by side each behaves as it does alone, so that what is proved of   *)
(* one of them holds of both together: they share nothing.                 *)
THEOREM HalvesMoveAlone == ScreenSpec => VelocitySpec /\ ScreeningSpec
BY HalvesStart, HalvesStep, PTL DEF ScreenSpec, VelocitySpec, ScreeningSpec

(* Both keep their types, for any values of all their constants.           *)
THEOREM ScreenTypesCorrect == ScreenSpec => []ScreenTypeOK
<1>1. VelocityTypeOK /\ ScreeningTypeOK => ScreenTypeOK
    BY DEF ScreenTypeOK
<1> QED
    BY <1>1, HalvesMoveAlone, VelocityTypeCorrect, ScreeningTypeCorrect, PTL
=============================================================================
