------------------------------ MODULE MCScreening ------------------------------
(***************************************************************************)
(* The velocity store and the way of one transaction to its verdict.  They *)
(* share no state, so each behaviour moves one of them and leaves the      *)
(* other in an initial state.                                              *)
(***************************************************************************)
EXTENDS Velocity, Screening, TLC

CONSTANTS t1, t2, j1, j2, j3, d1, d2

VARIABLE part         \* the part of the system this behaviour is about

screenVars == <<velocityVars, screeningVars, part>>

MCTxnOf == j1 :> t1 @@ j2 :> t1 @@ j3 :> t2

\* j1 and j2 deliver the same transaction, d1 and d2 the same event.
Redelivered == Permutations({j1, j2}) \cup Permutations({d1, d2})

\* Round, below, at and above a threshold, and at a power of ten.
MCLog10 == 0 :> 0 @@ 1 :> 0 @@ 100000 :> 5000 @@ 200000 :> 5301 @@ 500000 :> 5699
           @@ 500001 :> 5699 @@ 1000000000 :> 9000

Plain == [fields |-> TRUE, amount |-> 200000, currency |-> "OMR", type |-> 1,
          channel |-> 1, mcc |-> "5411"]

\* Each field with each of its interesting values, and some that go together.
MCSubmissions ==
    {Plain}
    \cup {[Plain EXCEPT !.amount = a] : a \in {0, 1, 100000, 500000, 1000000000}}
    \cup {[Plain EXCEPT !.currency = c, !.amount = 500001] : c \in {"omr", "usd", "KWD", "EUR"}}
    \cup {[Plain EXCEPT !.type = n] : n \in {0, 2, 3, 4, 5}}
    \cup {[Plain EXCEPT !.channel = n, !.mcc = "5912"] : n \in 0 .. 3}
    \cup {[Plain EXCEPT !.mcc = "6099"], [Plain EXCEPT !.fields = FALSE]}
    \cup {[Plain EXCEPT !.amount = 1000000000, !.channel = 2, !.mcc = "6051"]}

\* On either side of the end of the night.
MCInstants == {[hour |-> 4, weekend |-> FALSE], [hour |-> 5, weekend |-> TRUE]}

Measured(n, sum) == [count1m |-> n, count5m |-> n, count1h |-> n, sum1m |-> sum,
                      sum1h |-> sum, merchants |-> n, terminals |-> n]

\* Record failed; only the sums could be read; many: some of the scores are 350 and 650.
MCVelocities == {Measured(0, 0), Measured(0, 100000), Measured(14, 500001)}

\* Out of range on either side, the neutral 0.5 of a key that is missing, and no number.
MCMerchantRisks == {-50, 50, 150, NaN}

Band(approve, decline) == [approve |-> approve, decline |-> decline]

\* The shipped files; a threshold that is the fallback and a score; one file edited
\* alone; thresholds that cross, with a fallback that the table refuses.
AsShipped == [engine |-> Band(350, 650), risk |-> Band(350, 650), fallback |-> 550]
MCConfigs ==
    {AsShipped,
     [engine |-> Band(350, 659), risk |-> Band(350, 659), fallback |-> 659],
     [AsShipped EXCEPT !.risk = Band(350, 600), !.fallback = 650],
     [AsShipped EXCEPT !.engine = Band(600, 300), !.fallback = 50]}

ScreenTypeOK == VelocityTypeOK /\ ScreeningTypeOK

\* Every request with the shipped files, one request with the others.
ScreenInit ==
    /\ part \in {"velocity", "screening"} /\ VelocityInit /\ ScreeningInit
    /\ \/ request = Plain /\ config = AsShipped
       \/ part = "screening" /\ (request = Plain \/ config = AsShipped)

ScreenNext ==
    /\ UNCHANGED part
    /\ \/ part = "velocity" /\ VelocityNext /\ UNCHANGED screeningVars
       \/ part = "screening" /\ ScreeningNext /\ UNCHANGED velocityVars

ScreenSpec == ScreenInit /\ [][ScreenNext]_screenVars
================================================================================
