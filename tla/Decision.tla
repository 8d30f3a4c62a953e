-------------------------------- MODULE Decision --------------------------------
(***************************************************************************)
(* The functions a transaction goes through on its way to a verdict: the   *)
(* validation of the gateway, the rules and features of the fraud engine,  *)
(* the score and the decision of the risk service, and the names and       *)
(* numbers under which each service passes them on.  Scores are computed   *)
(* in integers; logarithms come from a table.                              *)
(***************************************************************************)
EXTENDS Integers, FiniteSets

CONSTANTS Log10           \* Log10[a]: the logarithm of an amount, in thousandths

Amounts == DOMAIN Log10

ASSUME LogarithmAssumption ==
    /\ Amounts \subseteq Int /\ \A a \in Amounts : Log10[a] \in Nat
    /\ \A a, b \in Amounts : a <= b => Log10[a] <= Log10[b]

-------------------------------------------------------------------------------
(* The gateway: a request that is accepted.  Enums are numbers on the wire *)
(* and open: any number arrives, 0 is "not set".                           *)

TypeNumber    == [SALES |-> 1, VOID |-> 2, REFUND |-> 3, REVERSAL |-> 4]
ChannelNumber == [POS |-> 1, PG |-> 2]
Supported == {"OMR", "INR", "USD", "AED", "SAR", "BHD", "KWD", "QAR"}

\* strings.ToUpper; a currency is named in capitals or in small letters.
ToUpper(c) == CASE c = "omr" -> "OMR" [] c = "usd" -> "USD" [] OTHER -> c

\* ids and the MCC of a request are either within the limits or not.
ValidateSubmit(q) ==
    /\ q.fields /\ q.amount >= 1 /\ ToUpper(q.currency) \in Supported
    /\ q.type # 0 /\ q.channel # 0

\* The event: the currency as the client wrote it, the numbers of the enums, and
\* the time of the submission.
Event(q, t) == [currency |-> q.currency, amount |-> q.amount, mcc |-> q.mcc,
                type |-> q.type, channel |-> q.channel,
                hour |-> t.hour, weekend |-> t.weekend]

-------------------------------------------------------------------------------
(* The rules of the fraud engine.                                          *)

RiskyMCCs  == {"7995", "7994", "5999", "6011", "6010", "4829", "6051", "7273", "5912"}
CryptoMCCs == {"6051", "6099"}
Domestic   == {"OMR", "AED", "SAR", "BHD", "KWD", "QAR"}

\* defaultThresholds; fraud-rules.yaml keeps its own under another key, which
\* NewEngine does not read.
Thresholds == [OMR |-> 500000, INR |-> 5000000, USD |-> 500000, AED |-> 1837500,
               SAR |-> 1875000, BHD |-> 188500, KWD |-> 153000, DEFAULT |-> 500000]

ThresholdOf(c) == IF c \in DOMAIN Thresholds THEN Thresholds[c] ELSE Thresholds["DEFAULT"]

CheckHighAmount(e) == e.amount > ThresholdOf(e.currency)

\* Evaluate.  The timestamp is the gateway's own, and always parses.
Evaluate(e) ==
    {r \in {"HIGH_AMOUNT", "ROUND_AMOUNT", "RISKY_MCC", "CRYPTO_EXCHANGE_MCC",
            "NIGHT_TRANSACTION", "WEEKEND_HIGH_AMOUNT", "CARD_NOT_PRESENT",
            "FOREIGN_CURRENCY"} :
        \/ r = "HIGH_AMOUNT" /\ CheckHighAmount(e)
        \/ r = "ROUND_AMOUNT" /\ e.amount > 100000 /\ e.amount % 100000 = 0
        \/ r = "RISKY_MCC" /\ e.mcc \in RiskyMCCs
        \/ r = "CRYPTO_EXCHANGE_MCC" /\ e.mcc \in CryptoMCCs
        \/ r = "NIGHT_TRANSACTION" /\ e.hour \in 0 .. 4
        \/ r = "WEEKEND_HIGH_AMOUNT" /\ CheckHighAmount(e) /\ e.weekend
        \/ r = "CARD_NOT_PRESENT" /\ e.channel = 2
        \/ r = "FOREIGN_CURRENCY" /\ e.currency \notin Domestic}

Bit(b) == IF b THEN 1 ELSE 0

\* What a bug would do: the night ends at six.
IsNightTooLong(hour) == Bit(hour \in 0 .. 5)

IsNight(hour) == Bit(hour \in 0 .. 4)
IsRiskyMCC(mcc) == Bit(mcc \in RiskyMCCs)
IsCardNotPresent(channel) == Bit(channel = 2)

\* features.Build: v is what the velocity store returned, risk that of the merchant.
Build(e, v, risk) ==
    [amount_minor |-> e.amount, txn_count_1min |-> v.count1m,
     txn_count_5min |-> v.count5m, txn_count_1hr |-> v.count1h,
     amount_sum_1min |-> v.sum1m, amount_sum_1hr |-> v.sum1h,
     unique_merchants_5min |-> v.merchants, unique_terminals_5min |-> v.terminals,
     merchant_risk |-> risk, is_night |-> IsNight(e.hour),
     is_risky_mcc |-> IsRiskyMCC(e.mcc),
     is_card_not_present |-> IsCardNotPresent(e.channel)]

-------------------------------------------------------------------------------
(* The risk service.                                                       *)

\* The configured model: weights in hundredths, caps as counts or as exponents.
Linear(w, cap) == [weight |-> w, method |-> "linear_cap", cap |-> cap]
Logarithm(w, cap) == [weight |-> w, method |-> "log10", cap |-> cap]
Binary(w) == [weight |-> w, method |-> "binary", cap |-> 1]

Model == [amount_minor |-> Logarithm(18, 12), txn_count_1min |-> Linear(16, 18),
          txn_count_5min |-> Linear(9, 28), txn_count_1hr |-> Linear(6, 45),
          amount_sum_1min |-> Logarithm(14, 9), amount_sum_1hr |-> Logarithm(7, 10),
          unique_merchants_5min |-> Linear(11, 9), unique_terminals_5min |-> Linear(6, 9),
          merchant_risk |-> [weight |-> 5, method |-> "passthrough", cap |-> 1],
          is_night |-> Binary(3), is_risky_mcc |-> Binary(2),
          is_card_not_present |-> Binary(2)]

Features == DOMAIN Model

SumOverFeatures(term) ==
    term["amount_minor"] + term["txn_count_1min"] + term["txn_count_5min"]
    + term["txn_count_1hr"] + term["amount_sum_1min"] + term["amount_sum_1hr"]
    + term["unique_merchants_5min"] + term["unique_terminals_5min"] + term["merchant_risk"]
    + term["is_night"] + term["is_risky_mcc"] + term["is_card_not_present"]

\* scoring.New refuses more than that.
ASSUME WeightsFit == SumOverFeatures([x \in Features |-> Model[x].weight]) <= 100

\* A normalised value of 1 is One, which 12, 9 and 10 thousand, 18, 28, 45, 9 and 100 divide.
One == 1260000

\* merchant_risk in hundredths; ParseFloat reads a "NaN" as well.
NaN == 1000000

\* What a bug would do: a value that is out of range counts as none.
ClampOutliersToZero(x) == IF x \in 0 .. One THEN x ELSE 0

Clamp(x) == IF x < 0 THEN 0 ELSE IF x > One THEN One ELSE x

Normalise(x, c) ==
    CASE c.method = "log10" ->
             Clamp((One \div (1000 * c.cap)) * (IF x < 1 THEN 0 ELSE Log10[x]))
      [] c.method = "linear_cap" -> Clamp((One \div c.cap) * x)
      [] c.method = "binary" -> IF x > 0 THEN One ELSE 0
      [] c.method = "passthrough" -> Clamp((One \div 100) * x)

WeightedSum(f) ==
    SumOverFeatures([x \in Features |-> Model[x].weight * Normalise(f[x], Model[x])])

\* A NaN passes every comparison of Normalise; converted to int32 it is the least.
\* The sum is scaled from 0..1 to 100..1000 and rounded.
Score(f) ==
    IF f.merchant_risk = NaN THEN 100
    ELSE LET raw == 100 + (18 * WeightedSum(f) + One) \div (2 * One)
         IN  IF raw < 100 THEN 100 ELSE IF raw > 1000 THEN 1000 ELSE raw

\* The decision_thresholds of a service.  Each service has its own, from its own
\* file or built in, and nothing compares them or puts the two in order.
Bands == [approve : Int, decline : Int]

\* What a bug would do: decline from the upper threshold on.
ScoreDecisionFrom(s, band) == IF s < band.approve THEN "APPROVE"
                              ELSE IF s >= band.decline THEN "DECLINE" ELSE "REVIEW"

\* The decision of Score, by the bands of the risk service.
ScoreDecision(s, band) == IF s < band.approve THEN "APPROVE"
                          ELSE IF s > band.decline THEN "DECLINE" ELSE "REVIEW"

\* scoreToDecision, for a score without a decision, by those of the engine; the
\* first case that holds, when the thresholds cross.
ScoreToDecision(s, band) ==
    CASE s < band.approve -> "APPROVE"
      [] s >= band.approve /\ s > band.decline -> "DECLINE"
      [] OTHER -> "REVIEW"

-------------------------------------------------------------------------------
(* Numbers and names.                                                      *)

DecisionNumber == [APPROVE |-> 1, DECLINE |-> 2, REVIEW |-> 3]

\* mapDecision, mapTransactionType, mapChannel of the persistence service.
MapDecision(n) == CASE n = 1 -> "APPROVED" [] n = 2 -> "DECLINED"
                    [] n = 3 -> "REVIEW" [] OTHER -> "UNKNOWN"

MapTransactionType(n) == CASE n = 1 -> "sales" [] n = 2 -> "void" [] n = 3 -> "refund"
                           [] n = 4 -> "reversal" [] OTHER -> "unknown"

MapChannel(n) == CASE n = 1 -> "pos" [] n = 2 -> "pg" [] OTHER -> "unknown"

\* GetTransactionStatus: the status and the decision that are answered for a row.
StatusOf(text) == CASE text = "APPROVED" -> <<"APPROVED", "APPROVE">>
                    [] text = "DECLINED" -> <<"DECLINED", "DECLINE">>
                    [] text = "REVIEW" -> <<"REVIEW", "REVIEW">>
                    [] OTHER -> <<"ERROR", "">>
=================================================================================
