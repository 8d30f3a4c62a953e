------------------------------- MODULE Screening -------------------------------
(***************************************************************************)
(* One transaction from the request to the answer about its status: the    *)
(* gateway validates it and makes it an event; each delivery of the event  *)
(* to the fraud engine evaluates the rules and asks the risk service, or   *)
(* falls back; the result is published, written to a row, perhaps more     *)
(* than once and over an older one, and read by GetTransactionStatus.      *)
(***************************************************************************)
EXTENDS Decision

CONSTANTS Submissions,    \* the requests a client may send
          Instants,       \* the times it may be: [hour, weekend]
          Velocities,     \* what the velocity store may return
          MerchantRisks,  \* what getMerchantRisk may return
          Configs,        \* the bands the two services may be configured with, and the fallback
          Deliveries      \* how often the event is handled

\* The types on the wire: a count that Redis returns may be any integer.
ASSUME ScreeningAssumption ==
    /\ Submissions \subseteq [fields : BOOLEAN, amount : Amounts, currency : STRING,
                             type : Int, channel : Int, mcc : STRING]
    /\ Instants \subseteq [hour : 0 .. 23, weekend : BOOLEAN]
    /\ Velocities \subseteq [count1m : Int, count5m : Int, count1h : Int, sum1m : Amounts,
                            sum1h : Amounts, merchants : Int, terminals : Int]
    /\ MerchantRisks \subseteq Int
    /\ Configs \subseteq [engine : Bands, risk : Bands, fallback : Int]

VARIABLES config,     \* the bands of the services and the engine's fallback_risk_score
          request,    \* the request
          event,      \* the transactions topic: the event, or {} if there is none
          refused,    \* whether the validator rejected the request
          features,   \* features[d]: what delivery d sent to the risk service, if it is there
          verdicts,   \* verdicts[d]: what d published, a set of at most one
          row,        \* the row, a set of at most one
          answer      \* the last answer about the status

screeningVars == <<config, request, event, refused, features, verdicts, row, answer>>

Decisions == DOMAIN DecisionNumber
NoAnswer == [to |-> "nobody", status |-> "", decision |-> "", score |-> 0]

ScreeningTypeOK ==
    /\ config \in Configs /\ request \in Submissions /\ refused \in BOOLEAN
    /\ Cardinality(event) <= 1
    /\ DOMAIN features = Deliveries
    /\ \A d \in Deliveries : Cardinality(features[d]) <= 1 /\ Cardinality(verdicts[d]) <= 1
    /\ \A d \in Deliveries : \A v \in verdicts[d] :
           v.decision \in 0 .. 3 /\ v.score \in Int
    /\ Cardinality(row) <= 1
    /\ answer.to \in {"owner", "other", "nobody"}

ScreeningInit ==
    /\ config \in Configs /\ request \in Submissions /\ event = {} /\ refused = FALSE
    /\ features = [d \in Deliveries |-> {}] /\ verdicts = [d \in Deliveries |-> {}]
    /\ row = {} /\ answer = NoAnswer

-------------------------------------------------------------------------------
(* The gateway takes the request.                                          *)

Accepted(t) ==
    /\ event = {} /\ ~refused /\ ValidateSubmit(request)
    /\ event' = {Event(request, t)}
    /\ UNCHANGED <<config, request, refused, features, verdicts, row, answer>>

Rejected ==
    /\ event = {} /\ ~refused /\ ~ValidateSubmit(request) /\ refused' = TRUE
    /\ UNCHANGED <<config, request, event, features, verdicts, row, answer>>

-------------------------------------------------------------------------------
(* A delivery to the fraud engine.                                         *)

Waits(d) == event # {} /\ features[d] = {} /\ verdicts[d] = {}

\* The merchant's risk and the velocities are read, or replaced by 0.5 and zeros.
Evaluated(d, v, risk) ==
    /\ Waits(d)
    /\ \E e \in event : features' = [features EXCEPT ![d] = {Build(e, v, risk)}]
    /\ UNCHANGED <<config, request, event, refused, verdicts, row, answer>>

\* The fraud result: the verdict, and what is passed on from the event.
Result(e, decision, score) ==
    [decision |-> decision, score |-> score, rules |-> Evaluate(e),
     type |-> e.type, channel |-> e.channel]

Publish(d, decision, score) ==
    /\ \E e \in event : verdicts' = [verdicts EXCEPT ![d] = {Result(e, decision, score)}]
    /\ features' = [features EXCEPT ![d] = {}]
    /\ UNCHANGED <<config, request, event, refused, row, answer>>

\* CalculateRisk answers: its number and its score are passed on.
Scored(d) == \E f \in features[d] :
    Publish(d, DecisionNumber[ScoreDecision(Score(f), config.risk)], Score(f))

\* The circuit is open, or the call fails or times out.
FellBack(d) ==
    /\ features[d] # {}
    /\ Publish(d, DecisionNumber[ScoreToDecision(config.fallback, config.engine)],
               config.fallback)

-------------------------------------------------------------------------------
(* The persistence service and the status of the transaction.              *)

\* The columns of an insert, from a result.
Columns(v) == [decision |-> MapDecision(v.decision), score |-> v.score,
               type |-> MapTransactionType(v.type), channel |-> MapChannel(v.channel)]

\* What a bug would do: insert without ON CONFLICT, into a table without a key.
InsertsAgain(v) == row \cup {Columns(v)}

\* What a bug would do: the score is missing from DO UPDATE SET.
UpsertKeepsScore(v) ==
    IF row = {} THEN {Columns(v)}
    ELSE {[r EXCEPT !.decision = Columns(v).decision] : r \in row}

\* The row after the upsert: the verdict is replaced, the rest stays.
Upsert(v) ==
    IF row = {} THEN {Columns(v)}
    ELSE {[r EXCEPT !.decision = Columns(v).decision, !.score = Columns(v).score] : r \in row}

\* The CHECK of the table refuses other scores: that result ends in the DLQ.
Persist(d) ==
    /\ \E v \in verdicts[d] : v.score \in 100 .. 1000 /\ row' = Upsert(v)
    /\ UNCHANGED <<config, request, event, refused, features, verdicts, answer>>

\* The owner's row is found, or there is none; another client never finds it.
Answered(client) ==
    /\ event # {}
    /\ answer' =
         IF client = "owner" /\ row # {}
         THEN LET r == CHOOSE r \in row : TRUE
              IN  [to |-> client, status |-> StatusOf(r.decision)[1],
                   decision |-> StatusOf(r.decision)[2], score |-> r.score]
         ELSE [to |-> client, status |-> "PENDING", decision |-> "", score |-> 0]
    /\ UNCHANGED <<config, request, event, refused, features, verdicts, row>>

\* The lookup fails: UNAVAILABLE.
NotAnswered ==
    /\ event # {} /\ answer' = NoAnswer
    /\ UNCHANGED <<config, request, event, refused, features, verdicts, row>>

ScreeningNext ==
    \/ \E t \in Instants : Accepted(t)
    \/ Rejected
    \/ \E d \in Deliveries :
          \/ \E v \in Velocities, risk \in MerchantRisks : Evaluated(d, v, risk)
          \/ Scored(d) \/ FellBack(d) \/ Persist(d)
    \/ \E client \in {"owner", "other"} : Answered(client)
    \/ NotAnswered

ScreeningSpec == ScreeningInit /\ [][ScreeningNext]_screeningVars

-------------------------------------------------------------------------------
(* Properties.                                                             *)

Raised(f) ==
    {[f EXCEPT ![x] = n] : x \in {x \in Features : Model[x].method = "linear_cap"},
                           n \in {1, 10, 18, 46}}
    \cup {[f EXCEPT ![x] = n] : x \in {x \in Features : Model[x].method = "log10"}, n \in Amounts}
    \cup {[f EXCEPT ![x] = 1] : x \in {x \in Features : Model[x].method = "binary"}}
    \cup {[f EXCEPT !.merchant_risk = n] : n \in MerchantRisks \ {NaN}}

\* More of a sign of fraud never lowers the score, beyond the caps and below
\* zero too, and an uncounted velocity (zero) never raises it.  A merchant risk
\* that is "NaN" in Redis is the exception: it brings the score down to 100.
ScoreIsMonotone ==
    \A d \in Deliveries : \A f \in features[d] : f.merchant_risk # NaN =>
        LET score == Score(f) IN
        \A g \in Raised(f) : (\A x \in Features : f[x] <= g[x]) => score <= Score(g)

\* By the number of the decision: APPROVE, then REVIEW, then DECLINE.
Severity == <<0, 2, 1>>

\* A score that one service approves, or declines, and the other does not.
Disputed(s) == \/ (s < config.engine.approve) # (s < config.risk.approve)
               \/ (s > config.engine.decline) # (s > config.risk.decline)

\* Two deliveries may be decided by two services, with thresholds from two files:
\* the one with the lower score never gets the harder verdict, unless both scores
\* lie where the files differ; and a score that the CHECK of the table refuses is
\* the engine's fallback, not one that was computed (processor.go:273-315,
\* scorer.go:80-97, risk-service.yaml:70-78, 001_create_transactions.sql:40).
VerdictsKeepOrder ==
    /\ \A c, d \in Deliveries : \A v \in verdicts[c], w \in verdicts[d] :
           v.score <= w.score /\ Severity[v.decision] > Severity[w.decision] =>
               Disputed(v.score) /\ Disputed(w.score)
    /\ \A d \in Deliveries : \A v \in verdicts[d] :
           v.score \in 100 .. 1000 \/ v.score = config.fallback

\* The risk service is told of the same signs as the rules that are stored with
\* its verdict, and the rules judge the currency that was validated: but a
\* currency in small letters passes the validator and is foreign to the rules
\* (validator.go:67, handler.go:142, engine.go:143).
RulesMatchFeatures ==
    \A e \in event, d \in Deliveries :
        LET rules == Evaluate(e) IN
        /\ \A f \in features[d] :
               /\ f.is_night = 1 <=> "NIGHT_TRANSACTION" \in rules
               /\ f.is_risky_mcc = 1 <=> "RISKY_MCC" \in rules
               /\ f.is_card_not_present = 1 <=> "CARD_NOT_PRESENT" \in rules
        /\ "FOREIGN_CURRENCY" \in rules <=>
               ToUpper(request.currency) \notin Domestic
               \/ request.currency # ToUpper(request.currency)

\* The client gets PENDING or, whole, a verdict that was published for its
\* transaction, not the decision of one delivery with the score of another;
\* another client gets PENDING.  The row names the type and the channel that
\* were asked for, "unknown" for a number without a name.
AnswersAreVerdicts ==
    /\ answer.to = "owner" => \/ answer.status = "PENDING"
                              \/ \E d \in Deliveries : \E v \in verdicts[d] :
                                     /\ v.decision = DecisionNumber[answer.decision]
                                     /\ v.score = answer.score
    /\ answer.to = "other" => answer.status = "PENDING"
    /\ \A r \in row :
           /\ \A x \in DOMAIN TypeNumber : request.type = TypeNumber[x] =>
                  r.type = [SALES |-> "sales", VOID |-> "void", REFUND |-> "refund",
                            REVERSAL |-> "reversal"][x]
           /\ \A x \in DOMAIN ChannelNumber : request.channel = ChannelNumber[x] =>
                  r.channel = [POS |-> "pos", PG |-> "pg"][x]
================================================================================
