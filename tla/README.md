# SentinelSwitch in TLA+

SentinelSwitch screens card transactions for fraud. A gRPC gateway accepts a
transaction and puts it on a Kafka topic; a fraud engine scores it with the help
of Redis and of a risk service; the verdict goes to a second topic, from which
one service writes it to PostgreSQL and another sends it to the topic of the
client that submitted the transaction. This directory models the parts of that
system that are hard to test: what happens to a message when a publish, a
write, a commit or a process fails, when calls and goroutines interleave, and
when partitions move from one replica to another; what a cache, a limiter or a
provisioning without a transaction may do to a client; and what becomes of a
transaction's data on its way to a verdict.

All paths below are relative to `src/services/` unless they start with `src/`.

## 1. Inventory

| part | state it keeps | operations | what is hard | what makes it correct |
|---|---|---|---|---|
| **API gateway, SubmitTransaction** (`api-gateway/internal/gateway/handler.go`, `idempotency/redis.go`, `kafka/producer.go`) | one Redis key per idempotency key, with a TTL; the cached schema id behind a mutex | receive, claim the key, read the original, fetch the schema id, write to Kafka, answer | concurrent calls with one key on several gateways; a failure between the claim and the write; an expiring key; errors of Redis tolerated by configuration | one transaction per claim; a duplicate is told the transaction that holds the key; no call waits behind another's write, and every call ends with its deadline or the outage |
| **API gateway, authentication** (`auth/cache.go`, `store.go`, `interceptor.go`) | Redis cache of API-key hashes over the table `api_clients` | Lookup, trySet, expiry | stale entries after a suspension or an insertion, a SET that arrives late, Redis or the database down | an answer was true at some time within the TTL and the delay of a SET; a change takes effect in the end |
| **API gateway, provisioning** (`provisioning/*.go`, `gateway/admin_handler.go`) | row in `api_clients`, SCRAM credential, topic, ACLs | Provision in four steps | each step may fail or take effect after its sender gave up, concurrent calls for one id, retry after a failure | what a caller is told to exist exists and is its own |
| **API gateway, rate limiter** (`ratelimit/limiter.go`) | token bucket per client, in memory | Allow, cleanup | the cleanup drops a bucket between its lookup and its use | no client exceeds rate and burst |
| **API gateway, status lookup** (`txnstatus/store.go`) | none (reads `transactions`) | Lookup | reads a row that may not be there yet or is being replaced | answers PENDING or, whole, a published verdict, and only to the owner |
| **Fraud engine, pipeline** (`fraud-engine/internal/pipeline/processor.go`) | messages in the hands of goroutines, slots of two channels, schema id in a `sync.Once` | fetch, dispatch, risk call, publish, commit, shutdown | goroutines commit out of order; crash; rebalance; the schema error that sticks | a loss only in a crash and less than a pool; no wedge; bounded republication |
| **Fraud engine, circuit breaker** (`circuitbreaker/breaker.go`) | three Redis keys shared by all replicas | Allow, RecordSuccess, RecordFailure, expiry of OPEN | several commands per operation, interleaved; lost commands; a crash between two of them | opens in an outage, closes after it, never early |
| **Fraud engine, velocity store** (`velocity/store.go`) | sorted sets, hashes and HyperLogLogs per card | Record | a pipeline that is no transaction, later reads, redeliveries, keys that expire | counts, sums and unique merchants are those of the window, each transaction once |
| **Fraud engine, rules and features** (`rules/engine.go`, `features/builder.go`) | none | Evaluate, Build | boundaries, enums and currencies as they arrive | features and rules tell of the same signs |
| **Risk service** (`risk-service/internal/scoring/scorer.go`, `server/handler.go`) | none | CalculateRisk, Score | clamping, rounding, NaN, thresholds held by two services | monotone, within 100..1000; a lower score never gets a harder verdict where the files agree |
| **Persistence service** (`persistence-svc/internal/pipeline/processor.go`, `store/postgres.go`) | the batch in memory; the table | fetch, flush by size, ticker or shutdown, upsert with retries, DLQ, commit | a poison message that overtakes the batch, failed upserts and DLQ writes, replayed older verdicts, cancelled context | what a committed offset passes has an outcome or was overtaken by poison; the newest verdict stays |
| **Result notifier** (`result-notifier/internal/pipeline/processor.go`, `router/router.go`, `kafka/dlq.go`) | the message in hand | fetch, publish with retries, DLQ, commit | failed publishes and commits, two replicas that both hold a message, shutdown | nothing is passed without an outcome; bounded copies |
| **Processes** (`*/cmd/main.go`) | resources, servers, signal handler | start-up, serve, drain, close | a signal during the start-up, work in flight while resources are closed, a server that fails | accepted work is finished and never meets a closed resource; a service that is told to stop stops, the gateway as soon as Kafka lets it |
| **Configuration** (`*/internal/config/config.go`) | the values of a process | expand, unmarshal, replace zeros, refuse | five loaders that differ in what an empty variable and a zero are; one number in the files of two services | a zero only where one is meant; two services that read one number agree on it when their files do |
| **Logging** (`*/internal/logging/logging.go`) | the file of the hour, the console switch | Write, rotateLocked, stopConsole | goroutines around the end of an hour, a file that cannot be opened | a line is not in the file of an hour that was over; the console falls silent |
| metrics, generated code, migrations, dashboards, scripts | | | | not part of the model |

The parts interact through two Kafka topics (`transactions` from the gateway to
the engine, `fraud_results` from the engine to the persistence service and the
notifier, each with its own consumer group), through Redis (gateway keys,
breaker keys, velocity) and through one gRPC call (engine to risk service).
Nothing is shared in memory between services; inside the engine the goroutines
share the pool's channels and the schema `Once`, inside the gateway the calls
share the mutex of the producer.

## 2. Modules

| module | models | state and actions |
|---|---|---|
| `ConsumerGroup` | what the Kafka consumer group does for the three consumers, as the code uses it through kafka-go: assignment, in-order delivery from the position, commits that may fail although carried out, crashes, stops | `committed`, `position`, `owner` per partition; `Deliver`, `CommitMessages`, `Assign`, `LeaveByCrash`, `ToldToStop`, `LeaveByStop` |
| `AtLeastOnce` | the contract of a consumer stage: messages reach an outcome and keep it; only a crash makes some unreachable, at most `Window` each; every other message reaches an outcome | `settled`, `lost`, `crashes`; `Resolve`, `Crash` |
| `Notifier` | the result notifier | `phase`, `cur`, `attempt` are the program counter and locals of `Run`, `handle`, `publishWithRetry`; `routed`, `parked`, `abandoned` are the history of outcomes |
| `Persistence` | the persistence service | `batch`, `bad`, `unsent`, `attempt`, `phase` are the locals of `Run` and `processBatch`; `rows` is the table |
| `FraudEngine` | the pipeline of the fraud engine | `fetched` is the message the loop holds while it waits for a slot, `jobs` the goroutines, `schema` what the `Once` left behind |
| `CircuitBreaker` | the breaker | `state`, `failures`, `successes` are the Redis keys, `pc` the next command of each caller |
| `Gateway` | SubmitTransaction | `stage`, `answer`, `original` of each call, `claim` the Redis keys, `hasSchema` and stage `"fetching"` the producer's cache and mutex, `writing`, `enqueued` the topic, `kafkaUp` whether it answers |
| `AuthCache` | the lookup of an API key | `status` the rows, `entry` the cache, `writes` SETs on their way, `lookup`, `found` the requests; `since`, `waited` measure time |
| `Provisioning` | ProvisionClient | `row`, `scram`, `topic`, `acls` what exists; `progress`, `at` the attempts; `pending` requests whose sender gave up |
| `RateLimiter` | the limiter of one client | `current`, `idle` the map's entry, `tokens` the buckets, `hand` what each call took from the map; `credit` is the history |
| `Lifecycle` | `main` of the five services | `phase`, `pos` the program counter, `handled` the signal handler, `open` the resources, `work`, `probe` what is in flight, `outage`, `held` what Kafka does to the gateway's writes |
| `Configuration` | the loaders of the five services, one number at a time | `file[s]` the text in the file of service `s`, `env` the variable all of them read, `launched` what each process has, `fresh` the processes that loaded what is written down now |
| `Logging` | the rotating writer and the console switch | `bucket`, `openFile`, `holder` of the writer, `line` of each goroutine, `files` |
| `Velocity` | `Record` for one card and one window | `scores`, `values`, `uniques`, `ttl`, `lives` the Redis keys and their time to live, `stage` the next command of each delivery; `last`, `added`, `dropped`, `unkept`, `cut` the history of what was added and of what no EXPIRE kept |
| `Decision` | the pure functions: validator, rules, features, score, decision, names and numbers of enums | none; operators |
| `Screening` | one transaction from the request to the answer about its status, by the functions of `Decision` | `config` the thresholds of the two services and the fallback, `event`, `features`, `verdicts`, `row`, `answer` |
| `ConsumerGroupProofs` | lemmas about the consumer group and about finite sets, for the proofs of its three readers | |
| `NotifierProofs`, `PersistenceProofs`, `FraudEngineProofs`, `GatewayProofs`, `BreakerProofs` | the theorems of section 5 about the module of that name | |
| `EdgeProofs` | the theorems about `AuthCache`, `Provisioning`, `RateLimiter`, `Lifecycle`, `Configuration`, `Logging`, alone and side by side | |
| `ScreeningProofs` | the theorems about `Velocity`, `Screening` and the functions of `Decision` | |
| `MC*` | values of the constants for TLC; `MCGatewayEdge` and `MCScreening` also put several modules into one run | |

`Notifier`, `Persistence` and `FraudEngine` extend `ConsumerGroup`, so that one
account of Kafka serves all three, and each is checked against `AtLeastOnce`
under a refinement mapping of its own: the window is 0 for the notifier, a batch
less one for the persistence service, a pool less one for the engine.
`Screening` extends `Decision`. `MCGatewayEdge` unites `AuthCache`,
`Provisioning`, `RateLimiter`, `Lifecycle`, `Configuration` and `Logging`,
`MCScreening` unites `Velocity` and `Screening`: the united modules have no
variable in common, a variable `part` says which of them moves in a behaviour, and
the others stay in an initial state, so that the state spaces add up instead of
multiplying. The fairness of a module applies to the behaviours in which it moves.

### How they correspond to the code

* **Kafka.** A message is its number, and messages of a partition are delivered
  in the order of their numbers. `position` lives with the group: a partition
  that is assigned again is read from its committed offset. A replica that loses
  a partition keeps what it has in hand and commits it; the commit is carried
  out, fails, or fails after it was carried out. A late commit may therefore move
  the offset back. A restarted process is the same replica, idle until the group
  assigns it a partition.
* **Outcomes.** A message is *settled* when its result was published, stored or
  parked in a DLQ, or when the handler reported an error in the log. The last is
  generous on purpose: the passing runs ask whether a message can vanish without
  any trace, the violation runs (section 4) hold the code to its own stricter words.
* **Errors** of Kafka, Redis, PostgreSQL and the schema registry are free
  choices at every call, and an error of a write leaves open whether the write
  took effect.
* **Notifier.** `Fetch` contains decoding and `ResolveTopic`: whether a message
  decodes and names a valid client is a property of the message (`Unroutable`).
  One `WriteMessages` counts as one copy; repetitions inside the Kafka client are
  not counted.
* **Persistence.** Under a cancelled context the upsert fails at once and its
  retries end (`StartFlush`, `UpsertFails`). `UpsertBatch` sends one pgx batch, an
  implicit transaction: all rows or none. A row that a CHECK of the table rejects
  is an `UpsertFails` that repeats. The key of the table is the transaction.
* **Fraud engine.** `Dispatch` contains `handle` up to the features: a failure of
  Redis in there is replaced by neutral values. The risk call ends with a
  score or the fallback, whichever way. `SchemaCached` and `SchemaFailed` are the
  two outcomes of the `Once` and exclude each other for the life of a process.
  Velocity counters are in `Velocity`, rules, features and verdicts in `Screening`.
* **Circuit breaker.** A missing state key is `HALF_OPEN`, as `getState` reads
  it; this is also the initial state. Every GET, INCR, SET and DEL is a step; the
  EXPIRE after an INCR is merged with it. A refused `Allow` changes nothing and
  is a stuttering step. Counters saturate at their thresholds, which is all that
  the comparison sees.
* **Gateway.** A call is also the transaction id it draws. Rate limiter and
  validator are the choice of `Receive`; their own rules are in `RateLimiter` and
  `Decision`. `ClaimExists` includes the call's own
  key, because the Redis client repeats a command whose reply is late.
  `LateWrite` is the batch of the Kafka writer that outlives a cancelled call. A
  key does not expire while its own call is at work (24 hours), unless that call waits
  for Kafka. It may wait for as long as an outage lasts: the writer tries a batch
  `Retries + 1` = 2^31 times (`kafka/producer.go:86`, `src/config/api-gateway.yaml:154`),
  `delivery_timeout_ms` is the time limit of one write to a socket, and the server sets
  no deadline. `Deadlined` are the calls whose client did.
* **Authentication.** `Hit` and `Miss` are the GET, `Query` the SELECT with the
  sending of the SET, `Answer` the return of `trySet`. A SET takes effect within
  `Delay` of being sent, in any order with others and also after its sender's
  timeout, or never. A row that is missing and one that is not active are one
  status, because no caller can tell them apart.
* **Provisioning.** An attempt stands for the key and the password it draws. A step
  that fails did nothing, took effect although the caller saw a timeout (at any
  later time: `LandsLate`), or, for the ACLs, granted one of two. The operator's
  clean-up is the deletion of the row that the messages recommend, and only after
  the attempt has ended. There is no deletion of keys that were handed out.
* **Rate limiter.** The two lines of `Allow` are `LookUp` or `Create`, then `Grant`
  or `Exhausted`; the cleanup runs in between or not. The bucket of
  `golang.org/x/time/rate` is modelled from its contract, in whole tokens and ticks.
* **Processes.** `Boot`, `Closing` and `Uses` are read off the five `main`
  functions. Of the readiness probes only the gateway's is modelled (see section 7).
  The gateway's `GracefulStop` and the `Close` of its producer (`main.go:269-274`) have
  no deadline, so that in an outage of Kafka they wait for calls (`work`) and for the
  batch of a call that is over (`held`).
* **Configuration.** A text is one of seven kinds (absent, empty, zero, negative, the
  number the code has built in, another positive number, not a number). Every service
  has a file of its own, which an operator edits alone; the environment is one for
  all, and a number has a variable where the shipped file names one (`Substituted`).
  As shipped, the files say what the code has built in, and that of the engine has no
  `decision_thresholds`. The gateway's number of Redis's port is the one of
  `src/config/redis.yaml`. Lists, strings and booleans are left out.
* **Logging.** The five copies of the file are the same program. A line stands for
  the hour in which it was logged.
* **Velocity.** The commands of `Record` are the actions, in their order; the sorted
  sets of a count rule and of an amount rule get the same commands and are one
  here. A pipeline that fails was carried out up to some point. Sorted set, hash and
  each bucket of merchants expire on their own. The engines' clocks
  agree and a HyperLogLog counts exactly: neither holds in production, and the
  properties are about the code and not about these errors. Redis evicts no key
  (`src/config/redis.yaml:203-204` allows it under memory pressure), and the
  `max_members_per_key` of `redis.yaml:112-128` is read by no code.
* **Decision.** Integers of TLC have 32 bits, so amounts end at 10^9 and the upper
  limit of an amount (`amount_max_minor`) is out of reach. Weights are in hundredths,
  logarithms come from a table in thousandths, and a normalised value of 1 is the
  number `One`, which all caps divide. A merchant risk that Redis holds as `NaN`
  passes every comparison of the scorer and ends as a score of 100. The
  contributing factors, which the engine does not read, and the card scheme are
  left out.
* **Screening.** `Evaluated` is a delivery up to the risk call, `Scored` and
  `FellBack` its two ends; `Persist` may be repeated and come in any order for
  several deliveries, which over-approximates `Persistence`.

## 3. Passing runs

| run | instance | distinct states | properties |
|---|---|---|---|
| `notifier` | 2 messages, the second unroutable, 1 partition, 2 replicas, 2 attempts, 1 crash, 2 rebalances or stops | 130,974 | `TypeOK`, `InOrder`, `CopiesBounded`, `NeverLoses`, `EveryMessageSettles` |
| `persistence` | 3 messages (two verdicts on one transaction, the third undecodable), 2 replicas, batches of 2, 2 attempts, 1 crash, 1 rebalance or stop | 721,250 | `TypeOK`, `OnlyPoisonOvertakes`, `NewestVerdictWins`, `LosesOnlyToCrashes`, `EveryMessageSettles` |
| `fraud_engine` | 3 messages, the third undecodable, pool of 2, 1 risk slot, 1 replica, 1 crash, 1 rebalance or stop | 126,830 | `TypeOK`, `WritesBounded`, `LosesOnlyToCrashes`, `EveryMessageSettles` |
| `gateway` | 3 calls with one key, 2 on a lenient gateway and 1 on a strict one, 1 of them with a deadline, 1 expiry, 1 crash, outages of Kafka | 163,930 | `TypeOK`, `OneTransactionPerClaim`, `DuplicateNamesClaimant`, `EveryCallEnds` |
| `breaker` | 3 callers, thresholds 2 and 2, 1 failing command or crash, 1 expiring counter | 358,582 | `TypeOK`, `NoSpuriousOpen`, `Recovers`, `TripsInOutage` |
| `gateway_edge` | authentication: 2 requests with one key, TTL 2, delay 1; provisioning: 3 attempts; limiter: 2 calls, 3 buckets, rate 1, burst 2, idle limit 3; each of 5 services with 2 pieces of work; each number of the configuration in the files of the services that read it; 2 goroutines that log through 3 hours | 197,149 | `EdgeTypeOK`, `VerdictsAreFresh`, `StatusTakesEffect`, `RepliesHold`, `RateBound`, `WorkFindsResourcesOpen`, `ExitFinishesWork`, `StopsWhenTold`, `LoadersAgree`, `LinesFindTheirHour` |
| `screening` | velocity: 3 deliveries of 2 transactions, window 2, bucket 2, a call takes up to 2 of 4 ticks; screening: 2 deliveries of one transaction, over the listed requests, velocities, merchant risks and thresholds | 2,366,017 | `ScreenTypeOK`, `CountsTheWindow`, `SumsTheWindow`, `UniqueInBucket`, `ScoreIsMonotone`, `VerdictsKeepOrder`, `RulesMatchFeatures`, `AnswersAreVerdicts` |

What they show:

* **Notifier.** No message is passed by a committed offset before it was routed,
  parked or given up with an error in the log, even while two replicas both
  believe to own a partition (`InOrder`, `NeverLoses`). A delivery makes at most
  `max_attempts` copies (`CopiesBounded`). No failure blocks the loop
  (`EveryMessageSettles`).
* **Persistence.** Messages are lost only in a crash, fewer than a batch, and the
  only way a committed offset passes a message without an outcome is the commit
  of an undecodable one behind it. After a replay the table holds the newest
  verdict once the service has caught up (`NewestVerdictWins`), with exceptions that
  the property names: a partition that moved, because the former owner may write
  its old batch last; verdicts of one transaction in several partitions, because
  the engine's writer balances by `LeastBytes`; a verdict that went to the DLQ; and a
  second crash while the first replay is under way and an undecodable message has
  overtaken it, which leaves the older verdict in the row for good.
* **Fraud engine.** A crash loses at most the pool less one; a stop loses nothing,
  because `Run` waits for the pool. Offsets that move back never cause a
  republication by themselves: only a crash, stop or rebalance does.
* **Gateway.** Each claim of a key, each expiry and each call that went on without
  a claim admits at most one transaction. A call may be told to be the duplicate of
  itself, after a SET NX that the Redis client repeated: `DuplicateNamesClaimant`
  excepts it, and the transaction is then never enqueued. Nobody waits forever for
  Redis or the mutex, and not behind a write that hangs either; a call ends if its
  client set a deadline or if Kafka answers from some time on (`EveryCallEnds`). In an
  outage that lasts, a call without a deadline does not end.
* **Breaker.** The circuit does not open before `failure_threshold` calls failed
  (since the start: successes do not reset the count), it opens again and again
  while the service is down, although a slow success can write CLOSED over OPEN,
  and it closes for good after the service recovered.
* **Authentication.** Nothing invalidates the cache, and yet no answer is older
  than the TTL and the delay of a SET (`VerdictsAreFresh`): a late SET of an old
  status starts a whole TTL, but not a second one. A status that stays is honoured
  in the end (`StatusTakesEffect`). An error of the database denies.
* **Provisioning.** What a success or the text of a failure says to exist does
  exist and belongs to that caller (`RepliesHold`), because the row is a lock: only
  its holder goes on to Kafka. The exception, which the property names, is a request
  for the credential that outlives its attempt and the deletion of its row: it
  replaces the password of the next attempt.
* **Rate limiter.** Dropping a bucket and starting with a full one grants nothing
  that one bucket would not have granted, because the idle limit is longer than a
  bucket takes to fill; a call that sleeps that long between the two lines of
  `Allow` uses a bucket that is no longer the client's (`Straggler`), and such calls
  are outside of `RateBound`.
* **Processes.** Accepted work is finished before the exit and finds its resources
  open. Exceptions named in the properties: a server of the gateway or of the risk
  service that fails ends the process at once, the gateway already serves before it
  handles signals, and a probe may find a closed pool after 30 seconds of drain. A service
  that is told to stop stops (`StopsWhenTold`), but the gateway does not while Kafka
  is down and a call without a deadline, or a batch, waits for it; it stops when the
  outage ends.
* **Configuration.** However files, environment and restarts go, no process has a zero
  where `applyDefaults` knows a number for it. The risk service keeps every zero but
  that of its port, and the gateway keeps a zero in the numbers without a default
  (`GatewayBare`): these are unguarded. A burst or a rate of zero refuses calls,
  `idempotency.ttl_seconds` zero makes keys that never expire, an upper limit of zero
  rejects every amount or id, a port of zero is no Redis, or a gRPC server on a random
  port; a threshold of zero stands in the risk service, whose `max_concurrent_streams`
  of zero means no limit (`cmd/main.go:77`) and whose `request_timeout_ms` nobody reads.
  Such a zero is in force only if it was written down, or if the gateway was told
  nothing. Two services that read one number from files of their own (thresholds in
  engine and risk service, the ports of Redis and Postgres) have the same value where
  the files mean the same, unless that is an explicit 0. Where one file was edited
  alone they differ, and nothing notices (section 4).
* **Logging.** A rotation that failed is tried again by the next line, so no line is
  put in the file of an earlier hour; after `stopConsole` at most the lines under way
  reach the terminal.
* **Velocity.** A redelivery is counted once, no interleaving with the pruning of
  other deliveries loses a transaction of the window (`CountsTheWindow`), except one
  whose own EXPIRE was not sent or came too late: when the EXPIREs of earlier
  deliveries failed as well, the set is about to expire when the transaction is added
  and takes it along (it takes four deliveries; `unkept`). An amount
  is missing from the sum only if the hash expired in a delivery that took long
  between its HSET and its EXPIRE, or if its own delivery is still at work or failed
  (`SumsTheWindow`). The merchants a delivery reads are all that were added to the
  bucket it began in, its own among them, although PFADD and EXPIRE are two commands,
  the bucket may end meanwhile and its key expires: an EXPIRE of two buckets is long
  enough (`UniqueInBucket`), one of a single bucket would not be. A bucket that a pipeline
  was cut in, between its first PFADD and the EXPIRE, lives until somebody adds to it
  again, and for ever if nobody does.
* **Screening.** The score grows with every feature, beyond the caps and below zero
  too, except for a `NaN`. Two deliveries of one transaction may be decided by two
  services, one by its score and one by the fallback: the lower score never gets the
  harder verdict, unless both scores lie where the thresholds of the two files differ
  (`VerdictsKeepOrder`). Only the fallback can be outside 100..1000, as no code limits
  it; the table then refuses the result, which goes to the DLQ, and the status stays
  PENDING. That the fallback is a REVIEW, as `src/config/fraud-rules.yaml:48-49` and
  `src/config/fraud-engine.yaml:138` say ("never auto-DECLINE"), is a matter of the
  shipped numbers alone: `scoreToDecision` declines a fallback above `decline_above`,
  and `fallback_decision` is not read. Features and
  rules tell of the same signs; a status answer is one verdict, never the decision
  of one delivery with the score of another, and goes to the owner alone.

**Bounds.** Every bound is a constant: `N` messages, `MaxCrashes`, `MaxMoves`
(rebalances of an owned partition and stops), `MaxAttempts`, `MaxFaults`,
`MaxExpiries`, the sets of replicas, calls and callers. Two replicas are needed
for a late commit of a former owner; one crash or one move for every replay.
One partition suffices for most properties, because messages of different
partitions only meet in a batch or a pool. Two messages show a successor passing
its predecessor, three a poison message behind a batch of two, or a pool with one
message waiting. The engine was also checked with two replicas and three messages
for the loss bound alone; the larger instance takes too long for the liveness
property. Two attempts distinguish the first from the last. Thresholds of 2 let
an interleaving fall between the first count and the last, and three callers let
a late success, a late failure and a current call coexist.

`MaxWork`, `MaxTime`, `Slack`, `LastHour`, `TTL` and `Delay` bound `gateway_edge` and `screening`. Two
requests with one key show an old answer that lands after a newer one; a TTL of 2
and a delay of 1 tell "TTL" from "TTL and delay". Three attempts show one that
failed, one that replaced it and a stranger. Three buckets let each of two calls
hold a dropped one beside a current one; the idle limit exceeds the time to refill
by one, as little as `LimiterAssumption` allows without equality. Two pieces of work
show one that ends and one that stays. In `screening` three deliveries are a
transaction, its redelivery and another one of the card; a key lives as long as the
4 ticks, and two buckets of 2 end within them. `SYMMETRY` exchanges the two deliveries of
a transaction, which no action tells apart. Every request goes with the shipped
thresholds, one request with three other configurations: a threshold that is the
fallback and a score, the file of the risk service edited alone, thresholds that
cross with a fallback the table refuses. Services are not restarted with another file
within a behaviour; `Configuration` has that. The
requests vary one field at a time, and the fields that meet in a rule (amount with
currency, channel with MCC) together; velocities and amounts are chosen so that
some scores lie on the thresholds 350 and 650 themselves.

`CHECK_DEADLOCK FALSE` is set where the topic or the calls are finite: the system
ends when everything is handled and the budgets of crashes and moves are spent.
The breaker never stops and is checked for deadlock. In `gateway_edge` attempts end,
processes exit and clocks are bounded; in `screening` deliveries end.

**Fairness.** The loops go on (`WF` on fetching and handling per replica and,
in the engine, on the work of each replica's goroutines), because every call they
make returns or times out and a free slot or mutex goes to a waiter. The group
assigns a partition without owner. Flushing is fair because of the ticker. A
gateway call that was received goes on as far as the write to Kafka, because the
clients of Redis and the registry have timeouts; the write returns only if Kafka answers
or the client set a deadline. Receiving a call is not fair, and an outage may last. In the breaker
callers go on and the TTL of OPEN runs out. In the authentication a lookup goes on
once it missed, because the clients of Redis and PostgreSQL have timeouts; a SET
lands or is lost; time passes. Nobody has to send a request or change a row. In the
processes the work of the pipelines and of the risk service ends, because their calls
have timeouts and bounded attempts, that of the gateway only while Kafka answers; probes
end, and a shutdown goes on once it began; no signal has to come. Nothing is assumed of the outcome of
any call: each may fail every time.

## 4. Runs that refute a sentence of the repository

| run | sentence | what the code does |
|---|---|---|
| `gateway_retry` | `src/docs/API_SPEC.md:143` INTERNAL is "safe to retry" | the key stays claimed; the retry is answered ALREADY_EXISTS with a transaction that is never enqueued |
| `fraud_commits` | `src/config/fraud-engine.yaml:35` "manual commit after full pipeline completes" | a later message's goroutine commits past an earlier one that is still at work |
| `notifier_skips` | `result-notifier/internal/pipeline/processor.go:95` "Commit only after the message is either successfully routed or safely parked" | after a failed DLQ publish the commit of the next message passes the failed one |
| `persistence_commits` | `src/config/persistence-svc.yaml:14` "Commit Kafka offset only after successful DB write (or DLQ publish)" | an error of the DLQ publish is logged and the batch committed |
| `breaker_closes` | `fraud-engine/internal/circuitbreaker/breaker.go:85` "once successThreshold consecutive successes are recorded" | a failure in between does not clear the counter |

Other places where code and text differ, met on the way and not tied to a run: the
idempotency key is not per client; the producers balance by `LeastBytes` while
comments say that `card_hash` selects the partition; the failures counted towards
OPEN need not be consecutive (`src/config/fraud-engine.yaml:135`); a stored verdict
can be overwritten although
`src/db/migrations/002_add_decision_column.sql:7` calls it immutable.

Met in the parts that guard the way in:

* `rate_limiting.enabled` is never read, nor are `supported_transaction_types` and
  `supported_channels`: every number of an enum but 0 passes and is stored as
  `unknown`.
* A currency in small letters passes the validator and reaches the engine as it was
  written, where it is foreign and gets the default threshold.
* A client id may have 200 characters in the validator and 64 in the table.
* `src/config/api-gateway.yaml:154-155` says of the producer "retry until
  delivery_timeout_ms" and "30 s hard cap per produce attempt". The code makes 2^31
  attempts, without regard to `delivery_timeout_ms`, which is the time limit of one
  write to a socket (`kafka/producer.go:86-87`): a produce has no cap.
* The gateway begins to serve before `signal.Notify`; its `GracefulStop` has no
  deadline and uses up the 30 seconds meant for the HTTP server, or waits out an outage
  of Kafka.
* `src/docs/API_SPEC.md:48` and `:144` promise UNAVAILABLE when PostgreSQL or Redis is
  down during authentication. It is so for PostgreSQL; without Redis `auth/cache.go:69-71`
  asks the table and answers by it.
* `src/config/redis.yaml:209-212` wants a call refused (503) when Redis is out of memory; a
  gateway whose `on_redis_unavailable` is not `reject` lets it go on without a claim.
* Which step of a provisioning failed is only in the log; the caller learns no more
  than that one did (`gateway/admin_handler.go:75-81`).
* `src/config/risk-service.yaml:70-72` says that its thresholds "must match" those of
  `fraud-rules.yaml`, the "single source of truth". No code reads them there, none
  compares: the engine has its built-in ones, as `fraud-engine.yaml` has no
  `decision_thresholds`, and one file edited alone makes the services disagree.
* The Redis clients of the engine and the reader of the persistence service are
  never closed.
* An explicit zero is "not set" to four loaders and zero to the risk service; an
  empty environment variable counts in the gateway alone.
* A negative `max_attempts` makes the persistence service skip the write and report
  success.

Met in the decision and the velocity store:

* `src/config/fraud-rules.yaml` keeps the thresholds of HIGH_AMOUNT under a key that
  `NewEngine` does not read; the built-in ones are in force.
* The configured night is 1 to 4, the code's 0 to 4.
* Unique merchants and terminals are those of a fixed bucket of five minutes, not of
  the last five minutes; the hash of amounts is never pruned, only expired.
* A merchant risk of `NaN` lowers the score to its minimum.
* The configured weights of the risk model add up to 0.99.

## 5. Proofs

| module | theorem | statement |
|---|---|---|
| `NotifierProofs` | `TypeCorrect` | `Safety => []TypeOK` |
| | `HandledInOrder` | `Safety => []InOrder` |
| | `StrictlyAtLeastOnce` | `Safety => NeverLoses`: the notifier implements `AtLeastOnce!Safety` with a window of 0 |
| | `CopiesNeedDeliveries` | `Safety => []CopiesBounded` |
| `PersistenceProofs` | `TypeCorrect` | `Safety => []TypeOK`, with the limit of a batch |
| | `OnlyPoisonPasses` | `Safety => []OnlyPoisonOvertakes` |
| | `LossesNeedCrashes` | `Safety => LosesOnlyToCrashes`: it implements `AtLeastOnce!Safety` with a window of `MaxBatchSize - 1` |
| | `NewestVerdictStays` | `Safety => []NewestVerdictWins` |
| `FraudEngineProofs` | `TypeCorrect` | `Safety => []TypeOK`, with the limits of the pool and the semaphore |
| | `LossesNeedCrashes` | `Safety => LosesOnlyToCrashes`: it implements `AtLeastOnce!Safety` with a window of `PoolSize - 1` |
| | `WritesNeedDeliveries` | `Safety => []WritesBounded` |
| `GatewayProofs` | `TypeCorrect` | `Safety => []TypeOK`, with the exclusion by the producer's mutex |
| | `ClaimsAdmitOne` | `Safety => []OneTransactionPerClaim` |
| | `DuplicatesNameClaimant` | `Safety => []DuplicateNamesClaimant` |
| `BreakerProofs` | `TypeCorrect` | `Safety => []TypeOK` |
| | `NeverOpensEarly` | `Safety => []NoSpuriousOpen` |
| `EdgeProofs` | `AuthTypeCorrect`, `ProvisionTypeCorrect`, `LimiterTypeCorrect` | the type invariants of the three parts |
| | `AnswersAreFresh` | `AuthSafety => VerdictsAreFresh`, an action property |
| | `RepliesAreTrue` | `ProvisionSpec => []RepliesHold` |
| | `NeverExceedsRate` | `LimiterSpec => []RateBound` |
| | `WorkIsServed`, `WorkIsFinished` | `LifecycleSpec => []WorkFindsResourcesOpen`, `LifecycleSpec => []ExitFinishesWork` |
| | `LinesAreFiled` | `LoggingSpec => []LinesFindTheirHour` |
| | `LoadersMatch` | `ConfigSpec => []LoadersAgree` |
| | `PartsMoveAlone`, `EdgeTypesCorrect` | `EdgeSpec` implies the specification of each part, and `[]EdgeTypeOK` |
| `ScreeningProofs` | `VelocityTypeCorrect`, `ScreeningTypeCorrect` | the type invariants of both |
| | `CountsAreOfTheWindow`, `SumsAreOfTheWindow`, `MerchantsOfTheBucket` | `VelocitySpec => []CountsTheWindow`, `[]SumsTheWindow`, `[]UniqueInBucket` |
| | `VerdictsAreOrdered`, `SignsAgree`, `AnswersAreWhole`, `ScoresAreMonotone` | `ScreeningSpec => []VerdictsKeepOrder`, `[]RulesMatchFeatures`, `[]AnswersAreVerdicts`, `[]ScoreIsMonotone` |
| | `HalvesMoveAlone`, `ScreenTypesCorrect` | `ScreenSpec` implies both specifications, and `[]ScreenTypeOK` |

They hold for every number of messages, partitions, replicas, calls, keys,
gateways, callers, requests, attempts, buckets, deliveries and goroutines, every
assignment of messages to partitions and of calls and requests to keys and gateways,
every size of a batch, a pool and a window, every threshold and fallback score, TTL, delay, rate and
burst, and every bound on crashes, moves, expiries and faults. Every safety property
that a passing run checks is the statement of one of them.

They assume the types of the constants and no more than that, except:

* `NoOwner`, `None`, `NoBucket`, `Nobody` and `NoWriter` are not members of the sets
  they stand beside; the sets of calls, callers, goroutines, replicas where they are
  counted, transactions and deliveries are finite (`GroupAssumption`,
  `GatewayAssumption`, `BreakerAssumption`, `LoggingAssumption`, `VelocityAssumption`).
* `PersistenceAssumption` and `EngineAssumption`: a batch, a pool and the slots of risk
  calls are not empty (a zero is replaced by `applyDefaults`, a negative size of a pool
  panics at the start).
* `LimiterAssumption`: a bucket refills within the idle limit, which the configuration
  satisfies (2 seconds against 10 minutes).
* `VelocityAssumption`: a call of `Record` takes no longer than a window and no longer than
  a bucket, and no transaction is a delivery. The shortest window is a minute, a bucket
  is five. The
  Redis client gives up on each command after seconds, but nothing in the code limits
  their sum, so this is an assumption about the operation of Redis.
* `LogarithmAssumption`: the table
  of logarithms has no negative entry and grows. `WeightsFit`: the weights add up to no
  more than 1, which `scoring.New` refuses to exceed. `ScreeningAssumption`: the
  types of requests, instants, velocities, risks and thresholds. Nothing is assumed of
  the order of thresholds, of those of the two services, or of the fallback.

TLC evaluates the assumptions in the runs.

**Notifier.** `Behind(committed) \subseteq Settled` alone is not inductive: a
commit may move an offset to any message a replica has in hand, so one has to know
that everything before that message has an outcome. That in turn holds because
the message was delivered after its predecessors, and those were either behind the
position or in the owner's hand. `InOrder` has one conjunct for each of these:
the committed offset, the message about to be committed, what precedes a message
in hand *of any replica*, owner or not, and the position of an owned partition.
The invariant does not need a unique owner: a replica that lost its partition still
satisfies the third conjunct, because outcomes are never taken back. `TypeInv`
adds to `TypeOK` that a replica in phase `fetch` has nothing in hand. The proof
has a step for every action and, under it, one for every conjunct the action can
disturb; what actions have in common (`SameOffsets`, `HandsEmptied`, `CommitsDue`)
is factored into lemmas. The refinement follows: with `InOrder`, `Lost` is empty,
so the bound `0 * crashes` holds, `Settled` only grows, and a `Crash` of the
notifier is a `Crash` of the contract. `CopiesBounded` counts copies against
deliveries. `CopiesCounted` charges what is still to come as well: the attempts
every replica with the message in hand has left (`Coming`), and a whole delivery for a
partition that has yet to reach the message (`Unread`). Fetching turns the second into
the first; publishing turns an attempt into a copy; and only a crash, a rebalance or a
stop can bring the message back to its partition. A stop is counted when the replica
is told to stop but loses the partition later, so what it will cost is set aside
(`Cardinality(stopping)`).

**Persistence.** What a crash costs cannot be read off the state after it, when the
batch is gone. So `Accounted` says that there *is* a set `Dropped` of what crashes made
unreachable, at most `MaxBatchSize - 1` for each, such that everything behind an
offset is `Fine`: it has an outcome, or it is in `Dropped` or early in a batch
(`Exposed`), and an undecodable message behind it and no later than the offset
overtakes it. What lies behind the position of an owned partition, or before a
message in a batch, is fine or in that batch, and what a replica is about to commit
has an outcome (`CommitsDue`). A crash adds to `Dropped` all of the replica's batch but
the message that fills it (`Early`): a full batch is flushed before anything else is
fetched, so no undecodable message can have overtaken its last one.
`OnlyPoisonOvertakes` and the refinement both follow.

`NewestVerdictWins` is about rows, and speaks of histories in which no partition
moved; `SteadyInv` is accordingly `moves = 0 => Steady`. Then a batch is the owner's alone
and holds, in order and without a gap, what was read of a partition and can be stored
(`Gathered`, `InTurn`), so that the last upsert on a transaction is its newest
verdict in the batch. `RowsNewest` says that a row is older than a stored verdict only
after a crash and while that verdict is to be read again or is in a batch; `Gathered`
keeps the committed offset below it until then, unless an undecodable message passed
it, which is the exception the property names.

**Fraud engine.** The same argument with a pool instead of a batch, and with commits
in any order: `Accounted` asks for a set `Dropped` as above and for sets `Passed`, one
for each replica, of messages still in its hands that a later commit has passed. A
commit passes at most what is in the pool, less the message that is committed; hence
`PoolSize - 1`. A message that ends takes itself out of `Passed`, a crash moves
`Passed` to `Dropped`. A replica that loses its partition keeps its goroutines, and
they end with an outcome. `WritesCounted` charges writes like `CopiesCounted` does
copies: a goroutine before its write, a replica that waits for the pool with the
message, and the partition that has yet to deliver it are one write each.

**Gateway.** The bound on the topic is not inductive, because a call that holds
its key and has yet to write will add to the topic. `OnePerClaim` counts such
calls with those that wrote, leaves out the calls without a claim, and bounds
them by the number of times the key was claimed so far: its expiries, and one if
it is claimed now. `Claim` adds one to both sides, `Expire` moves one from the
second term to the first, and every other step admits no call (`AdmitsNone`). For
the duplicates, `Claimants` says that a call that holds a key, or was named to
another, is *standing*: on the topic, failed, dead, its own duplicate, or at work
and still the holder or already at its write. The last clause is what makes it inductive: a call at work
that no longer held its key could be told to be the duplicate of another.

**Breaker.** The failures key is compared with the calls that failed:
`failures` and the callers whose failure has yet to be recorded together never
exceed `failed`, until that saturates (`CountsFailures`). So a caller that reads
the threshold from its INCR proves that as many calls failed, and keeps that
knowledge until its SET (`OpensLate`).

**Authentication.** What a step admits or denies rests on a cache entry or an answer
of the table, so the invariant `KnowledgeAges` bounds the age of both: the row has
its present status now (`RowIsNow`); a SET under way and an answer not yet given are
no older than the ticks they were under way (`WritesAge`, `AnswersAge`), hence at
most `Delay`; and the age of what an entry says plus the time it has left is at most
TTL + Delay (`EntriesAge`). `Land` establishes the last from the second, `Tick` moves
one unit from one summand to the other. `VerdictFresh` draws the conclusion.

**Rate limiter.** `credit` is the level of an imagined bucket that is never dropped.
`Conserved` says that it covers the tokens of the bucket in the map, and is full when
there is none (`CreditCovers`); that it has grown with the time the entry was idle, so
that it is full when the cleanup may act (`CreditGrows`, from `Burst <= Rate * Refill`);
and that a call in `Allow` has slept at least as long as the entry was idle, and
holds the bucket of the map unless it is a straggler (`SleepersLag`). The last is
what excludes a grant from a dropped bucket that would count.

**Provisioning.** The row is the lock of the steps that follow: an attempt past the
insertion holds it, or its row was deleted after it ended (`RowHeld`). With that,
the credential is that of the holder once it was set, unless a late request of a
deleted attempt replaced it (`CredentialHeld`); topic and ACLs, once there, stay
(`KafkaReady`); and a request that is still to take effect belongs to an attempt
that ended in that very step (`LateOnesStand`).

**Processes.** `OrderlyStop`: there is no work during the start-up; until the first
resource is closed all are open; work is done when the closing begins (`DrainedFirst`);
the HTTP server that answers probes is the first to close, so that a probe outlives it
only past the deadline (`ProbeFirst`).

**Logging.** `LinesAge`: the goroutine that holds the mutex has seen an hour no earlier
than that of its line, and the open file is that of the hour it saw when it writes.
`TailBounded` counts the goroutines that decided to echo before `stopConsole` with the
lines that came after it.

**Configuration.** `LoadedAsFound`: a process that started since its file or the
environment was last changed has the value its loader makes of them, whatever became of
the files of others (`OwnFile`), and a process never has a zero its loader replaces.
`StartsWithZero` says when a loader leaves a zero; `LoadersAlike` compares two loaders of
one number, for each pair of services that share one (`SharedSettings`).

**Velocity.** `Timed` bounds the age of a delivery at work by `Slack`. For the counts,
`ScoresInv` says that a transaction has its last score or none, and that it has one,
and the set lives long enough, if its EXPIRE was in time and it is in the window. For
the sums, `AmountsKept` gives every score a date until which its amount is stored
(`StoredUntil`), which a delivery past its pruning extends to the end of its own
window; a hash that expires between an HSET and its EXPIRE is the exception
(`dropped`). Redis deletes lazily and in any order with the commands: the
proof has a step for each command and one for time. `BucketsKept` gives each bucket of
merchants an end, two buckets after its beginning: its key lives at least until then
once an EXPIRE was sent, and no delivery adds to it or reads it later, because a call
ends within a bucket (`CallsEndInTime`).

**Screening.** `ScreeningInv` ties the data together: the event is that of the request,
the features are built from the event, a verdict is that of some score, the row that of
one verdict. The rest are lemmas about the functions of `Decision` for all their inputs:
`Clamp` and the logarithm grow, so the sum with weights that are not negative grows,
and so does its rounding; where the thresholds of the services agree on a score they
give it one decision, and a decision does not soften as a score grows; a feature of
`Build` is set exactly when its rule of `Evaluate` triggers.

**Side by side.** The runs `gateway_edge` and `screening` unite modules that share no
variable. `PartsMoveAlone` and `HalvesMoveAlone` say that this adds no behaviour to a
part, so that the runs check the parts, and the theorems hold in the runs.

Only model-checked: liveness (`EveryMessageSettles`, `EveryCallEnds`, `Recovers`,
`TripsInOutage`, `StatusTakesEffect`, `StopsWhenTold`), because fairness, and with it
`ENABLED`, is beyond the prover.

Two properties that TLC had passed turned out to be too strong when their proofs
failed, and larger instances confirmed it: `NewestVerdictWins` did not except a second
crash behind an undecodable message, nor verdicts in several partitions, and
`CountsTheWindow` did not except a transaction whose EXPIRE failed. Both now name
the exception; section 3 tells what it means for the service. The first was checked
again with two crashes on three messages in one partition and four in two (4.2
million states), the second with four deliveries.

## 6. Plan

Done: 1. `ConsumerGroup`, `AtLeastOnce`, `Notifier` and its proofs;
2. `Persistence`; 3. `FraudEngine`; 4. `CircuitBreaker`; 5. `Gateway`;
6. `AuthCache` and `Provisioning` with their proofs; 7. `Decision`, `Screening` and
`Velocity`; 8. `RateLimiter` with its proof; 9. `Lifecycle`, `Configuration` and
`Logging`; 10. proofs of the types and the loss bounds of `Persistence` and
`FraudEngine`, of `NewestVerdictWins`, `WritesBounded` and `CopiesBounded`; 11. proofs
about `Lifecycle`, `Logging`, `Configuration`, `Velocity` and `Screening`.

Next:

12. `Pipeline`: gateway, engine, persistence and notifier composed over the two
    topics on a tiny instance, to follow one transaction from its acknowledgement to
    its row and its client.
13. A claim of the gateway as an abstract lock, and the refinement of it by `Gateway`,
    step by step as for `AtLeastOnce`.

## 7. Not modelled, and why

* Payloads, hashing and masking of card numbers, timestamps of answers, conversions
  of columns without a rule, backoff delays, metrics, log levels and encodings, TLS:
  no property depends on them.
* Generated code (`proto-gen`): message types and stubs. Only the numbers of the
  enums, which cross three services by casts, are in `Decision`. It is about a
  third of the repository's Go code and has no logic of its own.
* Lists, strings and booleans of the configuration: they have no boundary at which
  the loaders differ.
* The readiness probes of the engine and the persistence service: the Redis clients
  that the former pings are never closed, and the server of the latter is closed at
  the signal, before the pool. Those of the notifier and the risk service ping
  nothing.
* `Wait` of the limiter, which no handler calls.
* Migrations, infrastructure, dashboards, demo tools and scripts: SQL and
  configuration of other programs. The key of the table and its CHECKs are taken
  into account where an upsert is modelled.
* Kafka brokers, Redis, PostgreSQL and the schema registry themselves: they appear
  as the outcomes their callers can see.
