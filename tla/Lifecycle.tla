------------------------------- MODULE Lifecycle -------------------------------
(***************************************************************************)
(* main of the five services: the steps of the start-up and what an error  *)
(* in them does, the moment from which work is accepted, the moment from   *)
(* which a signal is handled, and the order in which work is drained and   *)
(* resources are closed.  Work is a gRPC call (gateway, risk service) or a *)
(* message in the hands of a pipeline (engine, persistence, notifier).     *)
(***************************************************************************)
EXTENDS Naturals, Sequences

CONSTANT MaxWork      \* bound: pieces of work in flight

ASSUME LifecycleAssumption == MaxWork \in Nat \ {0}

Services == {"gateway", "engine", "persistence", "notifier", "risk"}

\* The steps of the start-up that can fail.
GatewayBoot     == <<"config", "logger", "hasher", "pgPool", "redisPing", "validator", "listen">>
EngineBoot      == <<"config", "logger", "velocityRedis", "merchantRedis", "breakerRedis",
                     "rules", "riskClient", "processor">>
PersistenceBoot == <<"config", "logger", "pgPool", "pgPing">>
NotifierBoot    == <<"config", "logger">>
RiskBoot        == <<"config", "logger", "scorer", "listen">>

Boot == [gateway |-> GatewayBoot, engine |-> EngineBoot, persistence |-> PersistenceBoot,
         notifier |-> NotifierBoot, risk |-> RiskBoot]

\* The gateway only warns when Redis does not answer; all else ends the process.
Tolerated(s, step) == s = "gateway" /\ step = "redisPing"

\* What is closed after the drain, in that order.  The Redis clients of the
\* engine and the reader of the persistence service are never closed.
Closing == [gateway     |-> <<"http", "producer", "idStore", "authCache", "authStore">>,
            engine      |-> <<"reader", "writer", "riskClient">>,
            persistence |-> <<"dlq", "pgPool">>,
            notifier    |-> <<"reader", "writer", "dlq">>,
            risk        |-> <<>>]

\* What a piece of work uses.
Uses == [gateway     |-> {"authCache", "authStore", "idStore", "producer"},
         engine      |-> {"reader", "writer", "riskClient"},
         persistence |-> {"dlq", "pgPool"},
         notifier    |-> {"reader", "writer", "dlq"},
         risk        |-> {}]

\* What a readiness probe of the gateway pings.
ProbeUses == {"authStore", "authCache", "idStore"}

Resources == {"http", "producer", "idStore", "authCache", "authStore", "reader",
              "writer", "riskClient", "dlq", "pgPool"}

Entries(seq) == {seq[i] : i \in DOMAIN seq}

VARIABLES service,    \* the service at hand
          phase,      \* "boot", "up", "draining", "closing" or "exited"
          pos,        \* steps done in this phase
          handled,    \* whether signal.Notify was called
          open,       \* resources not closed yet
          work,       \* pieces of work in flight
          probe,      \* whether a readiness probe of the gateway is in flight
          late,       \* whether shutCtx (30 s from the signal) has expired
          outage,     \* whether Kafka leaves the gateway's writes unanswered
          held,       \* whether the gateway's producer holds a batch whose call is over
          cause       \* why the process ended

kafka == <<outage, held>>
lifeVars == <<service, phase, pos, handled, open, work, probe, late, kafka, cause>>

Causes == {"none", "startup", "signal", "early signal", "serve error"}

LifecycleTypeOK ==
    /\ service \in Services
    /\ phase \in {"boot", "up", "draining", "closing", "exited"}
    /\ pos \in 0 .. 8 /\ handled \in BOOLEAN /\ open \subseteq Resources
    /\ work \in 0 .. MaxWork /\ probe \in BOOLEAN /\ late \in BOOLEAN
    /\ outage \in BOOLEAN /\ held \in BOOLEAN /\ cause \in Causes

LifecycleInit ==
    /\ service \in Services /\ phase = "boot" /\ pos = 0 /\ handled = FALSE
    /\ open = {} /\ work = 0 /\ probe = FALSE /\ late = FALSE
    /\ outage = FALSE /\ held = FALSE /\ cause = "none"

Exits(why) == phase' = "exited" /\ cause' = why /\ UNCHANGED <<service, pos>>

-------------------------------------------------------------------------------
(* Start-up.                                                               *)

\* The next step succeeds, or fails and is only reported.
BootStep ==
    /\ phase = "boot" /\ pos < Len(Boot[service]) /\ pos' = pos + 1
    /\ UNCHANGED <<service, phase, handled, open, work, probe, late, kafka, cause>>

\* os.Exit(1) or log.Fatal.
BootFails ==
    /\ phase = "boot" /\ pos < Len(Boot[service])
    /\ ~Tolerated(service, Boot[service][pos + 1])
    /\ Exits("startup") /\ UNCHANGED <<handled, open, work, probe, late, kafka>>

\* What a bug would do: serve first and call signal.Notify later, everywhere.
StartUnhandled ==
    /\ phase = "boot" /\ pos = Len(Boot[service])
    /\ phase' = "up" /\ pos' = 0
    /\ open' = Entries(Closing[service]) /\ UNCHANGED handled
    /\ UNCHANGED <<service, work, probe, late, kafka, cause>>

\* The servers are started; in the gateway before signal.Notify, elsewhere the
\* signal is handled before the first call or message is taken.
Start ==
    /\ phase = "boot" /\ pos = Len(Boot[service])
    /\ phase' = "up" /\ pos' = 0
    /\ open' = Entries(Closing[service]) /\ handled' = (service # "gateway")
    /\ UNCHANGED <<service, work, probe, late, kafka, cause>>

Notify ==
    /\ phase = "up" /\ ~handled /\ handled' = TRUE
    /\ UNCHANGED <<service, phase, pos, open, work, probe, late, kafka, cause>>

-------------------------------------------------------------------------------
(* Service.                                                                *)

\* What a bug would do: go on taking calls or messages after the signal.
AcceptInDrain ==
    /\ phase \in {"up", "draining"} /\ work < MaxWork /\ work' = work + 1
    /\ UNCHANGED <<service, phase, pos, handled, open, probe, late, kafka, cause>>

Accept ==
    /\ phase = "up" /\ work < MaxWork /\ work' = work + 1
    /\ UNCHANGED <<service, phase, pos, handled, open, probe, late, kafka, cause>>

\* A call of the gateway may end because its client is gone; its batch is then
\* left to the producer, which tries as often as its MaxAttempts says.
Finish ==
    /\ phase # "exited" /\ work > 0 /\ work' = work - 1
    /\ held' \in {held, service = "gateway"}
    /\ UNCHANGED <<service, phase, pos, handled, open, probe, late, outage, cause>>

Delivered ==
    /\ phase # "exited" /\ held /\ ~outage /\ held' = FALSE
    /\ UNCHANGED <<service, phase, pos, handled, open, work, probe, late, outage, cause>>

\* Kafka stops or starts answering.
Outage ==
    /\ service = "gateway" /\ phase # "exited" /\ outage' = ~outage
    /\ UNCHANGED <<service, phase, pos, handled, open, work, probe, late, held, cause>>

\* /readyz is served until httpSrv.Shutdown, which is called after the drain.
ProbeArrives ==
    /\ service = "gateway" /\ phase \in {"up", "draining"} /\ ~probe /\ probe' = TRUE
    /\ UNCHANGED <<service, phase, pos, handled, open, work, late, kafka, cause>>

ProbeEnds ==
    /\ phase # "exited" /\ probe /\ probe' = FALSE
    /\ UNCHANGED <<service, phase, pos, handled, open, work, late, kafka, cause>>

\* log.Fatal or os.Exit(1): either server of the gateway, the gRPC server of
\* the risk service.  An error of any other server is logged.
ServeError ==
    /\ phase = "up" /\ service \in {"gateway", "risk"}
    /\ Exits("serve error") /\ UNCHANGED <<handled, open, work, probe, late, kafka>>

-------------------------------------------------------------------------------
(* Shutdown.                                                               *)

\* A signal that nobody handles ends the process at once.
EarlySignal ==
    /\ phase \in {"boot", "up"} /\ ~handled
    /\ Exits("early signal") /\ UNCHANGED <<handled, open, work, probe, late, kafka>>

\* No call or message is taken any more.  A second signal has no effect.
Signal ==
    /\ phase = "up" /\ handled /\ phase' = "draining" /\ pos' = 0
    /\ UNCHANGED <<service, handled, open, work, probe, late, kafka, cause>>

\* What a bug would do: Stop in place of GracefulStop, a Run that does not wait.
DrainedAtOnce ==
    /\ phase = "draining" /\ phase' = "closing"
    /\ UNCHANGED <<service, pos, handled, open, work, probe, late, kafka, cause>>

\* GracefulStop, or Run, returns: it waits for the work in flight, however long.
Drained ==
    /\ phase = "draining" /\ work = 0 /\ phase' = "closing"
    /\ UNCHANGED <<service, pos, handled, open, work, probe, late, kafka, cause>>

Deadline ==
    /\ service = "gateway" /\ phase \in {"draining", "closing"} /\ ~late /\ late' = TRUE
    /\ UNCHANGED <<service, phase, pos, handled, open, work, probe, kafka, cause>>

\* httpSrv.Shutdown waits for the probe, but no longer than shutCtx; the Close
\* of the producer waits for its batches, however long.
CloseNext ==
    /\ phase = "closing" /\ pos < Len(Closing[service])
    /\ Closing[service][pos + 1] = "http" => ~probe \/ late
    /\ Closing[service][pos + 1] = "producer" => ~held
    /\ open' = open \ {Closing[service][pos + 1]} /\ pos' = pos + 1
    /\ UNCHANGED <<service, phase, handled, work, probe, late, kafka, cause>>

\* main returns.
Return ==
    /\ phase = "closing" /\ pos = Len(Closing[service])
    /\ Exits("signal") /\ UNCHANGED <<handled, open, work, probe, late, kafka>>

LifecycleNext ==
    \/ BootStep \/ BootFails \/ Start \/ Notify
    \/ Accept \/ Finish \/ Delivered \/ Outage \/ ProbeArrives \/ ProbeEnds \/ ServeError
    \/ EarlySignal \/ Signal \/ Drained \/ Deadline \/ CloseNext \/ Return

\* A shutdown goes on where it need not wait.  The calls of a pipeline are
\* bounded by timeouts and attempts; a call of the gateway ends, and a batch is
\* delivered, if Kafka goes on answering: api-gateway.yaml has it try 2^31 times
\* and no server-side deadline ends the wait.
LifecycleFairness ==
    /\ WF_lifeVars(service # "gateway" /\ Finish)
    /\ WF_lifeVars(~outage /\ Finish) /\ WF_lifeVars(Delivered)
    /\ WF_lifeVars(ProbeEnds) /\ WF_lifeVars(Drained \/ CloseNext \/ Return)

LifecycleSpec == LifecycleInit /\ [][LifecycleNext]_lifeVars /\ LifecycleFairness

-------------------------------------------------------------------------------
(* Properties.                                                             *)

\* Work in flight never meets a resource that was closed, in any service and
\* at any point of the shutdown; a probe of the gateway only when the drain
\* and the probe together outlast the 30 seconds.
WorkFindsResourcesOpen ==
    phase \in {"up", "draining", "closing"} =>
        /\ work > 0 => Uses[service] \subseteq open
        /\ probe => ProbeUses \subseteq open \/ late

\* What was accepted is finished before the process ends, unless a server
\* failed, or the signal came while the gateway served but did not yet handle
\* signals (api-gateway/cmd/main.go:238-259).
ExitFinishesWork ==
    phase = "exited" /\ work > 0 =>
        \/ cause = "serve error"
        \/ cause = "early signal" /\ service = "gateway"

HeldByKafka == service = "gateway" /\ outage /\ (work > 0 \/ held)

\* A service that is told to stop stops, unless it is the gateway and Kafka
\* leaves it with a call or a batch: neither GracefulStop nor the Close of the
\* producer has a deadline (api-gateway/cmd/main.go:269-274).  When the outage
\* is over, it stops as well.
StopsWhenTold ==
    /\ phase = "draining" ~> (phase = "exited" \/ HeldByKafka)
    /\ <>[]~outage => (phase = "draining" ~> phase = "exited")
===============================================================================
