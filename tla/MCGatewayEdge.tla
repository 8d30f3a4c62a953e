----------------------------- MODULE MCGatewayEdge -----------------------------
(***************************************************************************)
(* The parts of the system that guard the way in: authentication, client   *)
(* provisioning, rate limiting; and what all the processes have in common: *)
(* their start and stop, their configuration and their logger.             *)
(* They share no state, so each behaviour moves one of them and leaves the *)
(* others in an initial state: their state spaces add up instead of        *)
(* multiplying.                                                            *)
(***************************************************************************)
EXTENDS Provisioning, AuthCache, RateLimiter, Lifecycle, Configuration, Logging,
        TLC

CONSTANTS a1, a2, a3, k1, q1, q2, c1, c2, b1, b2, b3, g1, g2

VARIABLE part         \* the part of the system this behaviour is about

edgeVars == <<provisionVars, authVars, limiterVars, lifeVars, configVars,
              loggingVars, part>>

MCKeyOf == q1 :> k1 @@ q2 :> k1

AuthRests == /\ AuthInit /\ \A k \in Keys : status[k] = "active"
LifeRests == LifecycleInit /\ service = "gateway"
ConfigRests == ConfigInit /\ setting = "worker_pool_size"

EdgeTypeOK == /\ ProvisionTypeOK /\ AuthTypeOK /\ LimiterTypeOK /\ LifecycleTypeOK
              /\ ConfigTypeOK /\ LoggingTypeOK

EdgeInit ==
    /\ part \in {"provisioning", "authentication", "limiter", "lifecycle", "configuration",
                "logging"}
    /\ ProvisionInit /\ LimiterInit /\ LoggingInit
    /\ IF part = "authentication" THEN AuthInit ELSE AuthRests
    /\ IF part = "lifecycle" THEN LifecycleInit ELSE LifeRests
    /\ IF part = "configuration" THEN ConfigInit ELSE ConfigRests

EdgeNext ==
    /\ UNCHANGED part
    /\ \/ /\ part = "provisioning" /\ ProvisionNext
          /\ UNCHANGED <<authVars, limiterVars, lifeVars, configVars, loggingVars>>
       \/ /\ part = "authentication" /\ AuthNext
          /\ UNCHANGED <<provisionVars, limiterVars, lifeVars, configVars, loggingVars>>
       \/ /\ part = "limiter" /\ LimiterNext
          /\ UNCHANGED <<provisionVars, authVars, lifeVars, configVars, loggingVars>>
       \/ /\ part = "lifecycle" /\ LifecycleNext
          /\ UNCHANGED <<provisionVars, authVars, limiterVars, configVars, loggingVars>>
       \/ /\ part = "configuration" /\ ConfigNext
          /\ UNCHANGED <<provisionVars, authVars, limiterVars, lifeVars, loggingVars>>
       \/ /\ part = "logging" /\ LoggingNext
          /\ UNCHANGED <<provisionVars, authVars, limiterVars, lifeVars, configVars>>

\* The fairness of each part speaks of its own behaviours; a part that rests
\* has no step to be fair to.
EdgeSpec ==
    /\ EdgeInit /\ [][EdgeNext]_edgeVars
    /\ part = "authentication" => AuthFairness
    /\ part = "lifecycle" => LifecycleFairness
================================================================================
