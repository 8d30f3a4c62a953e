------------------------------ MODULE EdgeProofs ------------------------------
(***************************************************************************)
(* Proofs about the parts of the system that share no state with any       *)
(* other: authentication, client provisioning and rate limiting at the     *)
(* edge of the gateway, and the start and stop, the logger and the         *)
(* configuration of all the processes.                                     *)
(*                                                                         *)
(* AuthTypeCorrect, ProvisionTypeCorrect, LimiterTypeCorrect: the type     *)
(*   invariants of the first three.                                        *)
(* AnswersAreFresh: nobody is admitted or denied on knowledge older than   *)
(*   the TTL and the delay of a SET, for any number of keys and requests.  *)
(* RepliesAreTrue: what a caller is told to exist does exist, for any      *)
(*   number of attempts to provision.                                      *)
(* NeverExceedsRate: the bucket that is never dropped is never overdrawn,  *)
(*   for any number of calls and buckets, any rate and burst, and any idle *)
(*   limit that is no shorter than the time a bucket takes to fill.        *)
(* WorkIsServed: accepted work meets no resource that was closed.          *)
(* WorkIsFinished: a process ends with work unfinished only after a server *)
(*   failed or by a signal that came before it was handled.                *)
(* LinesAreFiled: no line is in the file of an hour before its own.        *)
(* LoadersMatch: no zero reaches a service that it would stop, and two     *)
(*   services that loaded the same files judge by the same thresholds.     *)
(* PartsMoveAlone, EdgeTypesCorrect: where the parts are put side by side, *)
(*   each behaves as it does alone, and all keep their types.              *)
(***************************************************************************)
EXTENDS MCGatewayEdge, FiniteSetTheorems, TLAPS

-----------------------------------------------------------------------------
(* Authentication (AuthCache).                                             *)
LEMMA HorizonType == /\ Horizon \in Nat /\ TTL \in 1 .. Horizon /\ Delay \in Nat
                     /\ Delay < Horizon /\ TTL + Delay = Horizon
BY AuthAssumption DEF Horizon

LEMMA AuthInitType == AuthInit => AuthTypeOK
<1> SUFFICES ASSUME AuthInit PROVE AuthTypeOK
    OBVIOUS
<1> USE HorizonType DEF AuthInit, Statuses
<1>1. since \in [Keys -> [Statuses -> 0 .. Horizon + 1]]
    OBVIOUS
<1>2. entry \in [Keys -> [is : Statuses, left : 0 .. TTL]]
    BY DEF NoEntry
<1>3. waited \in [Requests -> 0 .. Delay]
    OBVIOUS
<1> QED
    BY <1>1, <1>2, <1>3 DEF AuthTypeOK, SetCommands

\* Aging keeps the type of since.
LEMMA OlderType ==
    ASSUME AuthTypeOK, NEW k \in Keys
    PROVE  Older(k) \in [Statuses -> 0 .. Horizon + 1]
<1>1. \A s \in Statuses : since[k][s] \in 0 .. Horizon + 1
    BY DEF AuthTypeOK
<1> QED
    BY <1>1, HorizonType DEF Older

LEMMA AuthNextType == AuthTypeOK /\ [AuthNext]_authVars => AuthTypeOK'
<1> SUFFICES ASSUME AuthTypeOK, [AuthNext]_authVars PROVE AuthTypeOK'
    OBVIOUS
<1>k. \A q \in Requests : KeyOf[q] \in Keys
    BY AuthAssumption
<1> USE DEF AuthTypeOK, Go, Verdicts
<1>1. ASSUME NEW q \in Requests, Hit(q) PROVE AuthTypeOK'
    BY <1>1 DEF Hit, Verdict
<1>2. ASSUME NEW q \in Requests, Miss(q) PROVE AuthTypeOK'
    BY <1>2 DEF Miss
<1>3. ASSUME NEW q \in Requests, Query(q) PROVE AuthTypeOK'
  <2>1. [key |-> KeyOf[q], is |-> status[KeyOf[q]], age |-> 0] \in SetCommands
      BY <1>k, HorizonType DEF SetCommands
  <2> QED
      BY <1>3, <1>k, <2>1 DEF Query
<1>4. ASSUME NEW q \in Requests, QueryFails(q) PROVE AuthTypeOK'
    BY <1>4 DEF QueryFails
<1>5. ASSUME NEW q \in Requests, Answer(q) PROVE AuthTypeOK'
    BY <1>5, HorizonType DEF Answer, Verdict, Statuses
<1>6. ASSUME NEW q \in Requests, Leave(q) PROVE AuthTypeOK'
    BY <1>6 DEF Leave
<1>7. ASSUME NEW w \in writes, Land(w) PROVE AuthTypeOK'
  <2>1. [is |-> w.is, left |-> TTL] \in [is : Statuses, left : 0 .. TTL]
      BY HorizonType DEF SetCommands
  <2>2. entry' \in [Keys -> [is : Statuses, left : 0 .. TTL]]
      BY <1>7, <2>1 DEF Land
  <2> QED
      BY <1>7, <2>2 DEF Land
<1>8. ASSUME NEW w \in writes, Lose(w) PROVE AuthTypeOK'
    BY <1>8 DEF Lose
<1>9. ASSUME NEW k \in Keys, Evict(k) PROVE AuthTypeOK'
  <2>1. entry' \in [Keys -> [is : Statuses, left : 0 .. TTL]]
      BY <1>9, HorizonType DEF Evict
  <2> QED
      BY <1>9, <2>1 DEF Evict
<1>10. ASSUME NEW k \in Keys, NEW s \in Statuses, SetStatus(k, s) PROVE AuthTypeOK'
  <2>1. since' \in [Keys -> [Statuses -> 0 .. Horizon + 1]]
      BY <1>10, HorizonType DEF SetStatus
  <2> QED
      BY <1>10, <2>1 DEF SetStatus
<1>11. CASE Tick
  <2>1. since' \in [Keys -> [Statuses -> 0 .. Horizon + 1]]
      BY <1>11, OlderType DEF Tick
  <2>2. entry' \in [Keys -> [is : Statuses, left : 0 .. TTL]]
    <3>1. \A k \in Keys : [entry[k] EXCEPT !.left = IF @ > 0 THEN @ - 1 ELSE 0]
                              \in [is : Statuses, left : 0 .. TTL]
        BY HorizonType
    <3> QED
        BY <1>11, <3>1 DEF Tick
  <2>3. writes' \subseteq SetCommands
    <3>1. ASSUME NEW w \in SetCommands, w.age < Delay
          PROVE  [w EXCEPT !.age = @ + 1] \in SetCommands
        BY <3>1, HorizonType DEF SetCommands
    <3> QED
        BY <1>11, <3>1 DEF Tick
  <2>4. /\ waited' \in [Requests -> 0 .. Delay]
        /\ \A q \in Requests : lookup'[q] # "set" => waited'[q] = 0
      BY <1>11, HorizonType DEF Tick
  <2> QED
      BY <1>11, <2>1, <2>2, <2>3, <2>4 DEF Tick
<1>12. CASE UNCHANGED authVars
    BY <1>12 DEF authVars
<1> QED
    BY <1>1, <1>2, <1>3, <1>4, <1>5, <1>6, <1>7, <1>8, <1>9, <1>10, <1>11, <1>12
       DEF AuthNext, Step

(* Every behaviour of the cache keeps the type invariant. *)
THEOREM AuthTypeCorrect == AuthSafety => []AuthTypeOK
BY AuthInitType, AuthNextType, PTL DEF AuthSafety
-------------------------------------------------------------------------------
(* What is known of a key was true a short time ago: the row had the       *)
(* status of an entry at most Horizon ticks before the entry runs out, the *)
(* status of a SET, and that of an answer of the table, at most as long    *)
(* ago as they are under way.                                              *)

RowIsNow == \A k \in Keys : since[k][status[k]] = 0

EntriesAge == \A k \in Keys : entry[k].left > 0 =>
                  since[k][entry[k].is] + entry[k].left <= Horizon

WritesAge == \A w \in writes : since[w.key][w.is] <= w.age

AnswersAge == \A q \in Requests : lookup[q] = "set" =>
                  since[KeyOf[q]][found[q]] <= waited[q]

KnowledgeAges == RowIsNow /\ EntriesAge /\ WritesAge /\ AnswersAge

LEMMA AuthInitAges == AuthInit => KnowledgeAges
<1> SUFFICES ASSUME AuthInit PROVE KnowledgeAges
    OBVIOUS
<1>1. RowIsNow
    BY DEF AuthInit, RowIsNow
<1>2. EntriesAge
    BY DEF AuthInit, EntriesAge, NoEntry
<1> QED
    BY <1>1, <1>2 DEF AuthInit, WritesAge, AnswersAge, KnowledgeAges

\* Nothing gets older by more than a tick at a tick; what the row is stays new.
LEMMA OlderByOne ==
    ASSUME AuthTypeOK, RowIsNow, NEW k \in Keys, NEW s \in Statuses
    PROVE  /\ Older(k)[s] <= since[k][s] + 1
           /\ Older(k)[status[k]] = 0
           /\ Older(k)[s] \in Int /\ since[k][s] \in Int
<1>1. since[k][s] \in 0 .. Horizon + 1 /\ status[k] \in Statuses
    BY DEF AuthTypeOK
<1> QED
    BY <1>1, HorizonType DEF Older

LEMMA AuthNextAges == AuthTypeOK /\ KnowledgeAges /\ [AuthNext]_authVars => KnowledgeAges'
<1> SUFFICES ASSUME AuthTypeOK, KnowledgeAges, [AuthNext]_authVars PROVE KnowledgeAges'
    OBVIOUS
<1>k. \A q \in Requests : KeyOf[q] \in Keys
    BY AuthAssumption
<1> USE DEF KnowledgeAges, RowIsNow, EntriesAge, WritesAge, AnswersAge, Go
<1>1. ASSUME NEW q \in Requests, Hit(q) PROVE KnowledgeAges'
    BY <1>1 DEF Hit, Verdict, AuthTypeOK
<1>2. ASSUME NEW q \in Requests, Miss(q) PROVE KnowledgeAges'
    BY <1>2 DEF Miss, AuthTypeOK
<1>3. ASSUME NEW q \in Requests, Query(q) PROVE KnowledgeAges'
  <2>1. WritesAge'
      BY <1>3, <1>k DEF Query, AuthTypeOK
  <2>2. AnswersAge'
      BY <1>3, <1>k DEF Query, AuthTypeOK
  <2> QED
      BY <1>3, <2>1, <2>2 DEF Query
<1>4. ASSUME NEW q \in Requests, QueryFails(q) PROVE KnowledgeAges'
    BY <1>4 DEF QueryFails, AuthTypeOK
<1>5. ASSUME NEW q \in Requests, Answer(q) PROVE KnowledgeAges'
    BY <1>5 DEF Answer, Verdict, AuthTypeOK
<1>6. ASSUME NEW q \in Requests, Leave(q) PROVE KnowledgeAges'
    BY <1>6 DEF Leave, AuthTypeOK
<1>7. ASSUME NEW w \in writes, Land(w) PROVE KnowledgeAges'
  <2>1. /\ w.key \in Keys /\ w.is \in Statuses /\ w.age \in 0 .. Delay
        /\ since[w.key][w.is] \in Int
      BY HorizonType DEF AuthTypeOK, SetCommands
  <2>2. since[w.key][w.is] + TTL <= Horizon
      BY <2>1, HorizonType
  <2>3. EntriesAge'
      BY <1>7, <2>1, <2>2 DEF Land, AuthTypeOK
  <2> QED
      BY <1>7, <2>3 DEF Land
<1>8. ASSUME NEW w \in writes, Lose(w) PROVE KnowledgeAges'
    BY <1>8 DEF Lose
<1>9. ASSUME NEW k \in Keys, Evict(k) PROVE KnowledgeAges'
    BY <1>9 DEF Evict, AuthTypeOK
<1>10. ASSUME NEW k \in Keys, NEW s \in Statuses, SetStatus(k, s) PROVE KnowledgeAges'
  <2>1. \A x \in Keys, r \in Statuses : since'[x][r] <= since[x][r]
                                          /\ since'[x][r] \in Int /\ since[x][r] \in Int
      BY <1>10, HorizonType DEF SetStatus, AuthTypeOK
  <2>2. RowIsNow'
      BY <1>10 DEF SetStatus, AuthTypeOK
  <2>3. EntriesAge'
      BY <1>10, <2>1, HorizonType DEF SetStatus, AuthTypeOK
  <2>4. WritesAge'
      BY <1>10, <2>1 DEF SetStatus, AuthTypeOK, SetCommands
  <2>5. AnswersAge'
      BY <1>10, <1>k, <2>1 DEF SetStatus, AuthTypeOK
  <2> QED
      BY <2>2, <2>3, <2>4, <2>5
<1>11. CASE Tick
  <2>1. \A x \in Keys, r \in Statuses : /\ since'[x][r] <= since[x][r] + 1
                                          /\ since'[x][status[x]] = 0
                                          /\ since'[x][r] \in Int /\ since[x][r] \in Int
      BY <1>11, OlderByOne DEF Tick
  <2>2. RowIsNow'
      BY <1>11, <2>1 DEF Tick, AuthTypeOK
  <2>3. EntriesAge'
    <3> SUFFICES ASSUME NEW x \in Keys, entry'[x].left > 0
                 PROVE  since'[x][entry'[x].is] + entry'[x].left <= Horizon
        BY DEF AuthTypeOK
    <3>1. /\ entry[x].is \in Statuses /\ entry[x].left \in 0 .. TTL
          /\ entry'[x].is = entry[x].is
          /\ entry'[x].left = IF entry[x].left > 0 THEN entry[x].left - 1 ELSE 0
        BY <1>11, HorizonType DEF Tick, AuthTypeOK
    <3> QED
        BY <2>1, <3>1, HorizonType
  <2>4. WritesAge'
    <3> DEFINE Aged(w) == [w EXCEPT !.age = @ + 1]
    <3>1. ASSUME NEW w \in SetCommands, since[w.key][w.is] <= w.age
          PROVE  since'[Aged(w).key][Aged(w).is] <= Aged(w).age
      <4>1. Aged(w).key = w.key /\ Aged(w).is = w.is /\ Aged(w).age = w.age + 1
          BY DEF SetCommands
      <4>2. w.key \in Keys /\ w.is \in Statuses /\ w.age \in Int
          BY HorizonType DEF SetCommands
      <4> QED
          BY <2>1, <3>1, <4>1, <4>2
    <3>2. writes' = {Aged(w) : w \in writes} /\ writes \subseteq SetCommands
        BY <1>11 DEF Tick, AuthTypeOK
    <3> HIDE DEF Aged
    <3> QED
        BY <3>1, <3>2
  <2>5. AnswersAge'
      BY <1>11, <1>k, <2>1, HorizonType DEF Tick, AuthTypeOK
  <2> QED
      BY <2>2, <2>3, <2>4, <2>5
<1>12. CASE UNCHANGED authVars
    BY <1>12 DEF authVars
<1> QED
    BY <1>1, <1>2, <1>3, <1>4, <1>5, <1>6, <1>7, <1>8, <1>9, <1>10, <1>11, <1>12
       DEF AuthNext, Step

-------------------------------------------------------------------------------
(* Only a hit and an answer reach a verdict about the caller, and both rest *)
(* on knowledge that is young enough.                                      *)

Fresh == \A q \in Requests : lookup'[q] # lookup[q] =>
    /\ lookup'[q] = "admitted" => since[KeyOf[q]]["active"] < Horizon
    /\ lookup'[q] = "denied" =>
           \E s \in Statuses \ {"active"} : since[KeyOf[q]][s] < Horizon

LEMMA VerdictFresh ==
    ASSUME AuthTypeOK, NEW q \in Requests, NEW s \in Statuses,
           since[KeyOf[q]][s] < Horizon, Go(q, Verdict(s))
    PROVE  Fresh
BY DEF Fresh, Go, Verdict, AuthTypeOK

LEMMA StepFresh == AuthTypeOK /\ KnowledgeAges /\ [AuthNext]_authVars => Fresh
<1> SUFFICES ASSUME AuthTypeOK, KnowledgeAges, [AuthNext]_authVars PROVE Fresh
    OBVIOUS
<1>k. \A q \in Requests : KeyOf[q] \in Keys
    BY AuthAssumption
<1>1. ASSUME NEW q \in Requests, Hit(q) PROVE Fresh
  <2>1. /\ entry[KeyOf[q]].is \in Statuses /\ entry[KeyOf[q]].left \in 0 .. TTL
        /\ since[KeyOf[q]][entry[KeyOf[q]].is] \in 0 .. Horizon + 1
      BY <1>k DEF AuthTypeOK
  <2>2. since[KeyOf[q]][entry[KeyOf[q]].is] < Horizon
      BY <1>1, <1>k, <2>1, HorizonType DEF Hit, KnowledgeAges, EntriesAge
  <2> QED
      BY <1>1, <2>1, <2>2, VerdictFresh DEF Hit
<1>2. ASSUME NEW q \in Requests, Answer(q) PROVE Fresh
  <2>1. /\ found[q] \in Statuses /\ waited[q] \in 0 .. Delay
        /\ since[KeyOf[q]][found[q]] \in 0 .. Horizon + 1
      BY <1>k DEF AuthTypeOK
  <2>2. since[KeyOf[q]][found[q]] < Horizon
      BY <1>2, <2>1, HorizonType DEF Answer, KnowledgeAges, AnswersAge
  <2> QED
      BY <1>2, <2>1, <2>2, VerdictFresh DEF Answer
<1>3. ASSUME NEW q \in Requests, Miss(q) \/ Query(q) \/ QueryFails(q) \/ Leave(q)
      PROVE  Fresh
    BY <1>3 DEF Miss, Query, QueryFails, Leave, Go, Fresh, AuthTypeOK
<1>4. ASSUME UNCHANGED lookup PROVE Fresh
    BY <1>4 DEF Fresh
<1>5. CASE \/ \E w \in writes : Land(w) \/ Lose(w)
           \/ \E k \in Keys : Evict(k) \/ \E s \in Statuses : SetStatus(k, s)
           \/ Tick \/ UNCHANGED authVars
    BY <1>4, <1>5 DEF Land, Lose, Evict, SetStatus, Tick, authVars
<1> QED
    BY <1>1, <1>2, <1>3, <1>5 DEF AuthNext, Step

(* Whoever is admitted was active, and whoever is denied was not, within   *)
(* the TTL and the delay of a SET, for any number of requests, whatever    *)
(* interleaves, fails or is late (cache.go:55-87).                         *)
THEOREM AnswersAreFresh == AuthSafety => VerdictsAreFresh
<1>1. AuthTypeOK /\ KnowledgeAges /\ [AuthNext]_authVars => [Fresh]_authVars
    BY StepFresh
<1> QED
    BY <1>1, AuthInitType, AuthNextType, AuthInitAges, AuthNextAges, PTL
       DEF AuthSafety, VerdictsAreFresh, Fresh

-----------------------------------------------------------------------------
(* Client provisioning (Provisioning).                                     *)
LEMMA ProvisionInitType == ProvisionInit => ProvisionTypeOK
BY DEF ProvisionInit, ProvisionTypeOK, Steps

LEMMA CarryType ==
    ASSUME ProvisionTypeOK, NEW a \in Attempts, NEW s \in Steps, Carry(a, s)
    PROVE  /\ row' \in Attempts \cup {Nobody} /\ scram' \in Attempts \cup {Nobody}
           /\ topic' \in BOOLEAN /\ acls' \subseteq Acls
BY DEF ProvisionTypeOK, Carry, InsertClient, UpsertSCRAMCredential, CreateResultsTopic,
       GrantResultsACLs

LEMMA ProvisionNextType == ProvisionTypeOK /\ [ProvisionNext]_provisionVars => ProvisionTypeOK'
<1> SUFFICES ASSUME ProvisionTypeOK, [ProvisionNext]_provisionVars PROVE ProvisionTypeOK'
    OBVIOUS
<1> USE DEF ProvisionTypeOK, In, Move, End, Unmoved, Ended, Steps
<1>1. ASSUME NEW a \in Attempts, Call(a) PROVE ProvisionTypeOK'
    BY <1>1 DEF Call
<1>2. ASSUME NEW a \in Attempts, Refuse(a) PROVE ProvisionTypeOK'
    BY <1>2 DEF Refuse
<1>3. ASSUME NEW a \in Attempts, Draw(a) PROVE ProvisionTypeOK'
    BY <1>3 DEF Draw
<1>4. ASSUME NEW a \in Attempts, RowExists(a) PROVE ProvisionTypeOK'
    BY <1>4 DEF RowExists
<1>5. ASSUME NEW a \in Attempts, Inserted(a) PROVE ProvisionTypeOK'
    BY <1>5 DEF Inserted, InsertClient
<1>6. ASSUME NEW a \in Attempts, CredentialSet(a) PROVE ProvisionTypeOK'
    BY <1>6 DEF CredentialSet, UpsertSCRAMCredential
<1>7. ASSUME NEW a \in Attempts, TopicCreated(a) PROVE ProvisionTypeOK'
    BY <1>7 DEF TopicCreated, CreateResultsTopic
<1>8. ASSUME NEW a \in Attempts, Granted(a) PROVE ProvisionTypeOK'
    BY <1>8 DEF Granted, GrantResultsACLs
<1>9. ASSUME NEW a \in Attempts, StepFails(a) PROVE ProvisionTypeOK'
    BY <1>9 DEF StepFails, GrantResultsACLs
<1>10. ASSUME NEW a \in Attempts, Die(a) PROVE ProvisionTypeOK'
    BY <1>10 DEF Die
<1>11. ASSUME NEW a \in Attempts, NEW s \in Steps, LandsLate(a, s) PROVE ProvisionTypeOK'
    BY <1>11, CarryType DEF LandsLate
<1>12. ASSUME NEW a \in Attempts, DeleteRow(a) PROVE ProvisionTypeOK'
    BY <1>12 DEF DeleteRow
<1>13. CASE UNCHANGED provisionVars
    BY <1>13 DEF provisionVars
<1> QED
    BY <1>1, <1>2, <1>3, <1>4, <1>5, <1>6, <1>7, <1>8, <1>9, <1>10, <1>11, <1>12, <1>13
       DEF ProvisionNext

(* Every behaviour of the attempts keeps the type invariant. *)
THEOREM ProvisionTypeCorrect == ProvisionSpec => []ProvisionTypeOK
BY ProvisionInitType, ProvisionNextType, PTL DEF ProvisionSpec

-------------------------------------------------------------------------------
(* The row is the lock: an attempt past its insert, whose row nobody       *)
(* deleted, holds the row, so that no other attempt is past its insert     *)
(* and at work.  A request that nobody waits for belongs to an attempt     *)
(* that stands still at that step.                                         *)

\* The steps an attempt has done, whether it is at work or has ended.
Done(a) == IF progress[a] = "ok" THEN Steps ELSE Before(at[a])

Stands(a) == progress[a] \in {"failed", "gone"}

RowHeld == \A a \in Attempts \ deleted : "insert" \in Done(a) => row = a

CredentialHeld ==
    \A a \in Attempts \ deleted : "scram" \in Done(a) => scram = a \/ Overtaken

KafkaReady == \A a \in Attempts : /\ "topic" \in Done(a) => topic
                                  /\ "acls" \in Done(a) => acls = Acls

LateOnesStand == /\ \A a \in deleted : Stands(a)
                 /\ \A w \in pending : Stands(w[1]) /\ at[w[1]] = w[2]

ProvisionInv == RowHeld /\ CredentialHeld /\ KafkaReady /\ LateOnesStand

LEMMA ProvisionInitInv == ProvisionInit => ProvisionInv
BY DEF ProvisionInit, ProvisionInv, RowHeld, CredentialHeld, KafkaReady, LateOnesStand,
       Done, Before

\* Nothing in the table or the broker changes but for what is granted, and no
\* attempt gets further.
Quiet == /\ row' = row /\ scram' = scram /\ topic' = topic
         /\ acls \subseteq acls' /\ acls' \subseteq Acls
         /\ deleted' = deleted /\ at' = at
         /\ \A a \in Attempts : /\ progress'[a] = "ok" <=> progress[a] = "ok"
                                /\ Stands(a) => progress'[a] = progress[a]

LEMMA QuietKeeps ==
    ASSUME ProvisionTypeOK, RowHeld, CredentialHeld, KafkaReady, Quiet
    PROVE  RowHeld' /\ CredentialHeld' /\ KafkaReady'
<1>1. \A a \in Attempts : Done(a)' = Done(a)
    BY DEF Quiet, Done
<1>2. Overtaken' = Overtaken
    BY DEF Quiet, Overtaken
<1> QED
    BY <1>1, <1>2 DEF RowHeld, CredentialHeld, KafkaReady, Quiet

\* What an attempt does when it completes a step.
LEMMA Alone ==
    ASSUME ProvisionTypeOK, ProvisionInv, NEW a \in Attempts, a \notin deleted,
           "insert" \in Done(a)
    PROVE  \A b \in Attempts \ deleted : "insert" \in Done(b) => b = a
BY DEF ProvisionInv, RowHeld

LEMMA InsertComesFirst ==
    ASSUME NEW s \in Steps
    PROVE  /\ s \in {"check", "insert"} <=> "insert" \notin Before(s)
           /\ s \in {"topic", "acls"} <=> "scram" \in Before(s)
           /\ s = "acls" <=> "topic" \in Before(s)
           /\ "acls" \notin Before(s)
BY DEF Before, Steps

LEMMA ProvisionNextInv ==
    ProvisionTypeOK /\ ProvisionInv /\ [ProvisionNext]_provisionVars => ProvisionInv'
<1> SUFFICES ASSUME ProvisionTypeOK, ProvisionInv, [ProvisionNext]_provisionVars
             PROVE  ProvisionInv'
    OBVIOUS
<1> USE DEF In, Move, End, Unmoved
<1>1. ASSUME NEW a \in Attempts, \/ Call(a) \/ Refuse(a) \/ RowExists(a)
                                 \/ StepFails(a) \/ Die(a)
      PROVE ProvisionInv'
  <2>1. Quiet
      BY <1>1 DEF Call, Refuse, RowExists, StepFails, Die, Quiet, Stands, ProvisionTypeOK,
                  GrantResultsACLs
  <2>2. LateOnesStand'
      BY <1>1 DEF Call, Refuse, RowExists, StepFails, Die, Stands, ProvisionTypeOK,
                  ProvisionInv, LateOnesStand
  <2> QED
      BY <2>1, <2>2, QuietKeeps DEF ProvisionInv
<1>2. ASSUME NEW a \in Attempts, Draw(a) PROVE ProvisionInv'
    BY <1>2 DEF Draw, ProvisionTypeOK, ProvisionInv, RowHeld, CredentialHeld, KafkaReady,
                LateOnesStand, Stands, Done, Before, Overtaken
<1>3. ASSUME NEW a \in Attempts, Inserted(a) PROVE ProvisionInv'
  <2>1. row = Nobody /\ row' = a
      BY <1>3 DEF Inserted, InsertClient
  <2>2. \A b \in Attempts \ deleted : "insert" \notin Done(b)
      BY <2>1, ProvisioningAssumption DEF ProvisionInv, RowHeld
  <2>3. \A b \in Attempts \ {a} : Done(b)' = Done(b)
      BY <1>3 DEF Inserted, Done, ProvisionTypeOK
  <2>4. Done(a)' = {"insert"}
      BY <1>3 DEF Inserted, Done, Before, ProvisionTypeOK
  <2>5. Done(a) = {}
      BY <1>3 DEF Inserted, Done, Before
  <2>6. \A b \in Attempts : "scram" \in Done(b) => "insert" \in Done(b)
      BY InsertComesFirst DEF Done, Steps, ProvisionTypeOK
  <2>7. RowHeld' /\ CredentialHeld'
      BY <1>3, <2>1, <2>2, <2>3, <2>4, <2>6 DEF Inserted, RowHeld, CredentialHeld
  <2>8. KafkaReady'
      BY <1>3, <2>3, <2>4 DEF Inserted, InsertClient, KafkaReady, ProvisionInv
  <2>9. LateOnesStand'
      BY <1>3 DEF Inserted, Stands, ProvisionTypeOK, ProvisionInv, LateOnesStand
  <2> QED
      BY <2>7, <2>8, <2>9 DEF ProvisionInv
<1>4. ASSUME NEW a \in Attempts, CredentialSet(a) PROVE ProvisionInv'
  <2>1. a \notin deleted /\ "insert" \in Done(a)
      BY <1>4 DEF CredentialSet, ProvisionInv, LateOnesStand, Stands, Done, Before
  <2>2. \A b \in Attempts \ {a} : Done(b)' = Done(b)
      BY <1>4 DEF CredentialSet, Done, ProvisionTypeOK
  <2>3. Done(a)' = {"insert", "scram"}
      BY <1>4 DEF CredentialSet, Done, Before, ProvisionTypeOK
  <2>4. \A b \in Attempts : "scram" \in Done(b) => "insert" \in Done(b)
      BY InsertComesFirst DEF Done, Steps, ProvisionTypeOK
  <2>5. RowHeld'
      BY <1>4, <2>1, <2>2, <2>3
         DEF CredentialSet, UpsertSCRAMCredential, ProvisionInv, RowHeld
  <2>6. CredentialHeld'
      BY <1>4, <2>1, <2>2, <2>3, <2>4, Alone
         DEF CredentialSet, UpsertSCRAMCredential, CredentialHeld
  <2>7. KafkaReady'
      BY <1>4, <2>2, <2>3 DEF CredentialSet, UpsertSCRAMCredential, KafkaReady, ProvisionInv
  <2>8. LateOnesStand'
      BY <1>4 DEF CredentialSet, Stands, ProvisionTypeOK, ProvisionInv, LateOnesStand
  <2> QED
      BY <2>5, <2>6, <2>7, <2>8 DEF ProvisionInv
<1>5. ASSUME NEW a \in Attempts, TopicCreated(a) \/ Granted(a) PROVE ProvisionInv'
  <2>1. a \notin deleted
      BY <1>5 DEF TopicCreated, Granted, ProvisionInv, LateOnesStand, Stands
  <2>2. \A b \in Attempts \ {a} : Done(b)' = Done(b)
      BY <1>5 DEF TopicCreated, Granted, Done, ProvisionTypeOK
  <2>3. {"insert", "scram"} \subseteq Done(a)
      BY <1>5 DEF TopicCreated, Granted, Done, Before
  <2>4. /\ row' = row /\ scram' = scram /\ deleted' = deleted /\ pending' = pending
        /\ \A b \in deleted : at'[b] = at[b]
      BY <1>5, <2>1 DEF TopicCreated, Granted, CreateResultsTopic, GrantResultsACLs,
                        ProvisionTypeOK
  <2>5. Overtaken' = Overtaken
      BY <2>4 DEF Overtaken
  <2>6. RowHeld' /\ CredentialHeld'
      BY <2>2, <2>3, <2>4, <2>5 DEF ProvisionInv, RowHeld, CredentialHeld
  <2>7. KafkaReady'
    <3>1. CASE TopicCreated(a)
      <4>1. Done(a)' = {"insert", "scram", "topic"}
          BY <3>1 DEF TopicCreated, Done, Before, ProvisionTypeOK
      <4> QED
          BY <2>2, <3>1, <4>1 DEF TopicCreated, CreateResultsTopic, KafkaReady, ProvisionInv
    <3>2. CASE Granted(a)
      <4>1. acls' = Acls /\ topic' = topic /\ "topic" \in Done(a)
          BY <3>2 DEF Granted, GrantResultsACLs, Done, Before, ProvisionTypeOK
      <4> QED
          BY <2>2, <4>1 DEF KafkaReady, ProvisionInv
    <3> QED
        BY <1>5, <3>1, <3>2
  <2>8. LateOnesStand'
      BY <1>5 DEF TopicCreated, Granted, Stands, ProvisionTypeOK, ProvisionInv, LateOnesStand
  <2> QED
      BY <2>6, <2>7, <2>8 DEF ProvisionInv
<1>6. ASSUME NEW a \in Attempts, NEW s \in Steps, LandsLate(a, s) PROVE ProvisionInv'
  <2>1. /\ Stands(a) /\ at[a] = s /\ progress' = progress /\ at' = at
        /\ deleted' = deleted /\ pending' \subseteq pending
      BY <1>6 DEF LandsLate, ProvisionInv, LateOnesStand
  <2>2. \A b \in Attempts : Done(b)' = Done(b)
      BY <2>1 DEF Done
  <2>3. LateOnesStand'
      BY <2>1 DEF ProvisionInv, LateOnesStand, Stands
  <2>4. \A b \in Attempts : "scram" \in Done(b) => "insert" \in Done(b)
      BY InsertComesFirst DEF Done, Steps, ProvisionTypeOK
  <2>5. CASE s = "insert" /\ InsertClient(a)
    <3>1. \A b \in Attempts \ deleted : "insert" \notin Done(b)
        BY <2>5, ProvisioningAssumption DEF InsertClient, ProvisionInv, RowHeld
    <3> QED
        BY <2>1, <2>2, <2>3, <2>4, <2>5, <3>1
           DEF InsertClient, ProvisionInv, RowHeld, CredentialHeld, KafkaReady
  <2>6. CASE s = "scram" /\ UpsertSCRAMCredential(a)
    <3>1. "insert" \in Done(a) /\ "scram" \notin Done(a)
        BY <2>1, <2>6 DEF Done, Before, Stands
    <3>2. CASE a \in deleted
      <4>1. Overtaken'
          BY <2>1, <2>6, <3>2 DEF Overtaken, UpsertSCRAMCredential
      <4> QED
          BY <2>1, <2>2, <2>3, <2>6, <4>1
             DEF UpsertSCRAMCredential, ProvisionInv, RowHeld, CredentialHeld, KafkaReady
    <3>3. CASE a \notin deleted
      <4>1. \A b \in Attempts \ deleted : "scram" \notin Done(b)
          BY <2>4, <3>1, <3>3, Alone
      <4> QED
          BY <2>1, <2>2, <2>3, <2>6, <4>1
             DEF UpsertSCRAMCredential, ProvisionInv, RowHeld, CredentialHeld, KafkaReady
    <3> QED
        BY <3>2, <3>3
  <2>7. CASE \/ s = "topic" /\ CreateResultsTopic(a)
             \/ s = "acls" /\ GrantResultsACLs(a, Acls)
    <3>1. row' = row /\ scram' = scram /\ deleted' = deleted /\ at' = at
        BY <2>1, <2>7 DEF CreateResultsTopic, GrantResultsACLs
    <3>2. Overtaken' = Overtaken
        BY <3>1 DEF Overtaken
    <3>3. RowHeld' /\ CredentialHeld'
        BY <2>2, <3>1, <3>2 DEF ProvisionInv, RowHeld, CredentialHeld
    <3>4. (topic => topic') /\ (acls = Acls => acls' = Acls)
        BY <2>7 DEF CreateResultsTopic, GrantResultsACLs, ProvisionTypeOK
    <3>5. KafkaReady'
        BY <2>2, <3>4 DEF ProvisionInv, KafkaReady
    <3> QED
        BY <2>3, <3>3, <3>5 DEF ProvisionInv
  <2> QED
      BY <1>6, <2>5, <2>6, <2>7 DEF LandsLate, Carry
<1>7. ASSUME NEW a \in Attempts, DeleteRow(a) PROVE ProvisionInv'
  <2>1. /\ row = a /\ Stands(a) /\ deleted' = deleted \cup {a}
        /\ scram' = scram /\ topic' = topic /\ acls' = acls /\ pending' = pending
        /\ progress' = progress /\ at' = at
      BY <1>7 DEF DeleteRow, Stands
  <2>2. \A b \in Attempts : Done(b)' = Done(b)
      BY <2>1 DEF Done
  <2>3. Overtaken => Overtaken'
      BY <2>1 DEF Overtaken
  <2> QED
      BY <2>1, <2>2, <2>3
         DEF ProvisionInv, RowHeld, CredentialHeld, KafkaReady, LateOnesStand, Stands
<1>8. CASE UNCHANGED provisionVars
    BY <1>8 DEF provisionVars, ProvisionInv, RowHeld, CredentialHeld, KafkaReady,
                LateOnesStand, Stands, Done, Overtaken
<1> QED
    BY <1>1, <1>2, <1>3, <1>4, <1>5, <1>6, <1>7, <1>8 DEF ProvisionNext

(* What an attempt tells its caller to exist does exist, for any number of *)
(* attempts that interleave, fail, die or take effect late, except for the *)
(* credential that a late request of a deleted attempt replaces            *)
(* (provision.go:76-123).                                                  *)
THEOREM RepliesAreTrue == ProvisionSpec => []RepliesHold
<1>1. ProvisionTypeOK /\ ProvisionInv => RepliesHold
    BY DEF ProvisionInv, RowHeld, CredentialHeld, KafkaReady, RepliesHold, Claimed, Done
<1> QED
    BY <1>1, ProvisionInitType, ProvisionNextType, ProvisionInitInv, ProvisionNextInv, PTL DEF ProvisionSpec

-----------------------------------------------------------------------------
(* Rate limiting (RateLimiter).                                            *)
LEMMA LimiterInitType == LimiterInit => LimiterTypeOK
BY LimiterAssumption DEF LimiterInit, LimiterTypeOK

LEMMA LimiterNextType == LimiterTypeOK /\ [LimiterNext]_limiterVars => LimiterTypeOK'
<1> SUFFICES ASSUME LimiterTypeOK, [LimiterNext]_limiterVars PROVE LimiterTypeOK'
    OBVIOUS
<1> USE LimiterAssumption DEF LimiterTypeOK, Take, Put
<1>1. ASSUME NEW c \in Calls, LookUp(c) PROVE LimiterTypeOK'
    BY <1>1 DEF LookUp
<1>2. ASSUME NEW c \in Calls, NEW b \in Buckets, Create(c, b) PROVE LimiterTypeOK'
    BY <1>2 DEF Create
<1>3. ASSUME NEW c \in Calls, Grant(c) PROVE LimiterTypeOK'
    BY <1>3 DEF Grant
<1>4. ASSUME NEW c \in Calls, Exhausted(c) PROVE LimiterTypeOK'
    BY <1>4 DEF Exhausted
<1>5. CASE CleanUp
    BY <1>5 DEF CleanUp
<1>6. CASE LimiterTick
    BY <1>6 DEF LimiterTick, Least
<1>7. CASE UNCHANGED limiterVars
    BY <1>7 DEF limiterVars
<1> QED
    BY <1>1, <1>2, <1>3, <1>4, <1>5, <1>6, <1>7 DEF LimiterNext

(* Every behaviour of the limiter keeps the type invariant. *)
THEOREM LimiterTypeCorrect == LimiterSpec => []LimiterTypeOK
BY LimiterInitType, LimiterNextType, PTL DEF LimiterSpec

-------------------------------------------------------------------------------
(* The bucket of the map never holds more than the one that is never       *)
(* dropped.  A bucket is dropped only when the latter has filled up since  *)
(* the last call: only stragglers can have used a token meanwhile, because *)
(* a call that took the bucket earlier slept for as long.                  *)

\* What the credit has grown to at least when the entry was idle for n ticks.
Filled(n) == Rate * (n - (IdleLimit - Refill))

CreditCovers ==
    /\ credit \in 0 .. Burst
    /\ current # NoBucket => tokens[current] <= credit
    /\ current = NoBucket => credit = Burst

CreditGrows == credit = Burst \/ Filled(idle) <= credit

SleepersLag == \A c \in Calls : hand[c] # NoBucket =>
    /\ idle <= slept[c]
    /\ ~Straggler(c) => hand[c] = current

Conserved == CreditCovers /\ CreditGrows /\ SleepersLag

LEMMA FilledGrows ==
    ASSUME NEW n \in Nat
    PROVE  /\ Filled(n) \in Int
           /\ Filled(n + 1) = Filled(n) + Rate
           /\ n <= IdleLimit - Refill => Filled(n) <= 0
           /\ n > IdleLimit => Burst <= Filled(n)
<1> DEFINE d == n - (IdleLimit - Refill)
<1>1. d \in Int /\ Rate \in Nat /\ Burst <= Rate * Refill /\ Refill \in Nat /\ IdleLimit \in Nat
    BY LimiterAssumption
<1>2. Rate * d \in Int /\ Rate * (d + 1) = Rate * d + Rate
    BY <1>1
<1>3. d <= 0 => Rate * d <= 0
    BY <1>1
<1>4. d > Refill => Rate * Refill <= Rate * d
    BY <1>1
<1>5. (n + 1) - (IdleLimit - Refill) = d + 1
    BY <1>1
<1>6. (n <= IdleLimit - Refill => d <= 0) /\ (n > IdleLimit => d > Refill)
    BY <1>1
<1>7. Burst \in Nat /\ Rate * Refill \in Nat
    BY LimiterAssumption
<1> QED
    BY <1>1, <1>2, <1>3, <1>4, <1>5, <1>6, <1>7 DEF Filled

LEMMA LimiterInitConserved == LimiterInit => Conserved
BY LimiterAssumption
   DEF LimiterInit, Conserved, CreditCovers, CreditGrows, SleepersLag

LEMMA LimiterNextConserved ==
    LimiterTypeOK /\ Conserved /\ [LimiterNext]_limiterVars => Conserved'
<1> SUFFICES ASSUME LimiterTypeOK, Conserved, [LimiterNext]_limiterVars PROVE Conserved'
    OBVIOUS
<1>z. Filled(0) <= 0 /\ Filled(0) \in Int
    BY FilledGrows, LimiterAssumption
<1>i. Filled(idle) \in Int
    BY FilledGrows DEF LimiterTypeOK
<1> USE LimiterAssumption
        DEF Conserved, CreditCovers, CreditGrows, SleepersLag, Straggler, LimiterTypeOK,
            Take, Put
<1>1. ASSUME NEW c \in Calls, LookUp(c) PROVE Conserved'
    BY <1>1, <1>z DEF LookUp
<1>2. ASSUME NEW c \in Calls, NEW b \in Buckets, Create(c, b) PROVE Conserved'
  <2>1. CreditCovers' /\ CreditGrows'
      BY <1>2, <1>z DEF Create
  <2>2. SleepersLag'
      BY <1>2 DEF Create
  <2> QED
      BY <2>1, <2>2
<1>3. ASSUME NEW c \in Calls, Grant(c) PROVE Conserved'
  <2>1. CASE Straggler(c)
      BY <1>3, <2>1 DEF Grant
  <2>2. CASE ~Straggler(c)
    <3>1. hand[c] = current /\ idle <= IdleLimit - Refill
        BY <1>3, <2>2 DEF Grant
    <3>2. Filled(idle) <= 0
        BY <3>1, FilledGrows
    <3> QED
        BY <1>3, <1>i, <2>2, <3>1, <3>2 DEF Grant
  <2> QED
      BY <2>1, <2>2
<1>4. ASSUME NEW c \in Calls, Exhausted(c) PROVE Conserved'
    BY <1>4 DEF Exhausted
<1>5. CASE CleanUp
  <2>1. Burst <= Filled(idle)
      BY <1>5, FilledGrows DEF CleanUp
  <2>2. credit = Burst
      BY <1>i, <2>1
  <2>3. \A c \in Calls : hand[c] # NoBucket => Straggler(c)
      BY <1>5 DEF CleanUp
  <2> QED
      BY <1>5, <2>2, <2>3 DEF CleanUp
<1>6. CASE LimiterTick
  <2>1. CreditCovers'
      BY <1>6 DEF LimiterTick, Least
  <2>2. CreditGrows'
    <3>1. Filled(idle + 1) = Filled(idle) + Rate /\ Filled(idle + 1) \in Int
        BY FilledGrows
    <3>2. idle' = idle \/ idle' = idle + 1
        BY <1>6 DEF LimiterTick, Least
    <3>3. credit' = Burst \/ credit' = credit + Rate
        BY <1>6 DEF LimiterTick, Least
    <3>4. credit = Burst => credit' = Burst
        BY <1>6 DEF LimiterTick, Least
    <3> QED
        BY <1>i, <3>1, <3>2, <3>3, <3>4
  <2>3. SleepersLag'
      BY <1>6 DEF LimiterTick, Least
  <2> QED
      BY <2>1, <2>2, <2>3
<1>7. CASE UNCHANGED limiterVars
    BY <1>7 DEF limiterVars
<1> QED
    BY <1>1, <1>2, <1>3, <1>4, <1>5, <1>6, <1>7 DEF LimiterNext

(* The calls granted to a client, stragglers aside, fit into one token     *)
(* bucket that is never dropped, however often the cleanup drops the real  *)
(* one (limiter.go:86-112).                                                *)
THEOREM NeverExceedsRate == LimiterSpec => []RateBound
<1>1. Conserved => RateBound
    BY LimiterAssumption DEF Conserved, CreditCovers, RateBound
<1> QED
    BY <1>1, LimiterInitType, LimiterNextType, LimiterInitConserved, LimiterNextConserved, PTL DEF LimiterSpec
-----------------------------------------------------------------------------
(* Start and stop (Lifecycle).                                             *)

LEMMA BootLengths == \A x \in Services : Len(Boot[x]) \in 0 .. 8
BY DEF Services, Boot, GatewayBoot, EngineBoot, PersistenceBoot, NotifierBoot, RiskBoot

LEMMA ClosingLengths == \A x \in Services : Len(Closing[x]) \in 0 .. 8
BY DEF Services, Closing

(* What work and a probe use is among what is closed in the end. *)
LEMMA ClosingEntries ==
    /\ \A x \in Services : Uses[x] \subseteq Entries(Closing[x])
    /\ \A x \in Services : Entries(Closing[x]) \subseteq Resources
    /\ ProbeUses \subseteq Entries(Closing["gateway"])
    /\ Closing["gateway"][1] = "http"
<1>1. /\ Entries(Closing["gateway"]) = {"http", "producer", "idStore", "authCache", "authStore"}
      /\ Closing["gateway"][1] = "http"
    BY DEF Closing, Entries
<1>2. Entries(Closing["engine"]) = {"reader", "writer", "riskClient"}
    BY DEF Closing, Entries
<1>3. Entries(Closing["persistence"]) = {"dlq", "pgPool"}
    BY DEF Closing, Entries
<1>4. Entries(Closing["notifier"]) = {"reader", "writer", "dlq"}
    BY DEF Closing, Entries
<1>5. Entries(Closing["risk"]) = {}
    BY DEF Closing, Entries
<1> HIDE DEF Entries, Closing
<1>6. /\ Uses["gateway"] = {"authCache", "authStore", "idStore", "producer"}
      /\ Uses["engine"] = {"reader", "writer", "riskClient"}
      /\ Uses["persistence"] = {"dlq", "pgPool"}
      /\ Uses["notifier"] = {"reader", "writer", "dlq"}
      /\ Uses["risk"] = {}
    BY DEF Uses
<1> QED
    BY <1>1, <1>2, <1>3, <1>4, <1>5, <1>6 DEF Services, Resources, ProbeUses

LEMMA LifecycleInitType == LifecycleInit => LifecycleTypeOK
<1> SUFFICES ASSUME LifecycleInit PROVE LifecycleTypeOK
    OBVIOUS
<1>1. pos \in 0 .. 8 /\ work \in 0 .. MaxWork
    BY LifecycleAssumption DEF LifecycleInit
<1> QED
    BY <1>1, Zenon DEF LifecycleInit, LifecycleTypeOK, Causes

LEMMA LifecycleNextType ==
    LifecycleTypeOK /\ [LifecycleNext]_lifeVars => LifecycleTypeOK'
<1> SUFFICES ASSUME LifecycleTypeOK, [LifecycleNext]_lifeVars
             PROVE  LifecycleTypeOK'
    OBVIOUS
<1> USE DEF LifecycleTypeOK
<1>1. CASE BootStep
  <2>1. PICK n \in 0 .. 8 : n = Len(Boot[service])
      BY BootLengths
  <2>2. pos \in 0 .. 8 /\ pos < n /\ pos' = pos + 1
      BY <1>1, <2>1, Zenon DEF BootStep
  <2> HIDE DEF LifecycleTypeOK
  <2>3. pos' \in 0 .. 8
      BY <2>2
  <2> USE DEF LifecycleTypeOK
  <2>4. UNCHANGED <<service, phase, handled, open, work, probe, late, outage, held, cause>>
      BY <1>1, Zenon DEF BootStep, kafka
  <2> QED
      BY <2>3, <2>4, Zenon
<1>2. CASE Start
  <2>1. open' \subseteq Resources /\ pos' \in 0 .. 8
      BY <1>2, ClosingEntries DEF Start
  <2>2. handled' \in BOOLEAN
      BY <1>2, Zenon DEF Start
  <2> QED
      BY <1>2, <2>1, <2>2, Zenon DEF Start, kafka
<1>3. CASE CloseNext
  <2>1. Len(Closing[service]) \in 0 .. 8
      BY ClosingLengths
  <2>2. pos' \in 0 .. 8
      BY <1>3, <2>1 DEF CloseNext
  <2>3. open' \subseteq Resources
      BY <1>3 DEF CloseNext
  <2> QED
      BY <1>3, <2>2, <2>3, Zenon DEF CloseNext, kafka
<1>4. CASE Accept \/ Finish
  <2>1. work' \in 0 .. MaxWork
      BY <1>4, LifecycleAssumption DEF Accept, Finish
  <2>2. outage' \in BOOLEAN /\ held' \in BOOLEAN
      BY <1>4, Zenon DEF Accept, Finish, kafka
  <2> QED
      BY <1>4, <2>1, <2>2, Zenon DEF Accept, Finish
<1>5. CASE BootFails \/ ServeError \/ EarlySignal \/ Return
  <2>1. /\ phase' = "exited" /\ cause' \in Causes
        /\ UNCHANGED <<service, pos, handled, open, work, probe, late, outage, held>>
      BY <1>5, Zenon DEF BootFails, ServeError, EarlySignal, Return, Exits, Causes, kafka
  <2> QED
      BY <2>1, Zenon
<1>6. CASE Notify \/ ProbeArrives \/ ProbeEnds \/ Deadline \/ Drained
    BY <1>6, Zenon DEF Notify, ProbeArrives, ProbeEnds, Drained, Deadline, kafka
<1>7. CASE Signal
  <2>1. pos' \in 0 .. 8
      BY <1>7 DEF Signal
  <2> QED
      BY <1>7, <2>1, Zenon DEF Signal, kafka
<1>8. CASE UNCHANGED lifeVars
    BY <1>8, Zenon DEF lifeVars, kafka
<1>9. CASE Delivered \/ Outage
    BY <1>9, Zenon DEF Delivered, Outage
<1> QED
    BY <1>1, <1>2, <1>3, <1>4, <1>5, <1>6, <1>7, <1>8, <1>9 DEF LifecycleNext

(* The resources are there for as long as there may be work; a probe may   *)
(* only meet their closing when the 30 seconds are over, because http goes *)
(* first.  A process that handles signals ends with its work done.         *)
BootIdle == phase = "boot" => work = 0 /\ ~probe

AllOpen ==
    /\ phase \in {"up", "draining"} => open = Entries(Closing[service])
    /\ phase = "closing" /\ pos = 0 => open = Entries(Closing[service])

DrainedFirst ==
    /\ phase = "draining" => pos = 0
    /\ phase = "closing" => work = 0

ProbeFirst ==
    /\ probe => service = "gateway"
    /\ phase = "closing" /\ pos # 0 => ~probe \/ late

HandledSoon == phase = "up" /\ ~handled => service = "gateway"

OrderlyStop ==
    BootIdle /\ AllOpen /\ DrainedFirst /\ ProbeFirst /\ HandledSoon /\ ExitFinishesWork

LEMMA InitOrderly == LifecycleInit => OrderlyStop
BY DEF LifecycleInit, OrderlyStop, BootIdle, AllOpen, DrainedFirst, ProbeFirst,
       HandledSoon, ExitFinishesWork

LEMMA NextOrderly ==
    LifecycleTypeOK /\ OrderlyStop /\ [LifecycleNext]_lifeVars => OrderlyStop'
<1> SUFFICES ASSUME LifecycleTypeOK, OrderlyStop, [LifecycleNext]_lifeVars
             PROVE  OrderlyStop'
    OBVIOUS
<1> USE DEF LifecycleTypeOK, OrderlyStop, BootIdle, AllOpen, DrainedFirst, ProbeFirst,
            HandledSoon, ExitFinishesWork
<1>1. CASE BootStep
    BY <1>1 DEF BootStep
<1>2. CASE Start
    BY <1>2 DEF Start
<1>3. CASE CloseNext
  <2>1. /\ phase = "closing" /\ phase' = "closing" /\ pos' = pos + 1 /\ pos' # 0
        /\ UNCHANGED <<service, handled, work, probe, late>>
      BY <1>3 DEF CloseNext
  <2>2. probe /\ pos = 0 => late
    <3>1. probe => Closing[service][1] = "http"
        BY ClosingEntries
    <3> QED
        BY <1>3, <3>1 DEF CloseNext
  <2> QED
      BY <2>1, <2>2
<1>4. CASE Accept \/ Finish
  <2>1. /\ UNCHANGED <<service, phase, pos, handled, open, probe, late, cause>>
        /\ phase # "exited" /\ (phase = "up" \/ work > 0)
      BY <1>4, Zenon DEF Accept, Finish
  <2>2. phase \notin {"boot", "closing"}
    <3>1. work = 0 => ~ (work > 0)
        OBVIOUS
    <3> QED
        BY <2>1, <3>1, Zenon
  <2>3. AllOpen' /\ ProbeFirst' /\ HandledSoon'
      BY <2>1, Zenon
  <2>4. BootIdle' /\ DrainedFirst' /\ ExitFinishesWork'
      BY <2>1, <2>2, Zenon
  <2> QED
      BY <2>3, <2>4
<1>5. ASSUME phase' = "exited", UNCHANGED <<service, work, probe>>,
             \/ work = 0
             \/ cause' = "serve error"
             \/ cause' = "early signal" /\ service = "gateway"
      PROVE  OrderlyStop'
  <2>1. BootIdle' /\ AllOpen' /\ DrainedFirst' /\ HandledSoon'
      BY <1>5
  <2>2. work = 0 => ~ (work > 0)
      OBVIOUS
  <2>3. ExitFinishesWork'
      BY <1>5, <2>2, Zenon
  <2>4. ProbeFirst'
      BY <1>5, Zenon
  <2> QED
      BY <2>1, <2>3, <2>4
<1>6. CASE BootFails \/ ServeError \/ EarlySignal \/ Return
  <2>1. phase' = "exited" /\ UNCHANGED <<service, work, probe>>
      BY <1>6, Zenon DEF BootFails, ServeError, EarlySignal, Return, Exits
  <2>2. CASE BootFails
      BY <1>5, <2>1, <2>2 DEF BootFails
  <2>3. CASE ServeError
    <3>1. cause' = "serve error"
        BY <2>3, Zenon DEF ServeError, Exits
    <3> QED
        BY <1>5, <2>1, <3>1
  <2>4. CASE EarlySignal
    <3>1. cause' = "early signal" /\ phase \in {"boot", "up"} /\ ~handled
        BY <2>4, Zenon DEF EarlySignal, Exits
    <3> QED
        BY <1>5, <2>1, <3>1
  <2>5. CASE Return
      BY <1>5, <2>1, <2>5 DEF Return
  <2> QED
      BY <1>6, <2>2, <2>3, <2>4, <2>5
<1>7. CASE Notify
    BY <1>7 DEF Notify
<1>8. CASE Signal
    BY <1>8 DEF Signal
<1>9. CASE Drained
    BY <1>9 DEF Drained
<1>10. CASE ProbeArrives
    BY <1>10 DEF ProbeArrives
<1>11. CASE ProbeEnds \/ Deadline
    BY <1>11 DEF ProbeEnds, Deadline
<1>13. CASE Delivered \/ Outage
  <2>1. UNCHANGED <<service, phase, pos, handled, open, work, probe, late, cause>>
      BY <1>13, Zenon DEF Delivered, Outage
  <2> QED
      BY <2>1, Zenon
<1>12. CASE UNCHANGED lifeVars
    BY <1>12 DEF lifeVars
<1> QED
    BY <1>1, <1>2, <1>3, <1>4, <1>6, <1>7, <1>8, <1>9, <1>10, <1>11, <1>12, <1>13
    DEF LifecycleNext

LEMMA AlwaysOrderly == LifecycleSpec => [](LifecycleTypeOK /\ OrderlyStop)
BY LifecycleInitType, LifecycleNextType, InitOrderly, NextOrderly, PTL DEF LifecycleSpec

(* No piece of work meets a resource that was closed, and a probe only     *)
(* after the 30 seconds, for any amount of work in flight.                 *)
THEOREM WorkIsServed == LifecycleSpec => []WorkFindsResourcesOpen
<1>1. LifecycleTypeOK /\ OrderlyStop => WorkFindsResourcesOpen
  <2> SUFFICES ASSUME LifecycleTypeOK, OrderlyStop, phase \in {"up", "draining", "closing"}
               PROVE  /\ work > 0 => Uses[service] \subseteq open
                      /\ probe => ProbeUses \subseteq open \/ late
      BY DEF WorkFindsResourcesOpen
  <2>1. work > 0 => Uses[service] \subseteq open
      BY ClosingEntries DEF OrderlyStop, AllOpen, DrainedFirst, LifecycleTypeOK
  <2>2. probe => ProbeUses \subseteq open \/ late
      BY ClosingEntries DEF OrderlyStop, AllOpen, ProbeFirst, LifecycleTypeOK
  <2> QED
      BY <2>1, <2>2
<1> QED
    BY AlwaysOrderly, <1>1, PTL

(* A process ends with accepted work unfinished only when a server failed  *)
(* or when the gateway met a signal before it handled signals.             *)
THEOREM WorkIsFinished == LifecycleSpec => []ExitFinishesWork
<1>1. OrderlyStop => ExitFinishesWork
    BY DEF OrderlyStop
<1> QED
    BY AlwaysOrderly, <1>1, PTL
-----------------------------------------------------------------------------
(* The logger (Logging).                                                   *)

LEMMA LoggingInitType == LoggingInit => LoggingTypeOK
<1> SUFFICES ASSUME LoggingInit PROVE LoggingTypeOK
    OBVIOUS
<1>1. 0 \in Hours /\ tail \in Nat
    BY LoggingAssumption DEF LoggingInit, Hours
<1>2. quiet \in BOOLEAN /\ loud \in [Writers -> BOOLEAN]
    BY Zenon DEF LoggingInit
<1> QED
    BY <1>1, <1>2, Zenon DEF LoggingInit, LoggingTypeOK

LEMMA LoggingNextType == LoggingTypeOK /\ [LoggingNext]_loggingVars => LoggingTypeOK'
<1> SUFFICES ASSUME LoggingTypeOK, [LoggingNext]_loggingVars
             PROVE  LoggingTypeOK'
    OBVIOUS
<1> USE LoggingAssumption DEF LoggingTypeOK, At, Unlock
<1>1. ASSUME NEW g \in Writers, LogLine(g) PROVE LoggingTypeOK'
  <2>1. loud' \in [Writers -> BOOLEAN]
      BY <1>1, Zenon DEF LogLine
  <2>2. /\ line' \in [Writers -> {"none", "waiting", "rotate", "write", "echo"}]
        /\ stamp' \in [Writers -> Hours]
      BY <1>1 DEF LogLine
  <2>3. UNCHANGED <<hour, bucket, openFile, holder, seen, files, quiet, tail>>
      BY <1>1 DEF LogLine
  <2> QED
      BY <2>1, <2>2, <2>3, Zenon
<1>2. ASSUME NEW g \in Writers, LockWriter(g) PROVE LoggingTypeOK'
    BY <1>2 DEF LockWriter
<1>3. ASSUME NEW g \in Writers, RotateLocked(g) PROVE LoggingTypeOK'
    BY <1>3 DEF RotateLocked
<1>4. ASSUME NEW g \in Writers, RotateFails(g) PROVE LoggingTypeOK'
    BY <1>4 DEF RotateFails, Hours
<1>5. ASSUME NEW g \in Writers, WriteLine(g) PROVE LoggingTypeOK'
  <2>1. files' \in [Hours -> SUBSET Hours]
      BY <1>5 DEF WriteLine
  <2> QED
      BY <1>5, <2>1 DEF WriteLine, Hours
<1>6. ASSUME NEW g \in Writers, Echo(g) PROVE LoggingTypeOK'
  <2>1. loud' \in [Writers -> BOOLEAN]
      BY <1>6, Zenon DEF Echo
  <2>2. /\ line' \in [Writers -> {"none", "waiting", "rotate", "write", "echo"}]
        /\ tail' \in Nat
      BY <1>6 DEF Echo
  <2>3. UNCHANGED <<hour, bucket, openFile, holder, seen, stamp, files, quiet>>
      BY <1>6 DEF Echo
  <2> QED
      BY <2>1, <2>2, <2>3, Zenon
<1>7. CASE StopConsole
    BY <1>7 DEF StopConsole
<1>8. CASE HourPasses
    BY <1>8 DEF HourPasses, Hours
<1>9. CASE UNCHANGED loggingVars
    BY <1>9 DEF loggingVars
<1> QED
    BY <1>1, <1>2, <1>3, <1>4, <1>5, <1>6, <1>7, <1>8, <1>9 DEF LoggingNext

(* The holder of the mutex goes by the clock it read, which is not before  *)
(* the hour of its line; the open file follows the clock.                  *)
LinesAge ==
    /\ bucket = openFile /\ openFile <= hour
    /\ \A g \in Writers : line[g] \in {"waiting", "rotate", "write"} => stamp[g] <= hour
    /\ \A g \in Writers : line[g] \in {"rotate", "write"} =>
           holder = g /\ stamp[g] <= seen /\ seen <= hour
    /\ \A g \in Writers : line[g] = "write" => openFile = seen
    /\ \A h \in Hours : files[h] \subseteq 0 .. h

LEMMA InitLinesAge == LoggingInit => LinesAge
BY LoggingAssumption DEF LoggingInit, LinesAge, Hours

LEMMA NextLinesAge ==
    LoggingTypeOK /\ LinesAge /\ [LoggingNext]_loggingVars => LinesAge'
<1> SUFFICES ASSUME LoggingTypeOK, LinesAge, [LoggingNext]_loggingVars
             PROVE  LinesAge'
    OBVIOUS
<1>t. /\ hour \in Nat /\ bucket \in Nat /\ openFile \in Nat /\ seen \in Nat
      /\ line \in [Writers -> {"none", "waiting", "rotate", "write", "echo"}]
      /\ stamp \in [Writers -> Hours]
      /\ files \in [Hours -> SUBSET Hours]
      /\ \A h \in Hours : h \in Nat
    BY LoggingAssumption DEF LoggingTypeOK, Hours
<1> USE LoggingAssumption DEF LinesAge, At, Unlock
<1>1. ASSUME NEW g \in Writers, LogLine(g) PROVE LinesAge'
    BY <1>1, <1>t DEF LogLine
<1>2. ASSUME NEW g \in Writers, LockWriter(g) PROVE LinesAge'
    BY <1>2, <1>t DEF LockWriter
<1>3. ASSUME NEW g \in Writers, RotateLocked(g) PROVE LinesAge'
    BY <1>3, <1>t DEF RotateLocked
<1>4. ASSUME NEW g \in Writers, RotateFails(g) PROVE LinesAge'
    BY <1>4, <1>t DEF RotateFails
<1>5. ASSUME NEW g \in Writers, WriteLine(g) PROVE LinesAge'
  <2>1. /\ files' = [files EXCEPT ![openFile] = @ \cup {stamp[g]}]
        /\ stamp[g] \in 0 .. openFile /\ openFile \in Hours
      BY <1>5, <1>t DEF WriteLine, LoggingTypeOK, Hours
  <2>2. \A h \in Hours : files'[h] \subseteq 0 .. h
      BY <1>t, <2>1
  <2>3. /\ line' = [line EXCEPT ![g] = "echo"] /\ stamp' = [stamp EXCEPT ![g] = 0]
        /\ UNCHANGED <<hour, bucket, openFile>>
        /\ \A k \in Writers : k # g => line[k] \notin {"rotate", "write"}
      BY <1>5 DEF WriteLine
  <2> QED
      BY <1>t, <2>2, <2>3
<1>6. ASSUME NEW g \in Writers, Echo(g) PROVE LinesAge'
  <2>1. /\ line' = [line EXCEPT ![g] = "none"]
        /\ UNCHANGED <<hour, bucket, openFile, holder, seen, stamp, files>>
      BY <1>6 DEF Echo
  <2> QED
      BY <1>t, <2>1
<1>7. CASE StopConsole
  <2>1. UNCHANGED <<hour, bucket, openFile, holder, seen, line, stamp, files>>
      BY <1>7 DEF StopConsole
  <2> QED
      BY <2>1
<1>8. CASE HourPasses
    BY <1>8, <1>t DEF HourPasses
<1>9. CASE UNCHANGED loggingVars
    BY <1>9 DEF loggingVars
<1> QED
    BY <1>1, <1>2, <1>3, <1>4, <1>5, <1>6, <1>7, <1>8, <1>9 DEF LoggingNext

(* A line that the terminal still gets after stopConsole was accepted      *)
(* before, and each goroutine has at most one.                             *)
Echoing == {g \in Writers : quiet /\ loud[g]}

TailBounded ==
    /\ ~quiet => tail = 0
    /\ tail + Cardinality(Echoing) <= Cardinality(Writers)

LEMMA EchoingFinite ==
    /\ IsFiniteSet(Echoing) /\ Cardinality(Echoing) \in Nat
    /\ Cardinality(Echoing) <= Cardinality(Writers) /\ Cardinality(Writers) \in Nat
<1>1. Echoing \in SUBSET Writers /\ IsFiniteSet(Writers)
    BY LoggingAssumption DEF Echoing
<1> QED
    BY <1>1, FS_Subset, FS_CardinalityType

LEMMA InitTail == LoggingInit => TailBounded
<1> SUFFICES ASSUME LoggingInit PROVE TailBounded
    OBVIOUS
<1>1. tail = 0 /\ ~quiet
    BY DEF LoggingInit
<1> QED
    BY <1>1, EchoingFinite DEF TailBounded

LEMMA NextTail ==
    LoggingTypeOK /\ TailBounded /\ [LoggingNext]_loggingVars => TailBounded'
<1> SUFFICES ASSUME LoggingTypeOK, TailBounded, [LoggingNext]_loggingVars
             PROVE  TailBounded'
    OBVIOUS
<1>t. /\ IsFiniteSet(Echoing) /\ Cardinality(Echoing) \in Nat
      /\ Cardinality(Writers) \in Nat /\ tail \in Nat
    BY EchoingFinite DEF LoggingTypeOK
<1>1. ASSUME UNCHANGED <<quiet, tail>>, Echoing' \subseteq Echoing
      PROVE  TailBounded'
  <2>1. Cardinality(Echoing') <= Cardinality(Echoing) /\ Cardinality(Echoing') \in Nat
      BY <1>t, <1>1, FS_Subset, FS_CardinalityType
  <2>2. tail + Cardinality(Echoing) <= Cardinality(Writers)
      BY DEF TailBounded
  <2>3. tail' + Cardinality(Echoing') <= Cardinality(Writers)
      BY <1>t, <1>1, <2>1, <2>2
  <2> QED
      BY <1>1, <2>3, Zenon DEF TailBounded
<1>2. ASSUME NEW g \in Writers, LogLine(g) PROVE TailBounded'
  <2>1. UNCHANGED <<quiet, tail>> /\ loud' = [loud EXCEPT ![g] = ~quiet]
      BY <1>2, Zenon DEF LogLine
  <2>2. Echoing' \subseteq Echoing
      BY <2>1, Zenon DEF Echoing, LoggingTypeOK
  <2> QED
      BY <1>1, <2>1, <2>2
<1>3. ASSUME NEW g \in Writers,
             LockWriter(g) \/ RotateLocked(g) \/ RotateFails(g) \/ WriteLine(g)
      PROVE  TailBounded'
  <2>1. UNCHANGED <<quiet, tail, loud>>
      BY <1>3, Zenon DEF LockWriter, RotateLocked, RotateFails, WriteLine
  <2>2. Echoing' = Echoing
      BY <2>1, Zenon DEF Echoing
  <2> QED
      BY <1>1, <2>1, <2>2
<1>4. ASSUME NEW g \in Writers, Echo(g) PROVE TailBounded'
  <2>1. quiet' = quiet /\ loud' = [loud EXCEPT ![g] = FALSE]
      BY <1>4, Zenon DEF Echo
  <2>2. CASE g \in Echoing
    <3>1. tail' = tail + 1 /\ quiet
        BY <1>4, <2>2, Zenon DEF Echo, Echoing
    <3>2. Echoing' = Echoing \ {g}
        BY <2>1, Zenon DEF Echoing, LoggingTypeOK
    <3>3. Cardinality(Echoing') = Cardinality(Echoing) - 1
        BY <1>t, <2>2, <3>2, FS_RemoveElement
    <3>4. tail + Cardinality(Echoing) <= Cardinality(Writers)
        BY DEF TailBounded
    <3>5. tail' + Cardinality(Echoing') <= Cardinality(Writers)
        BY <1>t, <3>1, <3>3, <3>4
    <3> QED
        BY <2>1, <3>1, <3>5, Zenon DEF TailBounded
  <2>3. CASE g \notin Echoing
    <3>1. tail' = tail
        BY <1>4, <2>3, Zenon DEF Echo, Echoing
    <3>2. Echoing' \subseteq Echoing
        BY <2>1, Zenon DEF Echoing, LoggingTypeOK
    <3> QED
        BY <1>1, <2>1, <3>1, <3>2
  <2> QED
      BY <2>2, <2>3
<1>5. CASE StopConsole
  <2>1. tail' = tail /\ tail = 0 /\ quiet'
      BY <1>5, Zenon DEF StopConsole, TailBounded
  <2>2. /\ Cardinality(Echoing') <= Cardinality(Writers)
        /\ Cardinality(Echoing') \in Nat /\ Cardinality(Writers) \in Nat
    <3>1. Echoing' \in SUBSET Writers /\ IsFiniteSet(Writers)
        BY LoggingAssumption DEF Echoing
    <3> QED
        BY <3>1, FS_Subset, FS_CardinalityType
  <2>3. tail' + Cardinality(Echoing') <= Cardinality(Writers)
      BY <2>1, <2>2
  <2> QED
      BY <2>1, <2>3, Zenon DEF TailBounded
<1>6. CASE HourPasses \/ UNCHANGED loggingVars
  <2>1. UNCHANGED <<quiet, tail, loud>>
      BY <1>6, Zenon DEF HourPasses, loggingVars
  <2>2. Echoing' = Echoing
      BY <2>1, Zenon DEF Echoing
  <2> QED
      BY <1>1, <2>1, <2>2
<1> QED
    BY <1>2, <1>3, <1>4, <1>5, <1>6 DEF LoggingNext

(* A line goes to the file of the hour it was logged in or of a later one, *)
(* whoever rotates the file meanwhile, for any number of goroutines; and   *)
(* the terminal gets at most one more line of each after stopConsole.      *)
THEOREM LinesAreFiled == LoggingSpec => []LinesFindTheirHour
<1>1. LoggingTypeOK /\ LinesAge /\ TailBounded => LinesFindTheirHour
  <2> SUFFICES ASSUME LoggingTypeOK, LinesAge, TailBounded
               PROVE  LinesFindTheirHour
      OBVIOUS
  <2>1. \A g \in Writers : line[g] = "write" => stamp[g] <= openFile /\ openFile = seen
      BY DEF LinesAge
  <2>2. tail + Cardinality({g \in Writers : quiet /\ loud[g]}) <= Cardinality(Writers)
      BY DEF TailBounded, Echoing
  <2>3. \A h \in Hours : files[h] \subseteq 0 .. h
      BY DEF LinesAge
  <2> QED
      BY <2>1, <2>2, <2>3 DEF LinesFindTheirHour
<1> QED
    BY <1>1, LoggingInitType, LoggingNextType, InitLinesAge, NextLinesAge, InitTail, NextTail,
       PTL DEF LoggingSpec
-----------------------------------------------------------------------------
(* Configuration (Configuration).                                          *)

AllServices == {"gateway", "engine", "persistence", "notifier", "risk"}

(* What a start of s makes of the present files and environment. *)
StartValue(s) == IF Panics(LoadedBy(s)) THEN "failed" ELSE LoadedBy(s)

(* Two services read the same number only in these cases. *)
LEMMA SharedSettings ==
    ASSUME NEW x, NEW s \in ReadBy(x), NEW r \in ReadBy(x), s # r
    PROVE  \/ /\ x \in {"approve_below", "decline_above"}
              /\ s \in {"engine", "risk"} /\ r \in {"engine", "risk"}
           \/ /\ x = "redis.port"
              /\ s \in {"gateway", "engine"} /\ r \in {"gateway", "engine"}
           \/ /\ x = "postgres.port"
              /\ s \in {"gateway", "persistence"} /\ r \in {"gateway", "persistence"}
<1>1. /\ s \in AllServices /\ r \in AllServices
      /\ s = "gateway" => x \in GatewayDefaults \cup GatewayBare \cup GatewaySecrets
      /\ s = "engine" => x \in EngineDefaults
      /\ s = "persistence" => x \in PersistenceDefaults
      /\ s = "notifier" => x \in NotifierDefaults
      /\ s = "risk" => x \in RiskPresets
      /\ r = "gateway" => x \in GatewayDefaults \cup GatewayBare \cup GatewaySecrets
      /\ r = "engine" => x \in EngineDefaults
      /\ r = "persistence" => x \in PersistenceDefaults
      /\ r = "notifier" => x \in NotifierDefaults
      /\ r = "risk" => x \in RiskPresets
    BY DEF ReadBy, AllServices
<1>2. x \in GatewayDefaults \cup GatewayBare \cup GatewaySecrets =>
          /\ x \in EngineDefaults => x = "redis.port"
          /\ x \in PersistenceDefaults => x = "postgres.port"
          /\ x \notin NotifierDefaults /\ x \notin RiskPresets
    BY DEF GatewayDefaults, GatewayBare, GatewaySecrets, EngineDefaults,
           PersistenceDefaults, NotifierDefaults, RiskPresets
<1>3. x \in EngineDefaults => x \notin PersistenceDefaults /\ x \notin NotifierDefaults
    BY DEF EngineDefaults, PersistenceDefaults, NotifierDefaults
<1>4. x \in PersistenceDefaults => x \notin NotifierDefaults /\ x \notin RiskPresets
    BY DEF PersistenceDefaults, NotifierDefaults, RiskPresets
<1>5. x \in NotifierDefaults => x \notin RiskPresets
    BY DEF NotifierDefaults, RiskPresets
<1>6. x \in EngineDefaults /\ x \in RiskPresets => x \in {"approve_below", "decline_above"}
    BY DEF EngineDefaults, RiskPresets
<1> QED
    BY <1>1, <1>2, <1>3, <1>4, <1>5, <1>6 DEF AllServices

(* What each loader makes of what is meant, the gateway if it is told      *)
(* something.                                                              *)
AsMeant(s) == IF Meant(s) = "word" THEN "failed" ELSE Meant(s)

LEMMA EngineLoads ==
    ASSUME setting \in EngineDefaults
    PROVE  LoadEngine = IF Meant("engine") = "zero" THEN "builtin" ELSE AsMeant("engine")
BY DEF LoadEngine, ReplaceZero, Unmarshal, Meant, AsMeant

LEMMA PersistenceLoads ==
    ASSUME setting \in PersistenceDefaults
    PROVE  LoadPersistence = IF Meant("persistence") = "zero" THEN "builtin"
                             ELSE AsMeant("persistence")
BY DEF LoadPersistence, ReplaceZero, Unmarshal, Meant, AsMeant

LEMMA NotifierLoads ==
    ASSUME setting \in NotifierDefaults
    PROVE  LoadNotifier = IF Meant("notifier") = "zero" THEN "builtin" ELSE AsMeant("notifier")
BY DEF LoadNotifier, ReplaceZero, Unmarshal, Meant, AsMeant

LEMMA RiskLoads ==
    LoadRisk = IF setting = "risk.grpc.port" /\ Meant("risk") = "zero" THEN "failed"
               ELSE AsMeant("risk")
BY DEF LoadRisk, Unmarshal, Meant, AsMeant

LEMMA GatewayLoads ==
    ASSUME setting \in GatewayDefaults \cup GatewayBare, ~Unheard
    PROVE  LoadGateway = IF Meant("gateway") = "zero" /\ setting \in GatewayDefaults
                         THEN "builtin" ELSE AsMeant("gateway")
<1>1. setting \notin GatewaySecrets
    BY DEF GatewayDefaults, GatewayBare, GatewaySecrets
<1>2. LoadGateway = ReplaceZero(Unmarshal(ExpandGateway, "zero"), setting \in GatewayDefaults)
    BY <1>1 DEF LoadGateway
<1>3. CASE ExpandGateway \in {"absent", "empty"}
  <2>1. env # "empty" /\ setting \in GatewayDefaults
      BY <1>3 DEF Unheard
  <2>2. ExpandOther("gateway") \in {"absent", "empty"}
      BY <1>3, <2>1 DEF ExpandGateway, ExpandOther
  <2> QED
      BY <1>2, <1>3, <2>1, <2>2 DEF ReplaceZero, Unmarshal, Meant, AsMeant
<1>4. CASE ExpandGateway \notin {"absent", "empty"}
  <2>1. ExpandOther("gateway") = ExpandGateway
      BY <1>4 DEF ExpandGateway, ExpandOther
  <2> QED
      BY <1>2, <1>4, <2>1 DEF ReplaceZero, Unmarshal, Meant, AsMeant
<1> QED
    BY <1>3, <1>4

(* A zero is what is meant, or a gateway was told nothing. *)
LEMMA StartsWithZero ==
    ASSUME NEW s \in ReadBy(setting), StartValue(s) = "zero"
    PROVE  /\ KeepsZero(s)
           /\ \/ Meant(s) = "zero"
              \/ s = "gateway" /\ Unheard
<1>1. LoadedBy(s) = "zero"
    BY DEF StartValue
<1>2. CASE s = "gateway"
  <2>1. LoadGateway = "zero"
      BY <1>1, <1>2 DEF LoadedBy
  <2>2. setting \notin GatewaySecrets
      BY <2>1 DEF LoadGateway
  <2>3. setting \in GatewayDefaults \cup GatewayBare
      BY <1>2, <2>2 DEF ReadBy
  <2>4. setting \notin GatewayDefaults
      BY <2>1, <2>2 DEF LoadGateway, ReplaceZero
  <2>5. ~Unheard => Meant("gateway") = "zero"
      BY <2>1, <2>3, GatewayLoads DEF AsMeant
  <2> QED
      BY <1>2, <2>3, <2>4, <2>5 DEF KeepsZero
<1>3. CASE s = "engine"
  <2>1. setting \in EngineDefaults
      BY <1>3 DEF ReadBy
  <2> QED
      BY <1>1, <1>3, <2>1, EngineLoads DEF LoadedBy, AsMeant
<1>4. CASE s = "persistence"
  <2>1. setting \in PersistenceDefaults
      BY <1>4 DEF ReadBy
  <2> QED
      BY <1>1, <1>4, <2>1, PersistenceLoads DEF LoadedBy, AsMeant
<1>5. CASE s = "notifier"
  <2>1. setting \in NotifierDefaults
      BY <1>5 DEF ReadBy
  <2> QED
      BY <1>1, <1>5, <2>1, NotifierLoads DEF LoadedBy, AsMeant
<1>6. CASE s = "risk"
    BY <1>1, <1>6, RiskLoads DEF LoadedBy, AsMeant, KeepsZero
<1> QED
    BY <1>2, <1>3, <1>4, <1>5, <1>6 DEF ReadBy

(* Two loaders make the same of the same, but for the exceptions. *)
Agree(s, r) ==
    \/ StartValue(s) = StartValue(r)
    \/ Meant(s) = "zero" /\ KeepsZero(s) # KeepsZero(r)
    \/ "gateway" \in {s, r} /\ Unheard

LEMMA LoadersAlike ==
    ASSUME NEW s \in ReadBy(setting), NEW r \in ReadBy(setting), Meant(s) = Meant(r)
    PROVE  Agree(s, r)
<1>1. CASE s = r
    BY <1>1 DEF Agree
<1>2. ASSUME s # r, LoadedBy(s) = LoadedBy(r)
      PROVE  Agree(s, r)
    BY <1>2 DEF Agree, StartValue
<1>3. CASE s # r /\ setting \in {"approve_below", "decline_above"}
  <2>1. s \in {"engine", "risk"} /\ r \in {"engine", "risk"}
      BY <1>3, SharedSettings
  <2>2. setting \in EngineDefaults /\ setting # "risk.grpc.port"
      BY <1>3 DEF EngineDefaults
  <2>3. CASE Meant(s) = "zero"
      BY <1>3, <2>1, <2>3 DEF Agree, KeepsZero
  <2>4. CASE Meant(s) # "zero"
      BY <1>2, <1>3, <2>1, <2>2, <2>4, EngineLoads, RiskLoads DEF LoadedBy, AsMeant
  <2> QED
      BY <2>3, <2>4
<1>4. CASE s # r /\ setting = "redis.port" /\ ~Unheard
  <2>1. s \in {"gateway", "engine"} /\ r \in {"gateway", "engine"}
      BY <1>4, SharedSettings
  <2>2. setting \in EngineDefaults /\ setting \in GatewayBare /\ setting \notin GatewayDefaults
      BY <1>4 DEF EngineDefaults, GatewayBare, GatewayDefaults
  <2>3. CASE Meant(s) = "zero"
      BY <1>4, <2>1, <2>2, <2>3 DEF Agree, KeepsZero
  <2>4. CASE Meant(s) # "zero"
      BY <1>2, <1>4, <2>1, <2>2, <2>4, EngineLoads, GatewayLoads DEF LoadedBy, AsMeant
  <2> QED
      BY <2>3, <2>4
<1>5. CASE s # r /\ setting = "postgres.port" /\ ~Unheard
  <2>1. s \in {"gateway", "persistence"} /\ r \in {"gateway", "persistence"}
      BY <1>5, SharedSettings
  <2>2. setting \in PersistenceDefaults /\ setting \in GatewayDefaults
      BY <1>5 DEF PersistenceDefaults, GatewayDefaults
  <2> QED
      BY <1>2, <1>5, <2>1, <2>2, PersistenceLoads, GatewayLoads DEF LoadedBy, AsMeant
<1>6. CASE s # r /\ setting \in {"redis.port", "postgres.port"} /\ Unheard
  <2>1. "gateway" \in {s, r}
      BY <1>6, SharedSettings
  <2> QED
      BY <1>6, <2>1 DEF Agree
<1> QED
    BY <1>1, <1>3, <1>4, <1>5, <1>6, SharedSettings

(* A process that loaded the present files has the value they make. *)
LoadedAsFound ==
    /\ launched = [s \in ReadBy(setting) |-> launched[s]]
    /\ file = [s \in ReadBy(setting) |-> file[s]]
    /\ fresh \subseteq ReadBy(setting)
    /\ \A s \in fresh : launched[s] = StartValue(s)
    /\ \A s \in ReadBy(setting) : launched[s] = "zero" => KeepsZero(s)

LEMMA InitLoaded == ConfigInit => LoadedAsFound
<1> SUFFICES ASSUME ConfigInit PROVE LoadedAsFound
    OBVIOUS
<1>1. /\ launched = [s \in ReadBy(setting) |-> "down"] /\ fresh = {}
      /\ file = [s \in ReadBy(setting) |-> Shipped(s)]
    BY DEF ConfigInit
<1>2. \A s \in ReadBy(setting) : launched[s] = "down" /\ file[s] = Shipped(s)
    BY <1>1
<1>3. /\ launched = [s \in ReadBy(setting) |-> launched[s]]
      /\ file = [s \in ReadBy(setting) |-> file[s]]
    BY <1>1, <1>2
<1> QED
    BY <1>1, <1>2, <1>3 DEF LoadedAsFound

(* What a service would start with depends on its own file, the number and *)
(* the environment alone.                                                  *)
LEMMA OwnFile ==
    ASSUME NEW r \in AllServices, UNCHANGED <<setting, env>>, file'[r] = file[r]
    PROVE  StartValue(r)' = StartValue(r)
<1>1. ExpandOther(r)' = ExpandOther(r)
    BY DEF ExpandOther, Names
<1>2. r = "gateway" => ExpandGateway' = ExpandGateway
    BY DEF ExpandGateway, Names
<1>3. LoadedBy(r)' = LoadedBy(r)
  <2>1. CASE r = "gateway"
      BY <1>2, <2>1 DEF LoadedBy, LoadGateway
  <2>2. CASE r = "engine"
      BY <1>1, <2>2 DEF LoadedBy, LoadEngine
  <2>3. CASE r = "persistence"
      BY <1>1, <2>3 DEF LoadedBy, LoadPersistence
  <2>4. CASE r = "notifier"
      BY <1>1, <2>4 DEF LoadedBy, LoadNotifier
  <2>5. CASE r = "risk"
      BY <1>1, <2>5 DEF LoadedBy, LoadRisk
  <2> QED
      BY <2>1, <2>2, <2>3, <2>4, <2>5 DEF AllServices
<1> QED
    BY <1>3 DEF StartValue, Panics

LEMMA NextLoaded == LoadedAsFound /\ [ConfigNext]_configVars => LoadedAsFound'
<1> SUFFICES ASSUME LoadedAsFound, [ConfigNext]_configVars
             PROVE  LoadedAsFound'
    OBVIOUS
<1> DEFINE R == ReadBy(setting)
<1>0. R \subseteq AllServices
    BY DEF ReadBy, AllServices
<1>k. ASSUME setting' = setting
      PROVE  R' = R /\ \A r \in R : KeepsZero(r)' = KeepsZero(r)
    BY <1>k DEF ReadBy, KeepsZero
<1>1. ASSUME NEW s \in R, Launch(s)
      PROVE  LoadedAsFound'
  <2>1. UNCHANGED <<setting, file, env>> /\ fresh' = fresh \cup {s}
      BY <1>1 DEF Launch
  <2>2. launched' = [launched EXCEPT ![s] = StartValue(s)]
      BY <1>1 DEF Launch, StartValue
  <2>3. \A r \in AllServices : StartValue(r)' = StartValue(r)
      BY <2>1, OwnFile
  <2>4. StartValue(s) = "zero" => KeepsZero(s)
      BY StartsWithZero
  <2>7. \A r \in R : launched'[r] = IF r = s THEN StartValue(s) ELSE launched[r]
      BY <2>2 DEF LoadedAsFound
  <2>8. launched' = [r \in R |-> launched'[r]]
      BY <2>2 DEF LoadedAsFound
  <2>9. \A r \in fresh' : r \in R /\ launched'[r] = StartValue(r)
      BY <2>1, <2>7 DEF LoadedAsFound
  <2>10. \A r \in fresh' : launched'[r] = StartValue(r)'
      BY <1>0, <2>3, <2>9
  <2>11. \A r \in R : launched'[r] = "zero" => KeepsZero(r)
      BY <2>4, <2>7 DEF LoadedAsFound
  <2> QED
      BY <1>k, <2>1, <2>8, <2>9, <2>10, <2>11 DEF LoadedAsFound
<1>2. ASSUME NEW s \in R, EditFile(s)
      PROVE  LoadedAsFound'
  <2>1. PICK text \in Texts : file' = [file EXCEPT ![s] = text]
      BY <1>2 DEF EditFile
  <2>2. UNCHANGED <<setting, env, launched>> /\ fresh' = fresh \ {s}
      BY <1>2 DEF EditFile
  <2>3. \A r \in fresh' : r \in R /\ r # s /\ file'[r] = file[r]
      BY <2>1, <2>2 DEF LoadedAsFound
  <2>4. \A r \in fresh' : StartValue(r)' = StartValue(r)
      BY <1>0, <2>2, <2>3, OwnFile
  <2>5. file' = [r \in R |-> file'[r]]
      BY <2>1 DEF LoadedAsFound
  <2>6. \A r \in fresh' : launched'[r] = StartValue(r)'
      BY <2>2, <2>4 DEF LoadedAsFound
  <2> QED
      BY <1>k, <2>2, <2>3, <2>5, <2>6 DEF LoadedAsFound
<1>3. CASE SetVariable
  <2>1. UNCHANGED <<setting, file, launched>> /\ fresh' = {}
      BY <1>3 DEF SetVariable
  <2> QED
      BY <1>k, <2>1 DEF LoadedAsFound
<1>4. CASE UNCHANGED configVars
  <2>1. UNCHANGED <<setting, file, env, launched, fresh>>
      BY <1>4 DEF configVars
  <2>2. \A r \in AllServices : StartValue(r)' = StartValue(r)
      BY <2>1, OwnFile
  <2> QED
      BY <1>0, <1>k, <2>1, <2>2 DEF LoadedAsFound
<1> QED
    BY <1>1, <1>2, <1>3, <1>4 DEF ConfigNext

(* However the five files, the environment and the restarts went: a zero   *)
(* is kept by the risk service and by the numbers of the gateway without a *)
(* default alone, and two services that loaded the present files use the   *)
(* same number where their files mean the same.                            *)
THEOREM LoadersMatch == ConfigSpec => []LoadersAgree
<1>1. LoadedAsFound => LoadersAgree
  <2> SUFFICES ASSUME LoadedAsFound
               PROVE  LoadersAgree
      OBVIOUS
  <2>1. \A s \in fresh : s \in ReadBy(setting) /\ launched[s] = StartValue(s)
      BY DEF LoadedAsFound
  <2>2. \A s \in ReadBy(setting) : launched[s] = "zero" => KeepsZero(s)
      BY DEF LoadedAsFound
  <2>3. ASSUME NEW s \in fresh, launched[s] = "zero"
        PROVE  Meant(s) = "zero" \/ (s = "gateway" /\ Unheard)
      BY <2>1, <2>3, StartsWithZero
  <2>4. ASSUME NEW s \in fresh, NEW r \in fresh, Meant(s) = Meant(r)
        PROVE  \/ launched[s] = launched[r]
               \/ Meant(s) = "zero" /\ KeepsZero(s) # KeepsZero(r)
               \/ "gateway" \in {s, r} /\ Unheard
    <3>1. Agree(s, r)
        BY <2>1, <2>4, LoadersAlike
    <3> QED
        BY <2>1, <3>1 DEF Agree
  <2> QED
      BY <2>2, <2>3, <2>4 DEF LoadersAgree
<1> QED
    BY <1>1, InitLoaded, NextLoaded, PTL DEF ConfigSpec
-----------------------------------------------------------------------------
(* The types of a configuration: a loader yields a value or fails.         *)
LEMMA StartValueType ==
    ASSUME ConfigTypeOK, NEW s \in ReadBy(setting)
    PROVE  StartValue(s) \in {"down", "failed"} \cup Loaded
<1>1. \A v \in {"failed"} \cup Loaded : \A h : ReplaceZero(v, h) \in {"failed"} \cup Loaded
    BY DEF ReplaceZero, Loaded
<1>2. ExpandOther(s) \in Texts
    BY DEF ConfigTypeOK, ExpandOther, EnvTexts
<1>3. \A b \in {"zero", "builtin"} :
        Unmarshal(ExpandOther(s), b) \in {"failed"} \cup Loaded
    BY <1>2 DEF Unmarshal, Texts, Loaded
<1>4. CASE s = "gateway"
  <2>1. ExpandGateway \in Texts
      BY <1>4 DEF ConfigTypeOK, ExpandGateway, EnvTexts
  <2>2. Unmarshal(ExpandGateway, "zero") \in {"failed"} \cup Loaded
      BY <2>1 DEF Unmarshal, Texts, Loaded
  <2>3. LoadGateway \in {"failed"} \cup Loaded
      BY <1>1, <2>2 DEF LoadGateway, Loaded
  <2> QED
      BY <1>4, <2>3 DEF StartValue, LoadedBy
<1>5. CASE s = "engine"
    BY <1>1, <1>3, <1>5 DEF StartValue, LoadedBy, LoadEngine
<1>6. CASE s = "persistence"
    BY <1>1, <1>3, <1>6 DEF StartValue, LoadedBy, LoadPersistence
<1>7. CASE s = "notifier"
    BY <1>1, <1>3, <1>7 DEF StartValue, LoadedBy, LoadNotifier
<1>8. CASE s = "risk"
    BY <1>3, <1>8 DEF StartValue, LoadedBy, LoadRisk
<1> QED
    BY <1>4, <1>5, <1>6, <1>7, <1>8 DEF ReadBy

LEMMA ConfigInitType == ConfigInit => ConfigTypeOK
BY DEF ConfigInit, ConfigTypeOK, Texts, EnvTexts, Shipped

LEMMA ConfigNextType == ConfigTypeOK /\ [ConfigNext]_configVars => ConfigTypeOK'
<1> SUFFICES ASSUME ConfigTypeOK, [ConfigNext]_configVars
             PROVE  ConfigTypeOK'
    OBVIOUS
<1>k. setting' = setting => ReadBy(setting)' = ReadBy(setting)
    BY DEF ReadBy
<1>1. ASSUME NEW s \in ReadBy(setting), Launch(s)
      PROVE  ConfigTypeOK'
  <2>1. launched' = [launched EXCEPT ![s] = StartValue(s)]
      BY <1>1 DEF Launch, StartValue
  <2>2. launched' \in [ReadBy(setting) -> {"down", "failed"} \cup Loaded]
      BY <1>1, <2>1, StartValueType DEF ConfigTypeOK
  <2> QED
      BY <1>k, <1>1, <2>2 DEF Launch, ConfigTypeOK, Loaded
<1>2. ASSUME NEW s \in ReadBy(setting), EditFile(s)
      PROVE  ConfigTypeOK'
    BY <1>k, <1>2 DEF EditFile, ConfigTypeOK, Loaded
<1>3. CASE SetVariable
    BY <1>k, <1>3 DEF SetVariable, ConfigTypeOK, Loaded
<1>4. CASE UNCHANGED configVars
    BY <1>k, <1>4 DEF configVars, ConfigTypeOK, Loaded
<1> QED
    BY <1>1, <1>2, <1>3, <1>4 DEF ConfigNext

-----------------------------------------------------------------------------
(* The parts side by side (MCGatewayEdge).                                 *)

LEMMA PartsStart ==
    EdgeInit => /\ ProvisionInit /\ AuthInit /\ LimiterInit
                /\ LifecycleInit /\ ConfigInit /\ LoggingInit
BY DEF EdgeInit, AuthRests, LifeRests, ConfigRests

LEMMA PartsStep ==
    [EdgeNext]_edgeVars => /\ [ProvisionNext]_provisionVars
                           /\ [AuthNext]_authVars
                           /\ [LimiterNext]_limiterVars
                           /\ [LifecycleNext]_lifeVars
                           /\ [ConfigNext]_configVars
                           /\ [LoggingNext]_loggingVars
BY Zenon DEF EdgeNext, edgeVars

(* Put side by side each part behaves as it does alone, so that what is    *)
(* proved of a part holds of all of them together: they share nothing.     *)
THEOREM PartsMoveAlone ==
    EdgeSpec => /\ ProvisionSpec /\ AuthSafety /\ LimiterSpec
                /\ LifecycleInit /\ [][LifecycleNext]_lifeVars
                /\ ConfigSpec /\ LoggingSpec
BY PartsStart, PartsStep, PTL
DEF EdgeSpec, ProvisionSpec, AuthSafety, LimiterSpec, ConfigSpec, LoggingSpec

(* Every part keeps its types, for any values of all their constants.      *)
THEOREM EdgeTypesCorrect == EdgeSpec => []EdgeTypeOK
<1>1. /\ LifecycleInit /\ [][LifecycleNext]_lifeVars => []LifecycleTypeOK
      /\ ConfigSpec => []ConfigTypeOK
      /\ LoggingSpec => []LoggingTypeOK
    BY LifecycleInitType, LifecycleNextType, ConfigInitType, ConfigNextType,
       LoggingInitType, LoggingNextType, PTL DEF ConfigSpec, LoggingSpec
<1>2. /\ ProvisionTypeOK /\ AuthTypeOK /\ LimiterTypeOK /\ LifecycleTypeOK
      /\ ConfigTypeOK /\ LoggingTypeOK
      => EdgeTypeOK
    BY DEF EdgeTypeOK
<1> QED
    BY <1>1, <1>2, PartsMoveAlone, AuthTypeCorrect, ProvisionTypeCorrect, LimiterTypeCorrect, PTL
===============================================================================
