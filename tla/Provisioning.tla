----------------------------- MODULE Provisioning -----------------------------
(***************************************************************************)
(* ProvisionClient of the API gateway: the row of a client in api_clients, *)
(* then its SCRAM credential, its results topic and its two ACLs in Kafka, *)
(* without a transaction around them.  Several attempts for one client_id, *)
(* on any number of gateways, interleave; each draws a key and a password  *)
(* of its own, so an attempt also stands for its secrets.  Attempts for    *)
(* different ids touch nothing in common.                                  *)
(***************************************************************************)
EXTENDS Naturals, FiniteSets

CONSTANTS Attempts,   \* the calls of ProvisionClient for the client_id
          Nobody      \* no row, no credential

ASSUME ProvisioningAssumption == Nobody \notin Attempts

VARIABLES row,        \* the attempt whose key hash is in api_clients, or Nobody
          scram,      \* the attempt whose password the broker has, or Nobody
          topic,      \* whether results.<client_id> exists
          acls,       \* the ACLs the principal was granted
          progress,   \* progress[a]: where attempt a is, or how it ended
          at,         \* at[a]: the step a is in, or ended in
          pending,    \* requests whose sender no longer waits, still to take effect
          deleted     \* attempts whose row an operator deleted

provisionVars ==
    <<row, scram, topic, acls, progress, at, pending, deleted>>

Steps == {"check", "insert", "scram", "topic", "acls"}
Acls  == {"topic", "group"}
Ended == {"ok", "exists", "refused", "failed", "gone"}

\* The steps before a step, in the order of Provision.
Before(s) == CASE s = "check"  -> {}
               [] s = "insert" -> {}
               [] s = "scram"  -> {"insert"}
               [] s = "topic"  -> {"insert", "scram"}
               [] s = "acls"   -> {"insert", "scram", "topic"}

ProvisionTypeOK ==
    /\ row \in Attempts \cup {Nobody} /\ scram \in Attempts \cup {Nobody}
    /\ topic \in BOOLEAN /\ acls \subseteq Acls
    /\ progress \in [Attempts -> {"idle", "working"} \cup Ended]
    /\ at \in [Attempts -> Steps]
    /\ pending \subseteq (Attempts \X (Steps \ {"check"}))
    /\ deleted \subseteq Attempts

ProvisionInit ==
    /\ row = Nobody /\ scram = Nobody /\ topic = FALSE /\ acls = {}
    /\ progress = [a \in Attempts |-> "idle"]
    /\ at = [a \in Attempts |-> "check"]
    /\ pending = {} /\ deleted = {}

-------------------------------------------------------------------------------
(* What the requests do where they are carried out.                        *)

\* The primary key rejects a second row.
InsertClient(a) == row = Nobody /\ row' = a /\ UNCHANGED <<scram, topic, acls>>

UpsertSCRAMCredential(a) == scram' = a /\ UNCHANGED <<row, topic, acls>>

\* A topic that exists is not an error.
CreateResultsTopic(a) == topic' = TRUE /\ UNCHANGED <<row, scram, acls>>

\* One request for both; the broker answers for each of them.
GrantResultsACLs(a, granted) ==
    acls' = acls \cup granted /\ UNCHANGED <<row, scram, topic>>

Carry(a, s) == \/ s = "insert" /\ InsertClient(a)
               \/ s = "scram" /\ UpsertSCRAMCredential(a)
               \/ s = "topic" /\ CreateResultsTopic(a)
               \/ s = "acls" /\ GrantResultsACLs(a, Acls)

In(a, s) == progress[a] = "working" /\ at[a] = s

Move(a, s) == at' = [at EXCEPT ![a] = s] /\ UNCHANGED progress
End(a, how) == progress' = [progress EXCEPT ![a] = how] /\ UNCHANGED at

Unmoved == UNCHANGED <<row, scram, topic, acls>>

-------------------------------------------------------------------------------
(* An attempt.                                                             *)

Call(a) ==
    /\ progress[a] = "idle"
    /\ progress' = [progress EXCEPT ![a] = "working"]
    /\ Unmoved /\ UNCHANGED <<at, pending, deleted>>

\* Wrong admin key, an empty field, or an id that is not a legal name.
Refuse(a) ==
    /\ In(a, "check") /\ End(a, "refused")
    /\ Unmoved /\ UNCHANGED <<pending, deleted>>

\* The secrets are drawn.
Draw(a) ==
    /\ In(a, "check") /\ Move(a, "insert")
    /\ Unmoved /\ UNCHANGED <<pending, deleted>>

RowExists(a) ==
    /\ In(a, "insert") /\ row # Nobody /\ End(a, "exists")
    /\ Unmoved /\ UNCHANGED <<pending, deleted>>

\* What a bug would do: INSERT ... ON CONFLICT DO UPDATE.
InsertsOver(a) ==
    /\ In(a, "insert") /\ row' = a /\ Move(a, "scram")
    /\ UNCHANGED <<scram, topic, acls, pending, deleted>>

Inserted(a) ==
    /\ In(a, "insert") /\ InsertClient(a) /\ Move(a, "scram")
    /\ UNCHANGED <<pending, deleted>>

CredentialSet(a) ==
    /\ In(a, "scram") /\ UpsertSCRAMCredential(a) /\ Move(a, "topic")
    /\ UNCHANGED <<pending, deleted>>

TopicCreated(a) ==
    /\ In(a, "topic") /\ CreateResultsTopic(a) /\ Move(a, "acls")
    /\ UNCHANGED <<pending, deleted>>

Granted(a) ==
    /\ In(a, "acls") /\ GrantResultsACLs(a, Acls) /\ End(a, "ok")
    /\ UNCHANGED <<pending, deleted>>

\* No random bytes, an error that was answered (then nothing was done, except
\* that one of the ACLs may have been granted), or none in time: then the
\* request may still take effect.
StepFails(a) ==
    /\ progress[a] = "working" /\ End(a, "failed")
    /\ \/ Unmoved /\ UNCHANGED pending
       \/ at[a] # "check" /\ pending' = pending \cup {<<a, at[a]>>} /\ Unmoved
       \/ at[a] = "acls" /\ UNCHANGED pending
          /\ \E x \in Acls : GrantResultsACLs(a, {x})
    /\ UNCHANGED deleted

\* The gateway dies in the middle of a call.
Die(a) ==
    /\ progress[a] = "working" /\ End(a, "gone")
    /\ pending' \in {pending, pending \cup ({<<a, at[a]>>} \ {<<a, "check">>})}
    /\ Unmoved /\ UNCHANGED deleted

\* A request that nobody waits for takes effect.
LandsLate(a, s) ==
    /\ <<a, s>> \in pending /\ Carry(a, s)
    /\ pending' = pending \ {<<a, s>>} /\ UNCHANGED <<progress, at, deleted>>

\* The operator deletes the row of an attempt that did not hand out its key.
DeleteRow(a) ==
    /\ row = a /\ progress[a] \in {"failed", "gone"}
    /\ row' = Nobody /\ deleted' = deleted \cup {a}
    /\ UNCHANGED <<scram, topic, acls, progress, at, pending>>

ProvisionNext ==
    \E a \in Attempts :
        \/ Call(a) \/ Refuse(a) \/ Draw(a) \/ RowExists(a) \/ Inserted(a)
        \/ CredentialSet(a) \/ TopicCreated(a) \/ Granted(a) \/ StepFails(a) \/ Die(a)
        \/ \E s \in Steps : LandsLate(a, s)
        \/ DeleteRow(a)

ProvisionSpec == ProvisionInit /\ [][ProvisionNext]_provisionVars

-------------------------------------------------------------------------------
(* Properties.                                                             *)

\* What the caller is told to exist: everything by a success, the earlier
\* steps by the text of a failure.
Claimed(a) == CASE progress[a] = "ok" -> Steps
                [] progress[a] = "failed" -> Before(at[a])
                [] OTHER -> {}

\* The credential may be replaced by a request of an attempt that failed in
\* that very step, whose row was deleted while the request was under way.
Overtaken == \E a \in deleted : scram = a /\ at[a] = "scram"

\* An attempt never tells its caller of a step that was not carried out, or
\* that another attempt undid: a key that was handed out is in the table, with
\* its password, topic and both ACLs in the broker; a failure that tells which
\* steps succeeded is right (the messages of provision.go:91-107), until the
\* operator deletes the row.  The one exception is Overtaken.
RepliesHold ==
    \A a \in Attempts \ deleted :
        /\ "insert" \in Claimed(a) => row = a
        /\ "scram" \in Claimed(a) => scram = a \/ Overtaken
        /\ "topic" \in Claimed(a) => topic
        /\ "acls" \in Claimed(a) => acls = Acls
===============================================================================
