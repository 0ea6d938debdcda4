--------------------------- MODULE SessionRecords ---------------------------
(***************************************************************************)
(* The records of the session registry file and the judgement recovery     *)
(* passes on them (session_registry_impl.hpp, session_registry_recovery.cpp). *)
(*                                                                         *)
(* A record is one durable line of the file.  Its "session" field is the   *)
(* snapshot of the session the record leaves behind; an intent record      *)
(* copies the current snapshot and adds an intent.  "seq" stands for the   *)
(* sequence number and for the hash link to the previous record, and       *)
(* "request" for the request digest: the exact request it commits to.      *)
(* "exec" is the identity of what was prepared to run the session: the     *)
(* launch profile with either cgroup and filesystem identities (Linux) or  *)
(* a managed runtime identity (Apple container, remote worker).            *)
(***************************************************************************)
EXTENDS Integers, Sequences, FiniteSets

CONSTANTS
    Sessions,         \* session ids
    Plans,            \* canonical plans, with their digests and revision
    RefinementPlans,  \* the plans whose template is the refinement runtime
    PlanExpiry,       \* expires_at_ms of each plan
    AuthIds,          \* start-authorization ids
    LinuxExecs,       \* profile + cgroup + filesystem identities
    ManagedExecs,     \* profile + managed runtime identities
    Procs,            \* process identities (pid, boot id, start ticks)
    CallerKeys,       \* for each operation, the idempotency keys its callers use
    IntentIds,        \* (channel generation, intent id) pairs
    Bodies,           \* observation bodies, with their schema
    Catalogs,         \* channel catalogs a daemon may be configured with
    MaxRecords,       \* max_records
    MaxAuthTTL,       \* max_start_authorization_ttl_ms
    MaxIntentTTL,     \* max_observation_intent_ttl_ms
    None

Execs == LinuxExecs \cup ManagedExecs
Keys == UNION {CallerKeys[op] : op \in DOMAIN CallerKeys}

\* channel_host: a catalog maps a body to the longest ttl its descriptor
\* admits for it, 0 when no descriptor admits the body.  register_channel
\* refuses a descriptor above the registry-wide maximum.
ASSUME CatalogAssumption ==
    Catalogs \subseteq [Bodies -> 0..MaxIntentTTL]

---------------------------------------------------------------------------
(* What a record holds.                                                    *)

LifecycleOps == {"create", "reserve_start", "mark_starting",
    "mark_managed_starting", "mark_running", "mark_managed_running",
    "mark_stopping", "mark_managed_stopping", "mark_exited",
    "mark_refinement_exited", "mark_managed_exited", "mark_failed",
    "mark_managed_failed"}

ASSUME ConstantsAssumption ==
    /\ PlanExpiry \in [Plans -> Nat]
    /\ RefinementPlans \subseteq Plans
    /\ LinuxExecs \cap ManagedExecs = {}
    /\ MaxRecords \in Nat /\ MaxAuthTTL \in Nat /\ MaxIntentTTL \in Nat
    /\ None \notin Execs \cup Procs \cup AuthIds
    /\ LifecycleOps \subseteq DOMAIN CallerKeys

States == {"created", "preparing", "starting", "running", "stopping",
    "exited", "failed"}

FailureCodes == {"authorization_expired", "launch_failed",
    "supervisor_error", "recovered_without_process", "recovered_terminated"}

\* The only failures a session that was running can be closed with.
PostLaunchCodes ==
    {"supervisor_error", "recovered_without_process", "recovered_terminated"}

Dispositions == {"accepted", "rejected", "expired"}

Authorizations == [id : AuthIds, approved : Nat, expires : Nat]
NoAuth == [id |-> None, approved |-> 0, expires |-> 0]

Receipts == [sid : Sessions, plan : Plans, exec : Execs \cup {None},
             started : Nat, finished : Nat]

Snapshots == [sid : Sessions, state : States, plan : Plans, createdAt : Nat,
    auth : Authorizations \cup {NoAuth}, exec : Execs \cup {None},
    startingAt : Nat, runningAt : Nat, proc : Procs \cup {None},
    stoppingAt : Nat, code : FailureCodes \cup {"none"}, finishedAt : Nat,
    receipt : Receipts \cup {None}]

IntentType == [id : IntentIds, body : Bodies, issued : Nat, expires : Nat,
    disposition : Dispositions \cup {"pending"}, decidedAt : Nat]

ASSUME NoneAssumption == None \notin Receipts /\ None \notin IntentType

---------------------------------------------------------------------------
(* The requests the digests commit to.                                     *)

CreateRequest(s, p) == [op |-> "create", sid |-> s, plan |-> p]

\* hash_start_authorization
AuthorizationRequest(x) ==
    [op |-> "authorize", sid |-> x.sid, plan |-> x.plan, auth |-> x.auth]

\* hash_execution_binding, hash_managed_execution_binding
BindingRequest(op, x) ==
    [op |-> op, sid |-> x.sid, plan |-> x.plan, auth |-> x.auth.id,
     exec |-> x.exec]

\* hash_running_commitment, hash_stopping_commitment and managed forms
RunningRequest(op, x) ==
    [op |-> op, sid |-> x.sid, plan |-> x.plan, auth |-> x.auth.id,
     exec |-> x.exec, proc |-> x.proc]

\* hash_terminal_reference
TerminalRequest(receipt) == [op |-> "terminal", receipt |-> receipt]

\* hash_failure_commitment
FailureRequest(x) ==
    [op |-> "failure", sid |-> x.sid, plan |-> x.plan, auth |-> x.auth.id,
     exec |-> x.exec, code |-> x.code]

\* hash_observation_intent_request: body and context, not the disposition
EnqueueRequest(x, in) ==
    [op |-> "enqueue", sid |-> x.sid, plan |-> x.plan, exec |-> x.exec,
     id |-> in.id, body |-> in.body, issued |-> in.issued,
     expires |-> in.expires]

\* hash_observation_intent_disposition
DispositionRequest(x, in) ==
    [op |-> "disposition", sid |-> x.sid, id |-> in.id, body |-> in.body,
     disposition |-> in.disposition, decidedAt |-> in.decidedAt]

\* Intent records use no caller key: theirs is derived from the digest.
IntentKey(request) == <<request.op, request>>

\* The digest recovery recomputes from the stored fields of a record.  The
\* digest of a create is that of the request text and is not recomputed.
RecomputedRequest(r) ==
    LET x == r.session IN
    CASE r.op = "reserve_start" -> AuthorizationRequest(x)
      [] r.op \in {"mark_starting", "mark_managed_starting"} ->
            BindingRequest(r.op, x)
      [] r.op \in {"mark_running", "mark_managed_running", "mark_stopping",
                   "mark_managed_stopping"} -> RunningRequest(r.op, x)
      [] r.op \in {"mark_exited", "mark_refinement_exited",
                   "mark_managed_exited"} -> TerminalRequest(x.receipt)
      [] r.op \in {"mark_failed", "mark_managed_failed"} -> FailureRequest(x)
      [] r.op = "enqueue_intent" -> EnqueueRequest(x, r.intent)
      [] r.op = "set_disposition" -> DispositionRequest(x, r.intent)
      [] OTHER -> r.request

---------------------------------------------------------------------------
(* valid_record_shape: what a single record must look like to be accepted. *)

Authorized(x) ==
    /\ x.auth.id \in AuthIds
    /\ x.auth.approved # 0
    /\ x.auth.expires > x.auth.approved
    /\ x.auth.expires - x.auth.approved <= MaxAuthTTL
    /\ x.auth.expires <= PlanExpiry[x.plan]

Started(x) ==
    /\ Authorized(x)
    /\ x.startingAt >= x.auth.approved
    /\ x.startingAt < x.auth.expires

NotStarted(x) == x.startingAt = 0 /\ x.exec = None
NotRunning(x) == x.runningAt = 0 /\ x.proc = None
NoStopIntent(x) == x.stoppingAt = 0
NotTerminal(x) == x.code = "none" /\ x.finishedAt = 0 /\ x.receipt = None

Prepared(x) == x.exec \in LinuxExecs
Managed(x) == x.exec \in ManagedExecs /\ x.proc = None

Launched(x) == x.runningAt >= x.startingAt /\ x.runningAt < x.auth.expires
Running(x) == Launched(x) /\ Prepared(x) /\ x.proc \in Procs
ManagedRunning(x) == Launched(x) /\ Managed(x)
StopOrdered(x) == NoStopIntent(x) \/ x.stoppingAt >= x.runningAt

\* The latest phase time the snapshot records: nothing may finish before it.
PhaseTime(x) ==
    IF x.stoppingAt # 0 THEN x.stoppingAt
    ELSE IF x.runningAt # 0 THEN x.runningAt ELSE x.startingAt

Terminated(x) ==
    /\ StopOrdered(x)
    /\ x.code = "none"
    /\ x.receipt # None
    /\ x.receipt.started # 0 /\ x.receipt.started <= x.runningAt
    /\ x.finishedAt >= PhaseTime(x)

FailedShape(x) ==
    /\ x.code # "none"
    /\ x.receipt = None
    /\ x.finishedAt >= PhaseTime(x)

SnapshotShape(op, x) ==
    \/ /\ op = "create" /\ x.state = "created"
       /\ x.auth = NoAuth /\ NotStarted(x) /\ NotRunning(x)
       /\ NoStopIntent(x) /\ NotTerminal(x)
    \/ /\ op = "reserve_start" /\ x.state = "preparing"
       /\ Authorized(x) /\ NotStarted(x) /\ NotRunning(x)
       /\ NoStopIntent(x) /\ NotTerminal(x)
    \/ /\ x.state = "starting" /\ Started(x) /\ NotRunning(x)
       /\ NoStopIntent(x) /\ NotTerminal(x)
       /\ \/ op = "mark_starting" /\ Prepared(x)
          \/ op = "mark_managed_starting" /\ Managed(x)
    \/ /\ x.state = "running" /\ Started(x) /\ NoStopIntent(x)
       /\ NotTerminal(x)
       /\ \/ op = "mark_running" /\ Running(x)
          \/ op = "mark_managed_running" /\ ManagedRunning(x)
    \/ /\ x.state = "stopping" /\ Started(x) /\ NotTerminal(x)
       /\ x.stoppingAt >= x.runningAt
       /\ \/ op = "mark_stopping" /\ Running(x)
          \/ op = "mark_managed_stopping" /\ ManagedRunning(x)
    \/ /\ x.state = "exited" /\ Started(x) /\ Terminated(x)
       /\ \/ op \in {"mark_exited", "mark_refinement_exited"} /\ Running(x)
          \/ op = "mark_managed_exited" /\ ManagedRunning(x)
    \/ /\ x.state = "failed" /\ Started(x) /\ FailedShape(x)
       /\ \/ /\ op = "mark_failed"
             /\ \/ Prepared(x) /\ NotRunning(x) /\ NoStopIntent(x)
                \/ Running(x) /\ StopOrdered(x) /\ x.code \in PostLaunchCodes
          \/ /\ op = "mark_managed_failed" /\ Managed(x)
             /\ \/ x.runningAt = 0 /\ NoStopIntent(x)
                \/ /\ x.runningAt # 0 /\ StopOrdered(x)
                   /\ x.code \in PostLaunchCodes

IntentShape(op, in) ==
    /\ in.issued # 0
    /\ in.expires > in.issued
    /\ in.expires - in.issued <= MaxIntentTTL
    /\ \/ /\ op = "enqueue_intent"
          /\ in.disposition = "pending" /\ in.decidedAt = 0
       \/ /\ op = "set_disposition"
          /\ in.disposition # "pending"
          /\ in.decidedAt >= in.issued
          /\ (in.disposition = "expired") <=> (in.decidedAt >= in.expires)

valid_record_shape(r) ==
    IF r.op \in LifecycleOps
      THEN r.intent = None /\ SnapshotShape(r.op, r.session)
      ELSE r.intent # None /\ IntentShape(r.op, r.intent)

---------------------------------------------------------------------------
(* accept_recovered_record: whether r may follow the accepted log.         *)

\* i is the record the sessions index of the log points to for session s.
IsLatest(log, i, s) ==
    /\ i \in 1..Len(log)
    /\ log[i].session.sid = s
    /\ log[i].op \in LifecycleOps
    /\ \A j \in 1..Len(log) :
          j > i /\ log[j].session.sid = s => log[j].op \notin LifecycleOps

Known(log, s) ==
    \E i \in 1..Len(log) : log[i].session.sid = s /\ log[i].op \in LifecycleOps

\* The record of operation op for intent id of session s.
IsIntent(log, i, op, s, id) ==
    /\ i \in 1..Len(log)
    /\ log[i].op = op
    /\ log[i].session.sid = s
    /\ log[i].intent.id = id

SamePlan(p, x) == p.plan = x.plan /\ p.createdAt = x.createdAt
SameAuth(p, x) == SamePlan(p, x) /\ p.auth = x.auth
SameExec(p, x) ==
    SameAuth(p, x) /\ p.exec = x.exec /\ p.startingAt = x.startingAt
SameRun(p, x) ==
    SameExec(p, x) /\ p.runningAt = x.runningAt /\ p.proc = x.proc
SameStop(p, x) == SameRun(p, x) /\ p.stoppingAt = x.stoppingAt

\* The transition from the latest snapshot p of the session to x.
ValidTransition(p, x) ==
    \/ /\ x.state = "preparing" /\ p.state = "created" /\ SamePlan(p, x)
       /\ x.auth.approved >= x.createdAt
    \/ /\ x.state = "starting" /\ p.state = "preparing" /\ SameAuth(p, x)
    \/ /\ x.state = "running" /\ p.state = "starting" /\ SameExec(p, x)
    \/ /\ x.state = "stopping" /\ p.state = "running" /\ SameRun(p, x)
    \/ /\ x.state = "exited" /\ p.state \in {"running", "stopping"}
       /\ SameStop(p, x)
    \/ /\ x.state = "failed" /\ p.state \in {"starting", "running", "stopping"}
       /\ SameStop(p, x)

\* same_session_snapshot neutralises the state and the running time.
SameSnapshot(p, x) ==
    [p EXCEPT !.state = x.state, !.runningAt = x.runningAt] = x

AcceptsEnqueue(log, r) ==
    /\ \E i \in 1..Len(log) :
          /\ IsLatest(log, i, r.session.sid)
          /\ SameSnapshot(log[i].session, r.session)
          /\ log[i].session.state = "running"
          /\ r.intent.issued >= log[i].session.runningAt
    /\ r.key = IntentKey(r.request)
    /\ \A i \in 1..Len(log) :
          ~IsIntent(log, i, "enqueue_intent", r.session.sid, r.intent.id)

AcceptsDisposition(log, r) ==
    /\ \E i \in 1..Len(log) :
          /\ IsLatest(log, i, r.session.sid)
          /\ SameSnapshot(log[i].session, r.session)
    /\ r.key = IntentKey(r.request)
    /\ \E i \in 1..Len(log) :
          /\ IsIntent(log, i, "enqueue_intent", r.session.sid, r.intent.id)
          /\ [log[i].intent EXCEPT !.disposition = r.intent.disposition,
                                   !.decidedAt = r.intent.decidedAt] = r.intent
    /\ \A i \in 1..Len(log) :
          ~IsIntent(log, i, "set_disposition", r.session.sid, r.intent.id)

accept_recovered_record(log, r) ==
    /\ r.seq = Len(log) + 1
    /\ valid_record_shape(r)
    /\ \A i \in 1..Len(log) : log[i].key # r.key
    /\ r.request = RecomputedRequest(r)
    /\ \/ r.op = "enqueue_intent" /\ AcceptsEnqueue(log, r)
       \/ r.op = "set_disposition" /\ AcceptsDisposition(log, r)
       \/ r.op = "create" /\ ~Known(log, r.session.sid)
       \/ /\ r.op \in LifecycleOps \ {"create"}
          /\ \E i \in 1..Len(log) :
                /\ IsLatest(log, i, r.session.sid)
                /\ ValidTransition(log[i].session, r.session)

\* recover reads the file from the start: each record is judged against the
\* records before it.
recover(log) ==
    /\ Len(log) <= MaxRecords
    /\ \A n \in 1..Len(log) :
          accept_recovered_record(SubSeq(log, 1, n - 1), log[n])

\* The indexes recover leaves behind.  An intent the configured catalog no
\* longer admits is quarantined: kept out of the queue, not lost.
SessionIndex(log) ==
    [s \in Sessions |->
        IF Known(log, s) THEN CHOOSE i \in 1..Len(log) : IsLatest(log, i, s)
                         ELSE 0]

KeyIndex(log) == {log[i].key : i \in 1..Len(log)}

IntentsOf(log, op) ==
    {<<log[i].session.sid, log[i].intent.id>> :
        i \in {j \in 1..Len(log) : log[j].op = op}}

historical_observation_quarantine(log, cat) ==
    {<<log[i].session.sid, log[i].intent.id>> :
        i \in {j \in 1..Len(log) :
                  /\ log[j].op = "enqueue_intent"
                  /\ log[j].intent.expires - log[j].intent.issued
                        > cat[log[j].intent.body]}}

---------------------------------------------------------------------------
(* Types.                                                                  *)

Requests ==
    [op : {"create"}, sid : Sessions, plan : Plans]
    \cup [op : {"authorize"}, sid : Sessions, plan : Plans,
          auth : Authorizations]
    \cup [op : LifecycleOps, sid : Sessions, plan : Plans, auth : AuthIds,
          exec : Execs]
    \cup [op : LifecycleOps, sid : Sessions, plan : Plans, auth : AuthIds,
          exec : Execs, proc : Procs \cup {None}]
    \cup [op : {"terminal"}, receipt : Receipts]
    \cup [op : {"failure"}, sid : Sessions, plan : Plans, auth : AuthIds,
          exec : Execs, code : FailureCodes]
    \cup [op : {"enqueue"}, sid : Sessions, plan : Plans,
          exec : Execs \cup {None}, id : IntentIds, body : Bodies,
          issued : Nat, expires : Nat]
    \cup [op : {"disposition"}, sid : Sessions, id : IntentIds, body : Bodies,
          disposition : Dispositions, decidedAt : Nat]

\* Keys derived from an intent's digest.
IntentKeys == {"enqueue", "disposition"} \X Requests
AllKeys == Keys \cup IntentKeys

\* Callers and intents share one key space; no caller picks a key that has
\* the form of an intent's, which contains a digest.
ASSUME KeySpaceAssumption == \A key \in Keys : key \notin IntentKeys

IntentOps == {"enqueue_intent", "set_disposition"}

LifecycleRecords == [seq : Nat, op : LifecycleOps, key : Keys,
    request : Requests, session : Snapshots, intent : {None}]
IntentRecords == [seq : Nat, op : IntentOps, key : IntentKeys,
    request : Requests, session : Snapshots, intent : IntentType]
Records == LifecycleRecords \cup IntentRecords
=============================================================================
