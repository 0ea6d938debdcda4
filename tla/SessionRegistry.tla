-------------------------- MODULE SessionRegistry --------------------------
(***************************************************************************)
(* The durable session registry of gloved (session_registry.cpp and its    *)
(* replay and recovery files): an append-only file of session records, the *)
(* in-memory indexes over it, the lifecycle transitions that append to it, *)
(* the queue of observation intents kept in the same file, and recovery.   *)
(*                                                                         *)
(* Every operation runs under the registry mutex, so it is one action;     *)
(* create and reserve_start release the mutex to have the plan resolved,   *)
(* so each is two.  A call that is refused, replayed or rolled back leaves *)
(* no trace and is a stuttering step.                                      *)
(***************************************************************************)
EXTENDS SessionRecords

CONSTANTS
    Threads,          \* callers of the two-phase operations
    MaxTime,          \* bound: the model's clock stops there
    MaxSkew,          \* max_skew_ms of the channel descriptors
    ClockStepsBack    \* may the wall clock be set back?

Times == 1..MaxTime

ASSUME ClockAssumption ==
    /\ MaxTime \in Nat \ {0}
    /\ MaxSkew \in Nat
    /\ ClockStepsBack \in BOOLEAN

---------------------------------------------------------------------------
VARIABLES
    now,         \* the wall clock (system_clock)
    disk,        \* the complete records of the registry file
    torn,        \* does the file end in a partial record?
    up,          \* is the registry open?
    poisoned,
    catalog,     \* the channel catalog of this incarnation
    records,
    sessions,    \* index of the latest lifecycle record, 0 if unknown
    requests,    \* idempotency keys in use
    observation_intents,
    observation_dispositions,
    quarantined_observation_intents,
    inflight,    \* create and reserve_start calls between their two locks
    journal      \* terminal receipts durable in the receipt journal

indexes == <<records, sessions, requests, observation_intents,
             observation_dispositions, quarantined_observation_intents>>
vars == <<now, disk, torn, up, poisoned, catalog, indexes, inflight, journal>>

Init ==
    /\ now \in Times
    /\ disk = <<>> /\ torn = FALSE
    /\ up = FALSE /\ poisoned = FALSE
    /\ catalog \in Catalogs
    /\ records = <<>> /\ sessions = [s \in Sessions |-> 0]
    /\ requests = {} /\ observation_intents = {}
    /\ observation_dispositions = {} /\ quarantined_observation_intents = {}
    /\ inflight = [th \in Threads |-> None]
    /\ journal = {}

---------------------------------------------------------------------------
(* append_record_locked.                                                   *)

\* Mutant: an intent's record is kept but not queued.
Index_forgets_intent(r) ==
    /\ records' = Append(records, r)
    /\ requests' = requests \cup {r.key}
    /\ sessions' = IF r.op \in LifecycleOps
                     THEN [sessions EXCEPT ![r.session.sid] = Len(records) + 1]
                     ELSE sessions
    /\ UNCHANGED <<observation_intents, observation_dispositions,
                   quarantined_observation_intents>>

Index(r) ==
    LET intent == <<r.session.sid, r.intent.id>> IN
    /\ records' = Append(records, r)
    /\ requests' = requests \cup {r.key}
    /\ sessions' = IF r.op \in LifecycleOps
                     THEN [sessions EXCEPT ![r.session.sid] = Len(records) + 1]
                     ELSE sessions
    /\ observation_intents' =
          IF r.op = "enqueue_intent" THEN observation_intents \cup {intent}
          ELSE observation_intents
    /\ observation_dispositions' =
          IF r.op = "set_disposition"
            THEN observation_dispositions \cup {intent}
            ELSE observation_dispositions
    /\ UNCHANGED quarantined_observation_intents

Forget ==
    /\ records' = <<>> /\ sessions' = [s \in Sessions |-> 0]
    /\ requests' = {} /\ observation_intents' = {}
    /\ observation_dispositions' = {}
    /\ quarantined_observation_intents' = {}
    /\ inflight' = [th \in Threads |-> None]

\* What a write that was not confirmed leaves in the file: nothing, a
\* partial record, or the whole record.
Residue(r) ==
    \/ disk' = disk /\ torn' \in BOOLEAN
    \/ disk' = Append(records, r) /\ torn' = FALSE

Usable == up /\ ~poisoned

\* The record is written at the end of what this incarnation knows to be
\* durable.  A failed write that rollback_append undoes changes nothing.
append_record_locked(r) ==
    /\ Usable
    /\ \/ /\ disk' = Append(records, r)
          /\ Index(r)
          /\ UNCHANGED <<torn, up, poisoned>>
       \/ \* write or sync failed and the rollback failed too
          /\ Residue(r)
          /\ poisoned' = TRUE
          /\ UNCHANGED <<up, indexes>>

\* The daemon dies while it writes r.
CrashInAppend(r) ==
    /\ Usable
    /\ Residue(r)
    /\ up' = FALSE
    /\ poisoned' = FALSE
    /\ Forget

Record(op, key, request, x, in) ==
    [seq |-> Len(records) + 1, op |-> op, key |-> key, request |-> request,
     session |-> x, intent |-> in]

\* The tail of every mutation: if there is room, the record is appended.
Apply(r, pending) ==
    /\ Len(records) < MaxRecords
    /\ \/ append_record_locked(r) /\ inflight' = pending
       \/ CrashInAppend(r)
    /\ UNCHANGED <<now, catalog, journal>>

\* find_*_replay_locked: a used key is a replay or a conflict; either way the
\* call answers from the stored record and changes nothing.
Transition(op, request, x) ==
    \E key \in CallerKeys[op] \ requests :
       Apply(Record(op, key, request, x, None), inflight)

Current(s) == records[sessions[s]].session
InState(s, states) == sessions[s] # 0 /\ Current(s).state \in states

\* The validator re-resolves the stored plan; it refuses an expired one.
Resolves(p, t) == t < PlanExpiry[p]

---------------------------------------------------------------------------
(* create and reserve_start: the plan is resolved outside the lock.        *)

BeginCreate(th, s, p) ==
  \E key \in CallerKeys["create"] :
    /\ Usable /\ inflight[th] = None
    /\ key \notin requests
    /\ Resolves(p, now)
    /\ inflight' = [inflight EXCEPT ![th] =
          [op |-> "create", key |-> key, sid |-> s, plan |-> p, auth |-> NoAuth,
           at |-> now]]
    /\ UNCHANGED <<now, disk, torn, up, poisoned, catalog, indexes, journal>>

create(th) ==
    LET call == inflight[th] IN
    /\ Usable /\ call # None
    /\ call.op = "create"
    /\ call.key \notin requests
    /\ sessions[call.sid] = 0
    /\ Apply(Record("create", call.key, CreateRequest(call.sid, call.plan),
             [sid |-> call.sid, state |-> "created", plan |-> call.plan,
              createdAt |-> call.at, auth |-> NoAuth, exec |-> None,
              startingAt |-> 0, runningAt |-> 0, proc |-> None,
              stoppingAt |-> 0, code |-> "none", finishedAt |-> 0,
              receipt |-> None], None),
             [inflight EXCEPT ![th] = None])

BeginReserve(th, s, p, auth) ==
  \E key \in CallerKeys["reserve_start"] :
    /\ Usable /\ inflight[th] = None
    /\ key \notin requests
    /\ auth.approved # 0 /\ auth.expires > auth.approved
    /\ auth.expires - auth.approved <= MaxAuthTTL
    /\ auth.approved <= now /\ now < auth.expires
    /\ InState(s, {"created"})
    /\ Current(s).plan = p
    /\ auth.approved >= Current(s).createdAt
    /\ auth.expires <= PlanExpiry[p]
    /\ Resolves(p, now)
    /\ inflight' = [inflight EXCEPT ![th] =
          [op |-> "reserve", key |-> key, sid |-> s, plan |-> p, auth |-> auth,
           at |-> now]]
    /\ UNCHANGED <<now, disk, torn, up, poisoned, catalog, indexes, journal>>

\* Mutant: the second lock trusts what the first one saw.
reserve_start_unchecked(th) ==
    LET call == inflight[th]
        next == [Current(call.sid) EXCEPT !.state = "preparing",
                                          !.auth = call.auth]
    IN
    /\ Usable /\ call # None
    /\ call.op = "reserve"
    /\ call.key \notin requests
    /\ sessions[call.sid] # 0
    /\ Apply(Record("reserve_start", call.key, AuthorizationRequest(next),
                    next, None),
             [inflight EXCEPT ![th] = None])

\* The second lock re-checks the state and the plan, not the clock.
reserve_start(th) ==
    LET call == inflight[th]
        next == [Current(call.sid) EXCEPT !.state = "preparing",
                                          !.auth = call.auth]
    IN
    /\ Usable /\ call # None
    /\ call.op = "reserve"
    /\ call.key \notin requests
    /\ InState(call.sid, {"created"})
    /\ Current(call.sid).plan = call.plan
    /\ Apply(Record("reserve_start", call.key, AuthorizationRequest(next),
                    next, None),
             [inflight EXCEPT ![th] = None])

\* Any early return of the second phase.
AbandonCall(th) ==
    /\ up /\ inflight[th] # None
    /\ inflight' = [inflight EXCEPT ![th] = None]
    /\ UNCHANGED <<now, disk, torn, up, poisoned, catalog, indexes, journal>>

---------------------------------------------------------------------------
(* The launch transitions.  c names the plan, authorization and execution  *)
(* the caller believes it is acting on.                                    *)

Commitments ==
    [sid : Sessions, plan : Plans, auth : AuthIds, exec : Execs]

Binds(c, x) == x.plan = c.plan /\ x.auth.id = c.auth /\ x.exec = c.exec

\* mark_starting and mark_managed_starting: the upper bounds of the window
\* are checked, the lower one is not.
StartingStep(op, c) ==
    LET next == [Current(c.sid) EXCEPT !.state = "starting", !.exec = c.exec,
                                       !.startingAt = now]
    IN
    /\ Usable
    /\ InState(c.sid, {"preparing"})
    /\ Current(c.sid).plan = c.plan /\ Current(c.sid).auth.id = c.auth
    /\ now < Current(c.sid).auth.expires
    /\ Resolves(c.plan, now)
    /\ Transition(op, BindingRequest(op, next), next)

mark_starting(c) ==
    c.exec \in LinuxExecs /\ StartingStep("mark_starting", c)

mark_managed_starting(c) ==
    c.exec \in ManagedExecs /\ StartingStep("mark_managed_starting", c)

\* Mutant: running may be dated before starting.
RunningStep_unordered(op, c, proc, t) ==
    LET next == [Current(c.sid) EXCEPT !.state = "running", !.runningAt = t,
                                       !.proc = proc]
    IN
    /\ Usable
    /\ InState(c.sid, {"starting"})
    /\ Binds(c, Current(c.sid))
    /\ t < Current(c.sid).auth.expires
    /\ Transition(op, RunningRequest(op, next), next)

\* t is the time the caller sampled; it may have waited for the lock since.
RunningStep(op, c, proc, t) ==
    LET next == [Current(c.sid) EXCEPT !.state = "running", !.runningAt = t,
                                       !.proc = proc]
    IN
    /\ Usable
    /\ InState(c.sid, {"starting"})
    /\ Binds(c, Current(c.sid))
    /\ t >= Current(c.sid).startingAt
    /\ t < Current(c.sid).auth.expires
    /\ Resolves(c.plan, t)
    /\ Transition(op, RunningRequest(op, next), next)

mark_running(c, proc, t) ==
    c.exec \in LinuxExecs /\ RunningStep("mark_running", c, proc, t)

mark_managed_running(c, t) ==
    /\ c.exec \in ManagedExecs
    /\ RunningStep("mark_managed_running", c, None, t)

StoppingStep(op, c, proc, t) ==
    LET next == [Current(c.sid) EXCEPT !.state = "stopping",
                                       !.stoppingAt = t]
    IN
    /\ Usable
    /\ InState(c.sid, {"running"})
    /\ Binds(c, Current(c.sid)) /\ Current(c.sid).proc = proc
    /\ t >= Current(c.sid).runningAt
    /\ Transition(op, RunningRequest(op, next), next)

mark_stopping(c, proc, t) ==
    c.exec \in LinuxExecs /\ StoppingStep("mark_stopping", c, proc, t)

mark_managed_stopping(c, t) ==
    /\ c.exec \in ManagedExecs
    /\ StoppingStep("mark_managed_stopping", c, None, t)

---------------------------------------------------------------------------
(* The terminal transitions.                                               *)

\* Mutant: the receipt is taken from the caller, not from the journal.
ExitedStep_unconfirmed(op, receipt) ==
    LET s == receipt.sid
        next == [Current(s) EXCEPT !.state = "exited", !.receipt = receipt,
                                   !.finishedAt = receipt.finished]
    IN
    /\ Usable
    /\ InState(s, {"running", "stopping"})
    /\ Current(s).plan = receipt.plan /\ Current(s).exec = receipt.exec
    /\ receipt.started <= Current(s).runningAt
    /\ receipt.finished >= PhaseTime(Current(s))
    /\ Transition(op, TerminalRequest(receipt), next)

\* confirms_terminal: only a receipt durable in the journal closes a session.
ExitedStep(op, receipt) ==
    LET s == receipt.sid
        next == [Current(s) EXCEPT !.state = "exited", !.receipt = receipt,
                                   !.finishedAt = receipt.finished]
    IN
    /\ Usable
    /\ receipt \in journal
    /\ InState(s, {"running", "stopping"})
    /\ Current(s).plan = receipt.plan /\ Current(s).exec = receipt.exec
    /\ receipt.started # 0 /\ receipt.started <= Current(s).runningAt
    /\ receipt.finished >= PhaseTime(Current(s))
    /\ Transition(op, TerminalRequest(receipt), next)

mark_exited(receipt) ==
    /\ receipt.plan \notin RefinementPlans
    /\ receipt.exec \in LinuxExecs
    /\ ExitedStep("mark_exited", receipt)

mark_refinement_exited(receipt) ==
    /\ receipt.plan \in RefinementPlans
    /\ receipt.exec \in LinuxExecs
    /\ ExitedStep("mark_refinement_exited", receipt)

mark_managed_exited(receipt) ==
    /\ receipt.exec \in ManagedExecs
    /\ ExitedStep("mark_managed_exited", receipt)

FailedStep(op, c, code, t) ==
    LET next == [Current(c.sid) EXCEPT !.state = "failed", !.code = code,
                                       !.finishedAt = t]
    IN
    /\ Usable
    /\ InState(c.sid, {"starting", "running", "stopping"})
    /\ Binds(c, Current(c.sid))
    /\ t >= PhaseTime(Current(c.sid))
    /\ InState(c.sid, {"running", "stopping"}) => code \in PostLaunchCodes
    /\ Transition(op, FailureRequest(next), next)

\* Linux sessions only: the executor and reconciliation, its callers, hold
\* Linux sessions (recovery_candidates leaves the managed ones out).
mark_failed(c, code, t) ==
    c.exec \in LinuxExecs /\ FailedStep("mark_failed", c, code, t)

mark_managed_failed(c, code, t) ==
    c.exec \in ManagedExecs /\ FailedStep("mark_managed_failed", c, code, t)

---------------------------------------------------------------------------
(* The observation intents.                                                *)

enqueue_observation_intent(s, id, body, issued, expires) ==
    LET in == [id |-> id, body |-> body, issued |-> issued,
               expires |-> expires, disposition |-> "pending",
               decidedAt |-> 0]
        request == EnqueueRequest(Current(s), in)
    IN
    /\ Usable
    /\ <<s, id>> \notin quarantined_observation_intents
    /\ <<s, id>> \notin observation_intents
    /\ catalog[body] # 0
    /\ issued # 0 /\ expires > issued
    /\ issued <= now + MaxSkew /\ now < expires
    /\ InState(s, {"running"})
    /\ issued >= Current(s).runningAt
    /\ expires - issued <= catalog[body]
    /\ Apply(Record("enqueue_intent", IntentKey(request), request,
                    Current(s), in), inflight)

\* The control handler refuses a decision dated after its own clock.
set_observation_intent_disposition(s, id, body, disposition, decided) ==
    \E i \in 1..Len(records) :
       LET in == [records[i].intent EXCEPT !.disposition = disposition,
                                           !.decidedAt = decided]
           request == DispositionRequest(Current(s), in)
       IN
       /\ Usable
       /\ decided # 0 /\ decided <= now
       /\ <<s, id>> \notin quarantined_observation_intents
       /\ <<s, id>> \in observation_intents
       /\ <<s, id>> \notin observation_dispositions
       /\ IsIntent(records, i, "enqueue_intent", s, id)
       /\ records[i].intent.body = body
       /\ decided >= records[i].intent.issued
       /\ (disposition = "expired") <=> (decided >= records[i].intent.expires)
       /\ sessions[s] # 0
       /\ Apply(Record("set_disposition", IntentKey(request), request,
                       Current(s), in), inflight)

---------------------------------------------------------------------------
(* Restart, storage failure and the environment.                           *)

\* Mutant: a quarantined intent is queued again, its disposition is not.
open_requeues_quarantined(cat) ==
    /\ ~up /\ ~torn
    /\ recover(disk)
    /\ up' = TRUE
    /\ catalog' = cat
    /\ records' = disk
    /\ sessions' = SessionIndex(disk)
    /\ requests' = KeyIndex(disk)
    /\ quarantined_observation_intents' =
          historical_observation_quarantine(disk, cat)
    /\ observation_intents' = IntentsOf(disk, "enqueue_intent")
    /\ observation_dispositions' =
          IntentsOf(disk, "set_disposition") \ quarantined_observation_intents'
    /\ UNCHANGED <<now, disk, torn, poisoned, inflight, journal>>

\* open_or_create: a file that ends in a partial record or holds a record
\* recovery refuses is not opened.
open_or_create(cat) ==
    /\ ~up /\ ~torn
    /\ recover(disk)
    /\ up' = TRUE
    /\ catalog' = cat
    /\ records' = disk
    /\ sessions' = SessionIndex(disk)
    /\ requests' = KeyIndex(disk)
    /\ quarantined_observation_intents' =
          historical_observation_quarantine(disk, cat)
    /\ observation_intents' =
          IntentsOf(disk, "enqueue_intent") \ quarantined_observation_intents'
    /\ observation_dispositions' =
          IntentsOf(disk, "set_disposition") \ quarantined_observation_intents'
    /\ UNCHANGED <<now, disk, torn, poisoned, inflight, journal>>

\* The process ends, cleanly or not; only the two files survive.
Crash ==
    /\ up
    /\ up' = FALSE
    /\ poisoned' = FALSE
    /\ Forget
    /\ UNCHANGED <<now, disk, torn, catalog, journal>>

\* verify_identity finds that the file is not the one that was opened.
verify_identity ==
    /\ Usable
    /\ poisoned' = TRUE
    /\ UNCHANGED <<now, disk, torn, up, catalog, indexes, inflight, journal>>

\* The receipt producer journals the receipt of a finished run.
commit_terminal(s, started, finished) ==
    /\ up
    /\ InState(s, {"running", "stopping"})
    /\ started <= finished /\ finished <= now
    /\ \A other \in journal : other.sid # s
    /\ journal' = journal \cup
          {[sid |-> s, plan |-> Current(s).plan, exec |-> Current(s).exec,
            started |-> started, finished |-> finished]}
    /\ UNCHANGED <<now, disk, torn, up, poisoned, catalog, indexes, inflight>>

Tick ==
    /\ now < MaxTime
    /\ now' = now + 1
    /\ UNCHANGED <<disk, torn, up, poisoned, catalog, indexes, inflight,
                   journal>>

ClockStepBack ==
    /\ ClockStepsBack
    /\ now > 1
    /\ now' \in 1..(now - 1)
    /\ UNCHANGED <<disk, torn, up, poisoned, catalog, indexes, inflight,
                   journal>>

---------------------------------------------------------------------------
\* Authorizations end at a time the model can tell apart from its clock.
Offered == [id : AuthIds, approved : Times, expires : 1..(MaxTime + 1)]

Launch ==
    \E c \in Commitments :
       \/ mark_starting(c)
       \/ mark_managed_starting(c)
       \/ \E t \in 1..now :
             \/ \E proc \in Procs : mark_running(c, proc, t)
             \/ mark_managed_running(c, t)
             \/ \E proc \in Procs : mark_stopping(c, proc, t)
             \/ mark_managed_stopping(c, t)
             \/ \E code \in FailureCodes : mark_failed(c, code, t)
             \/ \E code \in FailureCodes : mark_managed_failed(c, code, t)

\* What a caller may present as the receipt of a session.
Presented == [sid : Sessions, plan : Plans, exec : Execs, started : Times,
              finished : Times]

Finish ==
    \E receipt \in Presented :
       \/ mark_exited(receipt)
       \/ mark_refinement_exited(receipt)
       \/ mark_managed_exited(receipt)

Request ==
    \E th \in Threads :
       \/ create(th)
       \/ reserve_start(th)
       \/ AbandonCall(th)
       \/ \E s \in Sessions, p \in Plans :
             \/ BeginCreate(th, s, p)
             \/ \E auth \in Offered : BeginReserve(th, s, p, auth)

Observe ==
    \E s \in Sessions, id \in IntentIds, body \in Bodies :
       \/ \E issued \in Times, expires \in 1..(MaxTime + 1) :
             enqueue_observation_intent(s, id, body, issued, expires)
       \/ \E disposition \in Dispositions, decided \in Times :
             set_observation_intent_disposition(s, id, body, disposition,
                                                decided)

Environment ==
    \/ \E cat \in Catalogs : open_or_create(cat)
    \/ Crash
    \/ verify_identity
    \/ \E s \in Sessions, started, finished \in Times :
          commit_terminal(s, started, finished)
    \/ Tick
    \/ ClockStepBack

Next == Launch \/ Finish \/ Request \/ Observe \/ Environment

Spec == Init /\ [][Next]_vars

---------------------------------------------------------------------------
(* Types.                                                                  *)

Calls == [op : {"create"}, key : Keys, sid : Sessions, plan : Plans,
          auth : {NoAuth}, at : Nat]
         \cup [op : {"reserve"}, key : Keys, sid : Sessions, plan : Plans,
               auth : Authorizations, at : Nat]

\* The type of every variable.
TypeOK ==
    /\ now \in Times
    /\ disk \in Seq(Records)
    /\ torn \in BOOLEAN /\ up \in BOOLEAN /\ poisoned \in BOOLEAN
    /\ catalog \in Catalogs
    /\ records \in Seq(Records)
    /\ sessions \in [Sessions -> 0..Len(records)]
    /\ requests \subseteq AllKeys
    /\ observation_intents \subseteq Sessions \X IntentIds
    /\ observation_dispositions \subseteq Sessions \X IntentIds
    /\ quarantined_observation_intents \subseteq Sessions \X IntentIds
    /\ inflight \in [Threads -> Calls \cup {None}]
    /\ journal \subseteq Receipts

---------------------------------------------------------------------------
(* Properties.                                                             *)

\* Whatever whole record the registry wrote, recovery accepts: every record
\* on disk, acknowledged or left by a write that failed or was cut short after
\* it, passes valid_record_shape, its commitment and its transition check when
\* it is read back after the records before it (accept_recovered_record,
\* recover). A partial record at the end is torn, which open_or_create refuses.
EveryRecordRecoverable == recover(disk)

\* The indexes append_record_locked maintains one record at a time are the
\* ones recover would build from the file, and a registry that accepts
\* requests has exactly the file's records in memory: a replayed key, a
\* session's state and the pending queue do not depend on when the daemon
\* was last restarted.
IndexesMatchFile ==
    Usable =>
       /\ ~torn
       /\ records = disk
       /\ sessions = SessionIndex(disk)
       /\ requests = KeyIndex(disk)
       /\ quarantined_observation_intents =
             historical_observation_quarantine(disk, catalog)
       /\ observation_intents = IntentsOf(disk, "enqueue_intent")
                                \ quarantined_observation_intents
       /\ observation_dispositions = IntentsOf(disk, "set_disposition")
                                     \ quarantined_observation_intents

\* No step, failed append or crash removes or rewrites a record that is
\* already on disk: what was acknowledged before a restart is there after it
\* (append_record_locked writes at durable_bytes; a failed rollback poisons).
FileIsAppendOnly ==
    [][/\ Len(disk) <= Len(disk')
       /\ \A i \in 1..Len(disk) : disk'[i] = disk[i]]_vars

\* pending_observation_intents: enqueued, admitted and not disposed.
pending_observation_intents == observation_intents \ observation_dispositions

\* An intent whose disposition is durable is never handed out as pending
\* again, whatever catalogs later incarnations are configured with: being
\* quarantined in between must not lose the disposition.
SettledIntentsStaySettled ==
    Usable => pending_observation_intents
                 \cap IntentsOf(disk, "set_disposition") = {}

\* A session is recorded as exited only with a receipt that was durable in
\* the receipt journal before, for the plan and the execution that the
\* session's earlier records committed it to (mark_exited,
\* mark_refinement_exited and mark_managed_exited, across restarts).
ExitedHasDurableReceipt ==
    \A i, j \in 1..Len(disk) :
       LET x == disk[i].session
           y == disk[j].session
       IN
       x.state = "exited" =>
          /\ x.receipt \in journal
          /\ y.sid = x.sid => y.plan = x.receipt.plan
          /\ y.sid = x.sid => y.exec \in {None, x.receipt.exec}

\* What the first lock of a reservation established and the second relies
\* on: the authorization's window, and that it was approved after the
\* session was created.
Bound(call) ==
    /\ up
    /\ call.auth.approved # 0 /\ call.auth.approved <= now
    /\ call.auth.expires > call.auth.approved
    /\ call.auth.expires - call.auth.approved <= MaxAuthTTL
    /\ call.auth.expires <= PlanExpiry[call.plan]
    /\ Usable =>
          /\ sessions[call.sid] # 0
          /\ records[sessions[call.sid]].session.state = "created" =>
                call.auth.approved
                   >= records[sessions[call.sid]].session.createdAt

ReservationsBound ==
    \A th \in Threads :
       inflight[th] # None /\ inflight[th].op = "reserve" => Bound(inflight[th])

\* With a clock that is not set back, no authorization in the file was
\* approved in the future.
AuthorizationsPast ==
    \A i \in 1..Len(disk) : disk[i].session.auth.approved <= now

\* EveryRecordRecoverable, strengthened until every step preserves it.
RecoveryInv ==
    /\ TypeOK
    /\ EveryRecordRecoverable
    /\ IndexesMatchFile
    /\ ReservationsBound
    /\ AuthorizationsPast

\* The life of a session as the file tells it.
View(s) ==
    IF ~Known(disk, s)
      THEN [state |-> "absent", plan |-> None, auth |-> None, from |-> 0,
            until |-> 0, exec |-> None, startedAt |-> 0, proc |-> None]
      ELSE LET x == disk[CHOOSE i \in 1..Len(disk) : IsLatest(disk, i, s)].session
           IN [state |-> x.state, plan |-> x.plan, auth |-> x.auth.id,
               from |-> x.auth.approved, until |-> x.auth.expires,
               exec |-> x.exec, startedAt |-> x.startingAt, proc |-> x.proc]

Lifecycle == INSTANCE SessionLifecycle
                WITH session <- [s \in Sessions |-> View(s)],
                     Instants <- 1..(MaxTime + 1)

\* The registry, with its crashes, restarts, replays and storage failures,
\* implements the abstract session lifecycle: one plan, authorization and
\* execution per session, a start inside the authorized window, no step out
\* of exited or failed.
ImplementsLifecycle == Lifecycle!Spec
====
