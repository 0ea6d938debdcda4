----------------------- MODULE SessionRegistryProofs -----------------------
(* Proofs about the session registry, for every value of its constants: its *)
(* state has its type, what it writes can be read back, and its file tells   *)
(* a life of SessionLifecycle for each session.                              *)
EXTENDS SessionRegistry, SequenceTheorems, WellFoundedInduction, TLAPS

USE ConstantsAssumption, CatalogAssumption, ClockAssumption

---------------------------------------------------------------------------
(* The log.                                                                *)

\* The least-number principle, for a set.
LEMMA LeastNat ==
    ASSUME NEW T \in SUBSET Nat, T # {}
    PROVE  \E x \in T : \A y \in T : x <= y
<1>1. PICK x \in T : \A y \in T : ~(<<y, x>> \in OpToRel(<, Nat))
  BY NatLessThanWellFounded, WFMin
<1>2. \A y \in T : ~(y < x)
  BY <1>1 DEF OpToRel
<1>3. x \in Nat /\ \A y \in T : y \in Nat
  OBVIOUS
<1> QED
  BY <1>2, <1>3

\* A session with a lifecycle record has a latest one: the index recover
\* builds is well defined.
LEMMA LatestExists ==
    ASSUME NEW log \in Seq(Records), NEW s, Known(log, s)
    PROVE  \E i \in 1..Len(log) : IsLatest(log, i, s)
<1> DEFINE Of == {i \in 1..Len(log) :
                     log[i].session.sid = s /\ log[i].op \in LifecycleOps}
           T == {Len(log) - i : i \in Of}
<1>1. T \in SUBSET Nat
  OBVIOUS
<1>2. T # {}
  BY DEF Known
<1>3. PICK x \in T : \A y \in T : x <= y
  BY <1>1, <1>2, LeastNat
<1>4. PICK i \in Of : x = Len(log) - i
  BY <1>3
<1>5. \A j \in Of : Len(log) - i <= Len(log) - j
  BY <1>3, <1>4
<1>6. \A j \in Of : j <= i
  BY <1>5
<1> QED
  BY <1>4, <1>6 DEF IsLatest

LEMMA SessionIndexType ==
    ASSUME NEW log \in Seq(Records)
    PROVE  SessionIndex(log) \in [Sessions -> 0..Len(log)]
BY LatestExists DEF SessionIndex

---------------------------------------------------------------------------
(* Type correctness.                                                       *)

\* A known session has a well-typed current snapshot.
LEMMA CurrentType ==
    ASSUME TypeOK, NEW s \in Sessions, sessions[s] # 0
    PROVE  /\ sessions[s] \in 1..Len(records)
           /\ records[sessions[s]] \in Records
           /\ Current(s) \in Snapshots
BY DEF TypeOK, Current, Records, LifecycleRecords, IntentRecords

\* An incarnation that ends leaves well-typed, empty indexes.
LEMMA ForgetType ==
    ASSUME Forget
    PROVE  /\ records' \in Seq(Records)
           /\ sessions' \in [Sessions -> 0..Len(records')]
           /\ requests' \subseteq AllKeys
           /\ observation_intents' \subseteq Sessions \X IntentIds
           /\ observation_dispositions' \subseteq Sessions \X IntentIds
           /\ quarantined_observation_intents' \subseteq Sessions \X IntentIds
           /\ inflight' \in [Threads -> Calls \cup {None}]
<1>1. records' = <<>> /\ Len(<<>>) = 0 /\ <<>> \in Seq(Records)
  BY DEF Forget
<1>2. sessions' \in [Sessions -> 0..Len(records')]
  BY <1>1 DEF Forget
<1> QED
  BY <1>1, <1>2 DEF Forget

\* Appending a well-typed record, or failing to, keeps the types.
LEMMA ApplyType ==
    ASSUME TypeOK, NEW r \in Records,
           NEW pending \in [Threads -> Calls \cup {None}],
           Apply(r, pending)
    PROVE  TypeOK'
<1>1. Append(records, r) \in Seq(Records)
  BY DEF TypeOK
<1>2. r.key \in AllKeys /\ r.session.sid \in Sessions
  BY DEF Records, LifecycleRecords, IntentRecords, Snapshots, AllKeys
<1>3. r.op \in IntentOps => r.intent.id \in IntentIds
  BY DEF Records, LifecycleRecords, IntentRecords, IntentType, IntentOps,
         LifecycleOps
<1>4. UNCHANGED <<now, catalog, journal>>
  BY DEF Apply
<1>5. CASE append_record_locked(r) /\ inflight' = pending
  <2>1. CASE disk' = Append(records, r) /\ Index(r)
               /\ UNCHANGED <<torn, up, poisoned>>
    <3>1. records' \in Seq(Records) /\ requests' \subseteq AllKeys
      BY <1>1, <1>2, <2>1 DEF TypeOK, Index
    <3>2. sessions' \in [Sessions -> 0..Len(records')]
      BY <1>1, <1>2, <2>1 DEF TypeOK, Index
    <3>3. observation_intents' \subseteq Sessions \X IntentIds
      BY <1>2, <1>3, <2>1 DEF TypeOK, Index, IntentOps
    <3>4. observation_dispositions' \subseteq Sessions \X IntentIds
      BY <1>2, <1>3, <2>1 DEF TypeOK, Index, IntentOps
    <3> QED
      BY <1>1, <1>4, <1>5, <2>1, <3>1, <3>2, <3>3, <3>4 DEF TypeOK, Index
  <2>2. CASE Residue(r) /\ poisoned' = TRUE /\ UNCHANGED <<up, indexes>>
    BY <1>1, <1>4, <1>5, <2>2 DEF TypeOK, Residue, indexes
  <2> QED
    BY <1>5, <2>1, <2>2 DEF append_record_locked
<1>6. CASE CrashInAppend(r)
  BY <1>1, <1>4, <1>6, ForgetType DEF TypeOK, CrashInAppend, Residue
<1> QED
  BY <1>5, <1>6 DEF Apply

\* One transition of a known session.
LEMMA TransitionType ==
    ASSUME TypeOK, NEW op \in LifecycleOps, NEW request \in Requests,
           NEW x \in Snapshots, Transition(op, request, x)
    PROVE  TypeOK'
<1>1. PICK key \in CallerKeys[op] :
          Apply(Record(op, key, request, x, None), inflight)
  BY DEF Transition
<1>2. key \in Keys
  BY DEF Keys, ConstantsAssumption
<1>3. Record(op, key, request, x, None) \in Records
  BY <1>2 DEF TypeOK, Record, Records, LifecycleRecords
<1> QED
  BY <1>1, <1>3, ApplyType DEF TypeOK

LEMMA StartingType ==
    ASSUME TypeOK, NEW c \in Commitments, NEW op \in LifecycleOps,
           StartingStep(op, c)
    PROVE  TypeOK'
<1> DEFINE next == [Current(c.sid) EXCEPT !.state = "starting",
                        !.exec = c.exec, !.startingAt = now]
<1>1. Current(c.sid) \in Snapshots
  BY CurrentType DEF StartingStep, InState, Commitments
<1>2. now \in Nat
  BY DEF TypeOK, Times, ClockAssumption
<1>3. next \in Snapshots
  BY <1>1, <1>2 DEF Snapshots, Commitments, States
<1>4. BindingRequest(op, next) \in Requests
  BY <1>1 DEF BindingRequest, Requests, StartingStep, Snapshots, Commitments
<1> QED
  BY <1>3, <1>4, TransitionType DEF StartingStep

LEMMA RunningType ==
    ASSUME TypeOK, NEW c \in Commitments, NEW op \in LifecycleOps,
           NEW proc \in Procs \cup {None}, NEW t \in Nat,
           RunningStep(op, c, proc, t)
    PROVE  TypeOK'
<1> DEFINE next == [Current(c.sid) EXCEPT !.state = "running",
                        !.runningAt = t, !.proc = proc]
<1>1. Current(c.sid) \in Snapshots
  BY CurrentType DEF RunningStep, InState, Commitments
<1>2. next \in Snapshots
  BY <1>1 DEF Snapshots, States
<1>3. RunningRequest(op, next) \in Requests
  BY <1>1 DEF RunningRequest, Requests, RunningStep, Binds, Snapshots,
              Commitments
<1> QED
  BY <1>2, <1>3, TransitionType DEF RunningStep

LEMMA StoppingType ==
    ASSUME TypeOK, NEW c \in Commitments, NEW op \in LifecycleOps,
           NEW proc \in Procs \cup {None}, NEW t \in Nat,
           StoppingStep(op, c, proc, t)
    PROVE  TypeOK'
<1> DEFINE next == [Current(c.sid) EXCEPT !.state = "stopping",
                                          !.stoppingAt = t]
<1>1. Current(c.sid) \in Snapshots
  BY CurrentType DEF StoppingStep, InState, Commitments
<1>2. next \in Snapshots
  BY <1>1 DEF Snapshots, States
<1>3. RunningRequest(op, next) \in Requests
  BY <1>1 DEF RunningRequest, Requests, StoppingStep, Binds, Snapshots,
              Commitments
<1> QED
  BY <1>2, <1>3, TransitionType DEF StoppingStep

LEMMA ExitedType ==
    ASSUME TypeOK, NEW receipt \in Receipts, NEW op \in LifecycleOps,
           ExitedStep(op, receipt)
    PROVE  TypeOK'
<1> DEFINE next == [Current(receipt.sid) EXCEPT !.state = "exited",
                        !.receipt = receipt, !.finishedAt = receipt.finished]
<1>1. Current(receipt.sid) \in Snapshots
  BY CurrentType DEF ExitedStep, InState, Receipts
<1>2. next \in Snapshots
  BY <1>1 DEF Snapshots, States, Receipts
<1>3. TerminalRequest(receipt) \in Requests
  BY DEF TerminalRequest, Requests
<1> QED
  BY <1>2, <1>3, TransitionType DEF ExitedStep

LEMMA FailedType ==
    ASSUME TypeOK, NEW c \in Commitments, NEW op \in LifecycleOps,
           NEW code \in FailureCodes, NEW t \in Nat,
           FailedStep(op, c, code, t)
    PROVE  TypeOK'
<1> DEFINE next == [Current(c.sid) EXCEPT !.state = "failed",
                                          !.code = code, !.finishedAt = t]
<1>1. Current(c.sid) \in Snapshots
  BY CurrentType DEF FailedStep, InState, Commitments
<1>2. next \in Snapshots
  BY <1>1 DEF Snapshots, States
<1>3. FailureRequest(next) \in Requests
  BY <1>1 DEF FailureRequest, Requests, FailedStep, Binds, Snapshots,
              Commitments
<1> QED
  BY <1>2, <1>3, TransitionType DEF FailedStep

LEMMA CreateType ==
    ASSUME TypeOK, NEW th \in Threads, create(th)
    PROVE  TypeOK'
<1> DEFINE call == inflight[th]
           x == [sid |-> call.sid, state |-> "created", plan |-> call.plan,
                 createdAt |-> call.at, auth |-> NoAuth, exec |-> None,
                 startingAt |-> 0, runningAt |-> 0, proc |-> None,
                 stoppingAt |-> 0, code |-> "none", finishedAt |-> 0,
                 receipt |-> None]
           r == Record("create", call.key, CreateRequest(call.sid, call.plan),
                       x, None)
<1>1. call \in Calls
  BY DEF TypeOK, create
<1>2. x \in Snapshots
  BY <1>1 DEF Snapshots, Calls, States
<1>3. CreateRequest(call.sid, call.plan) \in Requests
  BY <1>1 DEF CreateRequest, Requests, Calls
<1>4. r \in Records
  BY <1>1, <1>2, <1>3 DEF Record, Records, LifecycleRecords, LifecycleOps,
                          Calls, TypeOK
<1>5. [inflight EXCEPT ![th] = None] \in [Threads -> Calls \cup {None}]
  BY DEF TypeOK
<1>6. Apply(r, [inflight EXCEPT ![th] = None])
  BY DEF create
<1> QED
  BY <1>4, <1>5, <1>6, ApplyType

LEMMA ReserveType ==
    ASSUME TypeOK, NEW th \in Threads, reserve_start(th)
    PROVE  TypeOK'
<1> DEFINE call == inflight[th]
           x == [Current(call.sid) EXCEPT !.state = "preparing",
                                          !.auth = call.auth]
           r == Record("reserve_start", call.key, AuthorizationRequest(x), x,
                       None)
<1>1. call \in Calls /\ call.op = "reserve"
  BY DEF TypeOK, reserve_start
<1>2. Current(call.sid) \in Snapshots
  BY <1>1, CurrentType DEF reserve_start, InState, Calls
<1>3. call.auth \in Authorizations
  BY <1>1 DEF Calls
<1>4. x \in Snapshots
  BY <1>1, <1>2 DEF Snapshots, Calls, States
<1>5. AuthorizationRequest(x) \in Requests
  BY <1>2, <1>3 DEF AuthorizationRequest, Requests, Snapshots
<1>6. r \in Records
  BY <1>1, <1>4, <1>5 DEF Record, Records, LifecycleRecords, LifecycleOps,
                          Calls, TypeOK
<1>7. [inflight EXCEPT ![th] = None] \in [Threads -> Calls \cup {None}]
  BY DEF TypeOK
<1>8. Apply(r, [inflight EXCEPT ![th] = None])
  BY DEF reserve_start
<1> QED
  BY <1>6, <1>7, <1>8, ApplyType

LEMMA BeginType ==
    ASSUME TypeOK, NEW th \in Threads, NEW s \in Sessions, NEW p \in Plans,
           \/ BeginCreate(th, s, p)
           \/ \E auth \in Offered : BeginReserve(th, s, p, auth)
    PROVE  TypeOK'
<1>0. now \in Nat
  BY DEF TypeOK, Times, ClockAssumption
<1>1. \A op \in LifecycleOps : CallerKeys[op] \subseteq Keys
  BY DEF Keys, ConstantsAssumption
<1>2. CASE BeginCreate(th, s, p)
  <2>1. PICK key \in CallerKeys["create"] :
            inflight' = [inflight EXCEPT ![th] =
               [op |-> "create", key |-> key, sid |-> s, plan |-> p,
                auth |-> NoAuth, at |-> now]]
    BY <1>2 DEF BeginCreate
  <2>2. inflight' \in [Threads -> Calls \cup {None}]
    BY <1>0, <1>1, <2>1 DEF TypeOK, Calls, LifecycleOps
  <2> QED
    BY <1>2, <2>2 DEF TypeOK, BeginCreate, indexes
<1>3. CASE \E auth \in Offered : BeginReserve(th, s, p, auth)
  <2>1. PICK auth \in Offered : BeginReserve(th, s, p, auth)
    BY <1>3
  <2>2. PICK key \in CallerKeys["reserve_start"] :
            inflight' = [inflight EXCEPT ![th] =
               [op |-> "reserve", key |-> key, sid |-> s, plan |-> p,
                auth |-> auth, at |-> now]]
    BY <2>1 DEF BeginReserve
  <2>3. auth \in Authorizations
    BY DEF Offered, Authorizations, Times
  <2>4. inflight' \in [Threads -> Calls \cup {None}]
    BY <1>0, <1>1, <2>2, <2>3 DEF TypeOK, Calls, LifecycleOps
  <2> QED
    BY <2>1, <2>4 DEF TypeOK, BeginReserve, indexes
<1> QED
  BY <1>2, <1>3

LEMMA EnqueueType ==
    ASSUME TypeOK, NEW s \in Sessions, NEW id \in IntentIds,
           NEW body \in Bodies, NEW issued \in Nat, NEW expires \in Nat,
           enqueue_observation_intent(s, id, body, issued, expires)
    PROVE  TypeOK'
<1> DEFINE in == [id |-> id, body |-> body, issued |-> issued,
                  expires |-> expires, disposition |-> "pending",
                  decidedAt |-> 0]
           request == EnqueueRequest(Current(s), in)
           r == Record("enqueue_intent", IntentKey(request), request,
                       Current(s), in)
<1>1. Current(s) \in Snapshots
  BY CurrentType DEF enqueue_observation_intent, InState
<1>2. in \in IntentType
  BY DEF IntentType
<1>3. request \in Requests /\ request.op = "enqueue"
  BY <1>1 DEF EnqueueRequest, Requests, Snapshots
<1>4. IntentKey(request) \in IntentKeys
  BY <1>3 DEF IntentKey, IntentKeys
<1> HIDE DEF in, request
<1>5. r \in Records
  BY <1>1, <1>2, <1>3, <1>4 DEF Record, Records, IntentRecords, IntentOps,
                                TypeOK
<1>6. Apply(r, inflight)
  BY DEF enqueue_observation_intent, in, request
<1> QED
  BY <1>5, <1>6, ApplyType DEF TypeOK

LEMMA DispositionType ==
    ASSUME TypeOK, NEW s \in Sessions, NEW id \in IntentIds,
           NEW body \in Bodies, NEW disposition \in Dispositions,
           NEW decided \in Nat,
           set_observation_intent_disposition(s, id, body, disposition, decided)
    PROVE  TypeOK'
<1> DEFINE in(i) == [records[i].intent EXCEPT !.disposition = disposition,
                                              !.decidedAt = decided]
           request(i) == DispositionRequest(Current(s), in(i))
           r(i) == Record("set_disposition", IntentKey(request(i)), request(i),
                          Current(s), in(i))
<1>1. PICK i \in 1..Len(records) :
          /\ sessions[s] # 0
          /\ IsIntent(records, i, "enqueue_intent", s, id)
          /\ Apply(r(i), inflight)
  BY DEF set_observation_intent_disposition
<1>2. Current(s) \in Snapshots
  BY <1>1, CurrentType
<1>3. records[i] \in Records /\ records[i].op = "enqueue_intent"
  BY <1>1 DEF TypeOK, IsIntent
<1>4. records[i].intent \in IntentType
  BY <1>3 DEF Records, LifecycleRecords, IntentRecords, LifecycleOps
<1>5. in(i) \in IntentType /\ in(i).disposition = disposition
  BY <1>4 DEF IntentType
<1> HIDE DEF in
<1>6. request(i) \in Requests /\ request(i).op = "disposition"
  BY <1>2, <1>5 DEF DispositionRequest, Requests, Snapshots, IntentType
<1>7. IntentKey(request(i)) \in IntentKeys
  BY <1>6 DEF IntentKey, IntentKeys
<1> HIDE DEF request
<1>8. r(i) \in Records
  BY <1>2, <1>5, <1>6, <1>7 DEF Record, Records, IntentRecords, IntentOps,
                                TypeOK
<1> QED
  BY <1>1, <1>8, ApplyType DEF TypeOK

LEMMA OpenType ==
    ASSUME TypeOK, NEW cat \in Catalogs, open_or_create(cat)
    PROVE  TypeOK'
<1>1. \A i \in 1..Len(disk) : disk[i] \in Records
  BY DEF TypeOK
<1>2. sessions' \in [Sessions -> 0..Len(records')]
  BY SessionIndexType DEF TypeOK, open_or_create
<1>3. requests' \subseteq AllKeys
  BY <1>1 DEF open_or_create, KeyIndex, Records, LifecycleRecords,
              IntentRecords, AllKeys
<1>4. \A i \in 1..Len(disk) :
         disk[i].op \in IntentOps =>
            <<disk[i].session.sid, disk[i].intent.id>> \in Sessions \X IntentIds
  <2> TAKE i \in 1..Len(disk)
  <2> HAVE disk[i].op \in IntentOps
  <2>1. disk[i] \in IntentRecords
    BY <1>1 DEF Records, LifecycleRecords, LifecycleOps, IntentOps
  <2> QED
    BY <2>1 DEF IntentRecords, Snapshots, IntentType
<1>5. quarantined_observation_intents' \subseteq Sessions \X IntentIds
  BY <1>4 DEF open_or_create, historical_observation_quarantine, IntentOps
<1>6. IntentsOf(disk, "enqueue_intent") \subseteq Sessions \X IntentIds
  BY <1>4 DEF IntentsOf, IntentOps
<1>7. IntentsOf(disk, "set_disposition") \subseteq Sessions \X IntentIds
  BY <1>4 DEF IntentsOf, IntentOps
<1>8. /\ observation_intents' \subseteq Sessions \X IntentIds
      /\ observation_dispositions' \subseteq Sessions \X IntentIds
  BY <1>6, <1>7 DEF open_or_create
<1> QED
  BY <1>2, <1>3, <1>5, <1>8 DEF TypeOK, open_or_create

LEMMA InitType == Init => TypeOK
<1> SUFFICES ASSUME Init PROVE TypeOK
  OBVIOUS
<1>1. <<>> \in Seq(Records) /\ Len(<<>>) = 0
  OBVIOUS
<1>2. sessions \in [Sessions -> 0..Len(records)]
  BY <1>1 DEF Init
<1> QED
  BY <1>1, <1>2 DEF Init, TypeOK

LEMMA NextType == TypeOK /\ [Next]_vars => TypeOK'
<1> SUFFICES ASSUME TypeOK, [Next]_vars PROVE TypeOK'
  OBVIOUS
<1> USE DEF LifecycleOps
<1>0. now \in Nat /\ 1..now \subseteq Nat /\ Times \subseteq Nat
      /\ 1..(MaxTime + 1) \subseteq Nat
  BY DEF TypeOK, Times, ClockAssumption
<1>1. CASE Launch
  <2>1. PICK c \in Commitments :
           \/ mark_starting(c)
           \/ mark_managed_starting(c)
           \/ \E t \in 1..now :
                 \/ \E proc \in Procs : mark_running(c, proc, t)
                 \/ mark_managed_running(c, t)
                 \/ \E proc \in Procs : mark_stopping(c, proc, t)
                 \/ mark_managed_stopping(c, t)
                 \/ \E code \in FailureCodes : mark_failed(c, code, t)
                 \/ \E code \in FailureCodes : mark_managed_failed(c, code, t)
    BY <1>1 DEF Launch
  <2>2. CASE mark_starting(c) \/ mark_managed_starting(c)
    BY <2>2, StartingType DEF mark_starting, mark_managed_starting
  <2>3. ASSUME NEW t \in 1..now, NEW proc \in Procs,
               mark_running(c, proc, t) \/ mark_managed_running(c, t)
        PROVE  TypeOK'
    BY <1>0, <2>3, RunningType DEF mark_running, mark_managed_running
  <2>4. ASSUME NEW t \in 1..now, mark_managed_running(c, t) PROVE TypeOK'
    BY <1>0, <2>4, RunningType DEF mark_managed_running
  <2>5. ASSUME NEW t \in 1..now, NEW proc \in Procs, mark_stopping(c, proc, t)
        PROVE  TypeOK'
    BY <1>0, <2>5, StoppingType DEF mark_stopping
  <2>6. ASSUME NEW t \in 1..now, mark_managed_stopping(c, t) PROVE TypeOK'
    BY <1>0, <2>6, StoppingType DEF mark_managed_stopping
  <2>7. ASSUME NEW t \in 1..now, NEW code \in FailureCodes,
               mark_failed(c, code, t) \/ mark_managed_failed(c, code, t)
        PROVE  TypeOK'
    BY <1>0, <2>7, FailedType DEF mark_failed, mark_managed_failed
  <2> QED
    BY <2>1, <2>2, <2>3, <2>4, <2>5, <2>6, <2>7
<1>2. CASE Finish
  <2>1. Presented \subseteq Receipts
    BY <1>0 DEF Presented, Receipts
  <2> QED
    BY <1>2, <2>1, ExitedType DEF Finish, mark_exited,
       mark_refinement_exited, mark_managed_exited
<1>3. CASE Request
  <2>1. PICK th \in Threads :
           \/ create(th)
           \/ reserve_start(th)
           \/ AbandonCall(th)
           \/ \E s \in Sessions, p \in Plans :
                 \/ BeginCreate(th, s, p)
                 \/ \E auth \in Offered : BeginReserve(th, s, p, auth)
    BY <1>3 DEF Request
  <2>2. CASE AbandonCall(th)
    BY <2>2 DEF TypeOK, AbandonCall, indexes
  <2> QED
    BY <2>1, <2>2, CreateType, ReserveType, BeginType
<1>4. CASE Observe
  <2>1. PICK s \in Sessions, id \in IntentIds, body \in Bodies :
           \/ \E issued \in Times, expires \in 1..(MaxTime + 1) :
                 enqueue_observation_intent(s, id, body, issued, expires)
           \/ \E disposition \in Dispositions, decided \in Times :
                 set_observation_intent_disposition(s, id, body, disposition,
                                                    decided)
    BY <1>4 DEF Observe
  <2> QED
    BY <1>0, <2>1, EnqueueType, DispositionType
<1>5. CASE Environment
  <2>1. CASE \E cat \in Catalogs : open_or_create(cat)
    BY <2>1, OpenType
  <2>2. CASE Crash
    BY <2>2, ForgetType DEF Crash, TypeOK
  <2>3. CASE verify_identity
    BY <2>3 DEF verify_identity, TypeOK, indexes
  <2>4. ASSUME NEW s \in Sessions, NEW started \in Times,
               NEW finished \in Times, commit_terminal(s, started, finished)
        PROVE  TypeOK'
    <3>1. Current(s) \in Snapshots
      BY <2>4, CurrentType DEF commit_terminal, InState
    <3>2. [sid |-> s, plan |-> Current(s).plan, exec |-> Current(s).exec,
           started |-> started, finished |-> finished] \in Receipts
      BY <1>0, <3>1 DEF Receipts, Snapshots
    <3>3. journal' \subseteq Receipts
      BY <2>4, <3>2 DEF commit_terminal, TypeOK
    <3> QED
      BY <2>4, <3>3 DEF commit_terminal, TypeOK, indexes
  <2>5. CASE Tick \/ ClockStepBack
    BY <2>5 DEF Tick, ClockStepBack, TypeOK, indexes, Times, ClockAssumption
  <2> QED
    BY <1>5, <2>1, <2>2, <2>3, <2>4, <2>5 DEF Environment
<1>6. CASE UNCHANGED vars
  BY <1>6 DEF vars, indexes, TypeOK
<1> QED
  BY <1>1, <1>2, <1>3, <1>4, <1>5, <1>6 DEF Next

\* Every variable of the registry keeps its type, across crashes, failed
\* writes and restarts.
THEOREM TypeCorrect == Spec => []TypeOK
BY InitType, NextType, PTL DEF Spec

---------------------------------------------------------------------------
(***************************************************************************)
(* With a clock that is not set back, whatever the registry writes can be  *)
(* read back.  The invariant is inductive only together with what links    *)
(* the indexes to the file (a transition is judged against the latest      *)
(* record of its session) and with what the first lock of a reservation    *)
(* established for the second one.                                         *)
(***************************************************************************)

---------------------------------------------------------------------------
(* Appending to a log.                                                     *)

LEMMA AppendFacts ==
    ASSUME NEW log \in Seq(Records), NEW r \in Records
    PROVE  /\ Append(log, r) \in Seq(Records)
           /\ Len(Append(log, r)) = Len(log) + 1
           /\ Len(log) \in Nat
           /\ \A i \in 1..Len(log) : Append(log, r)[i] = log[i]
           /\ Append(log, r)[Len(log) + 1] = r
OBVIOUS

\* What recovery sees before record n does not change when r is appended.
LEMMA PrefixOfAppend ==
    ASSUME NEW log \in Seq(Records), NEW r \in Records,
           NEW n \in 1..(Len(log) + 1)
    PROVE  SubSeq(Append(log, r), 1, n - 1) = SubSeq(log, 1, n - 1)
<1>1. \A i \in 1..(n - 1) : i \in 1..Len(log) /\ Append(log, r)[i] = log[i]
  BY AppendFacts
<1>2. \A i \in 1..(n - 1) : log[i] \in Records /\ Append(log, r)[i] \in Records
  BY <1>1
<1> DEFINE A == SubSeq(Append(log, r), 1, n - 1)
           B == SubSeq(log, 1, n - 1)
<1>3. /\ A \in Seq(Records)
      /\ Len(A) = IF 1 <= n - 1 THEN (n - 1) - 1 + 1 ELSE 0
      /\ \A i \in 1..((n - 1) - 1 + 1) : A[i] = Append(log, r)[1 + i - 1]
  BY <1>2, SubSeqProperties
<1>4. /\ B \in Seq(Records)
      /\ Len(B) = IF 1 <= n - 1 THEN (n - 1) - 1 + 1 ELSE 0
      /\ \A i \in 1..((n - 1) - 1 + 1) : B[i] = log[1 + i - 1]
  BY <1>2, SubSeqProperties
<1> QED
  BY <1>1, <1>3, <1>4

\* A log that can be read back, extended by a record recovery accepts after
\* it, can be read back.
LEMMA RecoverAppend ==
    ASSUME NEW log \in Seq(Records), NEW r \in Records, recover(log),
           Len(log) < MaxRecords, accept_recovered_record(log, r)
    PROVE  recover(Append(log, r))
<1> DEFINE new == Append(log, r)
<1>0. Len(new) = Len(log) + 1 /\ Len(log) \in Nat
  BY AppendFacts
<1>1. MaxRecords \in Nat
  BY ConstantsAssumption DEF ConstantsAssumption
<1>2. ASSUME NEW n \in 1..Len(log)
      PROVE  accept_recovered_record(SubSeq(new, 1, n - 1), new[n])
  <2>1. new[n] = log[n]
    BY AppendFacts
  <2>2. SubSeq(new, 1, n - 1) = SubSeq(log, 1, n - 1)
    BY PrefixOfAppend
  <2>3. accept_recovered_record(SubSeq(log, 1, n - 1), log[n])
    BY DEF recover
  <2> QED
    BY <2>1, <2>2, <2>3
<1>3. accept_recovered_record(SubSeq(new, 1, Len(new) - 1), new[Len(new)])
  <2>1. SubSeq(new, 1, Len(new) - 1) = SubSeq(log, 1, Len(log))
    BY PrefixOfAppend, AppendFacts
  <2>2. SubSeq(log, 1, Len(log)) = log
    BY SubSeqFull
  <2>3. new[Len(new)] = r
    BY AppendFacts
  <2> QED
    BY <2>1, <2>2, <2>3
<1>4. \A n \in 1..Len(new) : n \in 1..Len(log) \/ n = Len(new)
  BY AppendFacts
<1> HIDE DEF new
<1>5. Len(new) <= MaxRecords
  BY <1>0, <1>1
<1>6. recover(new)
  BY <1>2, <1>3, <1>4, <1>5 DEF recover
<1> QED
  BY <1>6 DEF new

\* Every record of a readable log has the shape recovery demands.
LEMMA RecoveredShape ==
    ASSUME NEW log, recover(log), NEW n \in 1..Len(log)
    PROVE  /\ valid_record_shape(log[n])
           /\ log[n].request = RecomputedRequest(log[n])
           /\ log[n].op \in IntentOps => log[n].key = IntentKey(log[n].request)
BY DEF recover, accept_recovered_record, AcceptsEnqueue, AcceptsDisposition,
       IntentOps, LifecycleOps

LEMMA LatestUnique ==
    ASSUME NEW log \in Seq(Records), NEW s,
           NEW i, IsLatest(log, i, s), NEW j, IsLatest(log, j, s)
    PROVE  i = j
BY DEF IsLatest

\* What the sessions index of a log holds.
LEMMA SessionIndexFacts ==
    ASSUME NEW log \in Seq(Records), NEW s \in Sessions
    PROVE  /\ SessionIndex(log)[s] # 0 =>
                 Known(log, s) /\ IsLatest(log, SessionIndex(log)[s], s)
           /\ SessionIndex(log)[s] = 0 => ~Known(log, s)
<1>1. CASE Known(log, s)
  <2>1. \E i \in 1..Len(log) : IsLatest(log, i, s)
    BY <1>1, LatestExists
  <2>2. SessionIndex(log)[s] = CHOOSE i \in 1..Len(log) : IsLatest(log, i, s)
    BY <1>1 DEF SessionIndex
  <2>3. SessionIndex(log)[s] \in 1..Len(log)
          /\ IsLatest(log, SessionIndex(log)[s], s)
    BY <2>1, <2>2
  <2> QED
    BY <1>1, <2>3
<1>2. CASE ~Known(log, s)
  BY <1>2 DEF SessionIndex
<1> QED
  BY <1>1, <1>2

\* append_record_locked keeps the sessions index recover would build.
LEMMA SessionIndexAppend ==
    ASSUME NEW log \in Seq(Records), NEW r \in Records, NEW s \in Sessions
    PROVE  SessionIndex(Append(log, r))[s] =
              IF r.op \in LifecycleOps /\ s = r.session.sid
                THEN Len(log) + 1 ELSE SessionIndex(log)[s]
<1> DEFINE new == Append(log, r)
<1>0. new \in Seq(Records) /\ Len(new) = Len(log) + 1 /\ Len(log) \in Nat
  BY AppendFacts
<1>1. CASE r.op \in LifecycleOps /\ s = r.session.sid
  <2>1. IsLatest(new, Len(log) + 1, s)
    BY <1>1, AppendFacts DEF IsLatest
  <2>2. Known(new, s)
    BY <2>1 DEF Known, IsLatest
  <2>3. IsLatest(new, SessionIndex(new)[s], s)
    BY <1>0, <2>2, SessionIndexFacts
  <2>4. SessionIndex(new)[s] = Len(log) + 1
    BY <1>0, <2>1, <2>3, LatestUnique
  <2> QED
    BY <1>1, <2>4
<1>2. CASE ~(r.op \in LifecycleOps /\ s = r.session.sid)
  <2>1. CASE Known(log, s)
    <3>1. IsLatest(log, SessionIndex(log)[s], s)
      BY <2>1, SessionIndexFacts
    <3>2. IsLatest(new, SessionIndex(log)[s], s)
      <4>1. \A i \in 1..Len(log) : new[i] = log[i]
        BY AppendFacts
      <4>2. new[Len(log) + 1] = r /\ Len(new) = Len(log) + 1 /\ Len(log) \in Nat
        BY AppendFacts
      <4> QED
        BY <1>2, <3>1, <4>1, <4>2, SMTT(30) DEF IsLatest
    <3>3. Known(new, s)
      BY <3>2 DEF Known, IsLatest
    <3>4. IsLatest(new, SessionIndex(new)[s], s)
      BY <1>0, <3>3, SessionIndexFacts
    <3>5. SessionIndex(new)[s] = SessionIndex(log)[s]
      BY <1>0, <3>2, <3>4, LatestUnique
    <3> QED
      BY <1>2, <3>5
  <2>2. CASE ~Known(log, s)
    <3>1. ~Known(new, s)
      BY <1>2, <2>2, AppendFacts DEF Known
    <3> QED
      BY <1>2, <2>2, <3>1 DEF SessionIndex
  <2> QED
    BY <2>1, <2>2
<1> QED
  BY <1>1, <1>2

LEMMA KeyIndexAppend ==
    ASSUME NEW log \in Seq(Records), NEW r \in Records
    PROVE  KeyIndex(Append(log, r)) = KeyIndex(log) \cup {r.key}
<1> DEFINE new == Append(log, r)
<1>1. \A n : n \in 1..Len(new) <=> (n \in 1..Len(log) \/ n = Len(log) + 1)
  BY AppendFacts
<1>2. (\A i \in 1..Len(log) : new[i] = log[i]) /\ new[Len(log) + 1] = r
  BY AppendFacts
<1> HIDE DEF new
<1>3. KeyIndex(new) = KeyIndex(log) \cup {r.key}
  BY <1>1, <1>2 DEF KeyIndex
<1> QED
  BY <1>3 DEF new

LEMMA IntentsAppend ==
    ASSUME NEW log \in Seq(Records), NEW r \in Records, NEW op
    PROVE  IntentsOf(Append(log, r), op) =
              IF r.op = op
                THEN IntentsOf(log, op) \cup {<<r.session.sid, r.intent.id>>}
                ELSE IntentsOf(log, op)
<1> DEFINE new == Append(log, r)
<1>1. \A n : n \in 1..Len(new) <=> (n \in 1..Len(log) \/ n = Len(log) + 1)
  BY AppendFacts
<1>2. (\A i \in 1..Len(log) : new[i] = log[i]) /\ new[Len(log) + 1] = r
  BY AppendFacts
<1> HIDE DEF new
<1>3. IntentsOf(new, op) =
              IF r.op = op
                THEN IntentsOf(log, op) \cup {<<r.session.sid, r.intent.id>>}
                ELSE IntentsOf(log, op)
  BY <1>1, <1>2 DEF IntentsOf
<1> QED
  BY <1>3 DEF new

\* A record the catalog admits, or that enqueues nothing, adds nothing to
\* the quarantine.
LEMMA QuarantineAppend ==
    ASSUME NEW log \in Seq(Records), NEW r \in Records, NEW cat,
           r.op = "enqueue_intent" =>
              ~(r.intent.expires - r.intent.issued > cat[r.intent.body])
    PROVE  historical_observation_quarantine(Append(log, r), cat) =
              historical_observation_quarantine(log, cat)
<1> DEFINE new == Append(log, r)
<1>1. \A n : n \in 1..Len(new) <=> (n \in 1..Len(log) \/ n = Len(log) + 1)
  BY AppendFacts
<1>2. (\A i \in 1..Len(log) : new[i] = log[i]) /\ new[Len(log) + 1] = r
  BY AppendFacts
<1> HIDE DEF new
<1>3. historical_observation_quarantine(new, cat) =
         historical_observation_quarantine(log, cat)
  BY <1>1, <1>2 DEF historical_observation_quarantine
<1> QED
  BY <1>3 DEF new

---------------------------------------------------------------------------
(* Appending to the registry.                                              *)

\* What a record must satisfy, beyond what recovery demands, for the
\* invariant to survive its append.
Appendable(r) ==
    /\ accept_recovered_record(records, r)
    /\ r.session.auth.approved <= now
    /\ r.op = "enqueue_intent" =>
          ~(r.intent.expires - r.intent.issued > catalog[r.intent.body])
    /\ r.op \in IntentOps =>
          <<r.session.sid, r.intent.id>> \notin quarantined_observation_intents

LEMMA CreatedShape ==
    ASSUME NEW r, valid_record_shape(r), r.op \in LifecycleOps,
           r.session.state = "created"
    PROVE  r.op = "create"
BY DEF valid_record_shape, SnapshotShape

LEMMA StoredIndexes ==
    ASSUME RecoveryInv, Usable, NEW r \in Records, Appendable(r),
           disk' = Append(records, r), Index(r),
           UNCHANGED <<torn, up, poisoned, catalog>>
    PROVE  IndexesMatchFile'
<1>1. records = disk /\ ~torn /\ disk \in Seq(Records)
  BY DEF RecoveryInv, IndexesMatchFile, TypeOK
<1>2. sessions' = SessionIndex(disk')
  <2>1. sessions = SessionIndex(disk)
    BY DEF RecoveryInv, IndexesMatchFile
  <2>2. SessionIndex(disk') = [s \in Sessions |-> SessionIndex(disk')[s]]
    BY DEF SessionIndex
  <2>3. sessions = [s \in Sessions |-> sessions[s]]
    BY <2>1 DEF SessionIndex
  <2>4. \A s \in Sessions : SessionIndex(disk')[s] =
              IF r.op \in LifecycleOps /\ s = r.session.sid
                THEN Len(records) + 1 ELSE sessions[s]
    BY <1>1, <2>1, SessionIndexAppend
  <2>5. sessions' = [s \in Sessions |->
              IF r.op \in LifecycleOps /\ s = r.session.sid
                THEN Len(records) + 1 ELSE sessions[s]]
    BY <2>3 DEF Index
  <2> QED
    BY <2>2, <2>4, <2>5
<1>3. requests' = KeyIndex(disk')
  BY <1>1, KeyIndexAppend DEF Index, RecoveryInv, IndexesMatchFile
<1>4. quarantined_observation_intents' =
         historical_observation_quarantine(disk', catalog')
  BY <1>1, QuarantineAppend
     DEF Index, RecoveryInv, IndexesMatchFile, Appendable
<1>5. observation_intents' = IntentsOf(disk', "enqueue_intent")
                             \ quarantined_observation_intents'
  <2>1. observation_intents = IntentsOf(disk, "enqueue_intent")
                              \ quarantined_observation_intents
    BY DEF RecoveryInv, IndexesMatchFile
  <2>2. CASE r.op = "enqueue_intent"
    <3> DEFINE intent == <<r.session.sid, r.intent.id>>
    <3>1. /\ observation_intents' = observation_intents \cup {intent}
          /\ UNCHANGED quarantined_observation_intents
      BY <2>2 DEF Index
    <3>2. intent \notin quarantined_observation_intents
      BY <2>2 DEF Appendable, IntentOps
    <3>3. IntentsOf(disk', "enqueue_intent") =
             IntentsOf(disk, "enqueue_intent") \cup {intent}
      BY <1>1, <2>2, IntentsAppend
    <3> HIDE DEF intent
    <3> QED
      BY <2>1, <3>1, <3>2, <3>3
  <2>3. CASE r.op # "enqueue_intent"
    BY <1>1, <2>1, <2>3, IntentsAppend DEF Index
  <2> QED
    BY <2>2, <2>3
<1>6. observation_dispositions' = IntentsOf(disk', "set_disposition")
                                  \ quarantined_observation_intents'
  <2>1. observation_dispositions = IntentsOf(disk, "set_disposition")
                                   \ quarantined_observation_intents
    BY DEF RecoveryInv, IndexesMatchFile
  <2>2. CASE r.op = "set_disposition"
    <3> DEFINE intent == <<r.session.sid, r.intent.id>>
    <3>1. IntentsOf(disk', "set_disposition")
            = IntentsOf(disk, "set_disposition") \cup {intent}
      BY <1>1, <2>2, IntentsAppend
    <3>2. intent \notin quarantined_observation_intents
      BY <2>2 DEF Appendable, IntentOps
    <3>3. /\ observation_dispositions' = observation_dispositions \cup {intent}
          /\ quarantined_observation_intents' = quarantined_observation_intents
      BY <1>1, <2>2 DEF Index
    <3> HIDE DEF intent
    <3> QED
      BY <2>1, <3>1, <3>2, <3>3
  <2>3. CASE r.op # "set_disposition"
    BY <1>1, <2>1, <2>3, IntentsAppend DEF Index
  <2> QED
    BY <2>2, <2>3
<1>7. records' = disk' /\ ~torn'
  BY <1>1 DEF Index
<1> QED
  BY <1>2, <1>3, <1>4, <1>5, <1>6, <1>7 DEF IndexesMatchFile

LEMMA StoredReservations ==
    ASSUME RecoveryInv, Usable, NEW r \in Records, Appendable(r),
           Index(r), UNCHANGED <<up, poisoned, now>>,
           NEW pending \in [Threads -> Calls \cup {None}],
           \A th \in Threads : pending[th] \in {None, inflight[th]},
           inflight' = pending
    PROVE  ReservationsBound'
<1> SUFFICES ASSUME NEW th \in Threads, inflight'[th] # None,
                    inflight'[th].op = "reserve"
             PROVE  Bound(inflight[th])'
  BY DEF ReservationsBound
<1> DEFINE call == inflight[th]
<1>1. inflight'[th] = call /\ call # None /\ call.op = "reserve"
  OBVIOUS
<1>2. Bound(call)
  BY <1>1 DEF RecoveryInv, ReservationsBound
<1>3. call.sid \in Sessions
  BY <1>1 DEF RecoveryInv, TypeOK, Calls
<1>4. sessions \in [Sessions -> 0..Len(records)] /\ records \in Seq(Records)
  BY DEF RecoveryInv, TypeOK
<1>5. CASE r.op \in LifecycleOps /\ r.session.sid = call.sid
  <2>1. sessions'[call.sid] = Len(records) + 1
    BY <1>3, <1>4, <1>5 DEF Index
  <2>2. records'[sessions'[call.sid]].session = r.session
    BY <1>4, <2>1, AppendFacts DEF Index
  <2>3. Known(records, call.sid)
    BY <1>2, <1>3, <1>4, SessionIndexFacts
       DEF Bound, RecoveryInv, IndexesMatchFile
  <2>4. r.op # "create"
    BY <1>5, <2>3 DEF Appendable, accept_recovered_record
  <2>5. r.session.state # "created"
    BY <1>5, <2>4, CreatedShape DEF Appendable, accept_recovered_record
  <2>6. sessions'[call.sid] # 0
    BY <1>4, <2>1
  <2> QED
    BY <1>1, <1>2, <2>2, <2>5, <2>6 DEF Bound, Usable
<1>6. CASE ~(r.op \in LifecycleOps /\ r.session.sid = call.sid)
  <2>1. sessions'[call.sid] = sessions[call.sid]
    BY <1>3, <1>4, <1>6 DEF Index
  <2>2. sessions[call.sid] \in 1..Len(records)
    BY <1>2, <1>3, <1>4 DEF Bound
  <2>3. records'[sessions'[call.sid]] = records[sessions[call.sid]]
    BY <1>4, <2>1, <2>2, AppendFacts DEF Index
  <2> QED
    BY <1>1, <1>2, <2>1, <2>3 DEF Bound, Usable
<1> QED
  BY <1>5, <1>6

\* An incarnation that ends, or that can write no more, leaves the file
\* readable and forgets what it knew.
LEMMA DownInv ==
    ASSUME EveryRecordRecoverable', AuthorizationsPast', TypeOK', ~up',
           inflight' = [th \in Threads |-> None]
    PROVE  RecoveryInv'
<1>1. IndexesMatchFile'
  BY DEF IndexesMatchFile, Usable
<1>2. ReservationsBound'
  BY DEF ReservationsBound
<1> QED
  BY <1>1, <1>2 DEF RecoveryInv

\* The tail every mutation shares preserves the invariant: the record is
\* stored and indexed, or its residue poisons the registry, or the daemon
\* dies while it writes.
LEMMA ApplyInv ==
    ASSUME RecoveryInv, NEW r \in Records, Usable, Appendable(r),
           NEW pending \in [Threads -> Calls \cup {None}],
           \A th \in Threads : pending[th] \in {None, inflight[th]},
           Apply(r, pending)
    PROVE  RecoveryInv'
<1>1. TypeOK'
  BY ApplyType DEF RecoveryInv
<1>2. records = disk /\ disk \in Seq(Records) /\ now \in Nat
  BY DEF RecoveryInv, IndexesMatchFile, TypeOK, Times
<1>3. UNCHANGED <<now, catalog, journal>> /\ Len(records) < MaxRecords
  BY DEF Apply
<1>4. disk' = disk \/ disk' = Append(records, r)
  BY DEF Apply, append_record_locked, CrashInAppend, Residue
<1>5. EveryRecordRecoverable'
  <2>1. recover(disk)
    BY DEF RecoveryInv, EveryRecordRecoverable
  <2>2. recover(Append(disk, r))
    BY <1>2, <1>3, <2>1, RecoverAppend DEF Appendable
  <2> QED
    BY <1>2, <1>4, <2>1, <2>2 DEF EveryRecordRecoverable
<1>6. AuthorizationsPast'
  <2>1. \A i \in 1..Len(disk) : disk[i].session.auth.approved <= now
    BY DEF RecoveryInv, AuthorizationsPast
  <2>2. r.session.auth.approved <= now
    BY DEF Appendable
  <2>3. \A i \in 1..Len(Append(disk, r)) :
           Append(disk, r)[i].session.auth.approved <= now
    <3>1. \A n : n \in 1..Len(Append(disk, r)) =>
                    (n \in 1..Len(disk) \/ n = Len(disk) + 1)
      BY <1>2, AppendFacts
    <3> QED
      BY <1>2, <2>1, <2>2, <3>1, AppendFacts
  <2> QED
    BY <1>2, <1>3, <1>4, <2>1, <2>3 DEF AuthorizationsPast
<1>7. CASE append_record_locked(r) /\ inflight' = pending
  <2>1. CASE disk' = Append(records, r) /\ Index(r)
               /\ UNCHANGED <<torn, up, poisoned>>
    <3>1. IndexesMatchFile'
      BY <1>3, <2>1, StoredIndexes
    <3>2. ReservationsBound'
      BY <1>3, <1>7, <2>1, StoredReservations
    <3> QED
      BY <1>1, <1>5, <1>6, <3>1, <3>2 DEF RecoveryInv
  <2>2. CASE poisoned' = TRUE /\ UNCHANGED <<up, indexes>>
    <3>1. IndexesMatchFile'
      BY <2>2 DEF IndexesMatchFile, Usable
    <3>2. ReservationsBound'
      <4> SUFFICES ASSUME NEW th \in Threads, inflight'[th] # None,
                          inflight'[th].op = "reserve"
                   PROVE  Bound(inflight[th])'
        BY DEF ReservationsBound
      <4>1. inflight'[th] = inflight[th]
        BY <1>7
      <4>2. Bound(inflight[th])
        BY <4>1 DEF RecoveryInv, ReservationsBound
      <4> QED
        BY <1>3, <2>2, <4>1, <4>2 DEF Bound, Usable
    <3> QED
      BY <1>1, <1>5, <1>6, <3>1, <3>2 DEF RecoveryInv
  <2> QED
    BY <1>7, <2>1, <2>2 DEF append_record_locked
<1>8. CASE CrashInAppend(r)
  BY <1>1, <1>5, <1>6, <1>8, DownInv DEF CrashInAppend, Forget
<1> QED
  BY <1>7, <1>8 DEF Apply

---------------------------------------------------------------------------
(* The transitions of a known session.                                     *)

\* The latest snapshot of a known session has the shape of its state.
LEMMA CurrentShape ==
    ASSUME RecoveryInv, Usable, NEW s \in Sessions, sessions[s] # 0
    PROVE  /\ Current(s) \in Snapshots
           /\ Current(s).sid = s
           /\ Current(s).auth.approved <= now
           /\ \E op \in LifecycleOps : SnapshotShape(op, Current(s))
           /\ IsLatest(records, sessions[s], s)
<1>1. records = disk /\ sessions = SessionIndex(disk) /\ disk \in Seq(Records)
  BY DEF RecoveryInv, IndexesMatchFile, TypeOK
<1>2. IsLatest(records, sessions[s], s)
  BY <1>1, SessionIndexFacts
<1>3. valid_record_shape(records[sessions[s]])
  BY <1>1, <1>2, RecoveredShape
     DEF RecoveryInv, EveryRecordRecoverable, IsLatest
<1>4. Current(s).sid = s /\ records[sessions[s]].op \in LifecycleOps
  BY <1>2 DEF IsLatest, Current
<1>5. SnapshotShape(records[sessions[s]].op, Current(s))
  BY <1>3, <1>4 DEF valid_record_shape, Current
<1>6. Current(s) \in Snapshots
  BY CurrentType DEF RecoveryInv
<1>7. Current(s).auth.approved <= now
  BY <1>1, <1>2 DEF RecoveryInv, AuthorizationsPast, IsLatest, Current
<1> QED
  BY <1>2, <1>4, <1>5, <1>6, <1>7

\* The digest recovery recomputes, operation by operation.
LEMMA RecomputedFacts ==
    ASSUME NEW r
    PROVE  /\ r.op = "reserve_start" =>
                RecomputedRequest(r) = AuthorizationRequest(r.session)
           /\ r.op \in {"mark_starting", "mark_managed_starting"} =>
                RecomputedRequest(r) = BindingRequest(r.op, r.session)
           /\ r.op \in {"mark_running", "mark_managed_running",
                       "mark_stopping", "mark_managed_stopping"} =>
                RecomputedRequest(r) = RunningRequest(r.op, r.session)
           /\ r.op \in {"mark_exited", "mark_refinement_exited",
                       "mark_managed_exited"} =>
                RecomputedRequest(r) = TerminalRequest(r.session.receipt)
           /\ r.op \in {"mark_failed", "mark_managed_failed"} =>
                RecomputedRequest(r) = FailureRequest(r.session)
           /\ r.op = "enqueue_intent" =>
                RecomputedRequest(r) = EnqueueRequest(r.session, r.intent)
           /\ r.op = "set_disposition" =>
                RecomputedRequest(r) = DispositionRequest(r.session, r.intent)
           /\ r.op = "create" => RecomputedRequest(r) = r.request
BY DEF RecomputedRequest

\* A transition recovery would accept preserves the invariant.
LEMMA LifecycleInv ==
    ASSUME RecoveryInv, Usable, NEW op \in LifecycleOps \ {"create"},
           NEW key \in Keys, key \notin requests,
           NEW request \in Requests, NEW x \in Snapshots,
           sessions[x.sid] # 0, SnapshotShape(op, x),
           ValidTransition(Current(x.sid), x), x.auth.approved <= now,
           \A r : r.op = op /\ r.session = x =>
                     RecomputedRequest(r) = request,
           NEW pending \in [Threads -> Calls \cup {None}],
           \A th \in Threads : pending[th] \in {None, inflight[th]},
           Apply(Record(op, key, request, x, None), pending)
    PROVE  RecoveryInv'
<1> DEFINE r == Record(op, key, request, x, None)
<1>1. r \in Records
  BY DEF RecoveryInv, TypeOK, Record, Records, LifecycleRecords
<1>2. /\ r.op = op /\ r.session = x /\ r.intent = None /\ r.key = key
      /\ r.request = request /\ r.seq = Len(records) + 1
  BY DEF Record
<1>3. x.sid \in Sessions
  BY DEF Snapshots
<1>4. IsLatest(records, sessions[x.sid], x.sid)
  BY <1>3, CurrentShape
<1>5. \A i \in 1..Len(records) : records[i].key # key
  BY DEF RecoveryInv, IndexesMatchFile, KeyIndex
<1>6. op \notin IntentOps
  BY DEF LifecycleOps, IntentOps
<1>7. r.request = RecomputedRequest(r)
  BY <1>2
<1> HIDE DEF r
<1>8. accept_recovered_record(records, r)
  <2>1. \E i \in 1..Len(records) :
            /\ IsLatest(records, i, r.session.sid)
            /\ ValidTransition(records[i].session, r.session)
    BY <1>2, <1>4 DEF IsLatest, Current
  <2>2. valid_record_shape(r)
    BY <1>2 DEF valid_record_shape
  <2> QED
    BY <1>2, <1>5, <1>7, <2>1, <2>2 DEF accept_recovered_record
<1>9. Appendable(r)
  BY <1>2, <1>6, <1>8 DEF Appendable, IntentOps
<1> QED
  BY <1>1, <1>9, ApplyInv DEF r

LEMMA TransitionInv ==
    ASSUME RecoveryInv, Usable, NEW op \in LifecycleOps \ {"create"},
           NEW request \in Requests, NEW x \in Snapshots,
           sessions[x.sid] # 0, SnapshotShape(op, x),
           ValidTransition(Current(x.sid), x), x.auth.approved <= now,
           \A r : r.op = op /\ r.session = x =>
                     RecomputedRequest(r) = request,
           Transition(op, request, x)
    PROVE  RecoveryInv'
<1>1. PICK key \in CallerKeys[op] \ requests :
          Apply(Record(op, key, request, x, None), inflight)
  BY DEF Transition
<1>2. key \in Keys
  BY ConstantsAssumption DEF Keys, ConstantsAssumption
<1>3. inflight \in [Threads -> Calls \cup {None}]
  BY DEF RecoveryInv, TypeOK
<1> QED
  BY <1>1, <1>2, <1>3, LifecycleInv

LEMMA StartingInv ==
    ASSUME RecoveryInv, NEW c \in Commitments,
           NEW op \in {"mark_starting", "mark_managed_starting"},
           op = "mark_starting" => c.exec \in LinuxExecs,
           op = "mark_managed_starting" => c.exec \in ManagedExecs,
           StartingStep(op, c)
    PROVE  RecoveryInv'
<1> DEFINE x == Current(c.sid)
           next == [x EXCEPT !.state = "starting", !.exec = c.exec,
                             !.startingAt = now]
<1>1. /\ Usable /\ sessions[c.sid] # 0 /\ x.state = "preparing"
      /\ x.plan = c.plan /\ x.auth.id = c.auth /\ now < x.auth.expires
      /\ Transition(op, BindingRequest(op, next), next)
  BY DEF StartingStep, InState
<1>2. c.sid \in Sessions /\ c.exec \in Execs /\ c.plan \in Plans
        /\ c.auth \in AuthIds
  BY DEF Commitments
<1>3. /\ x \in Snapshots /\ x.sid = c.sid /\ x.auth.approved <= now
      /\ \E o \in LifecycleOps : SnapshotShape(o, x)
  BY <1>1, <1>2, CurrentShape
<1>4. Authorized(x) /\ NotRunning(x) /\ NoStopIntent(x) /\ NotTerminal(x)
  BY <1>1, <1>3 DEF SnapshotShape
<1>5. now \in Nat
  BY DEF RecoveryInv, TypeOK, Times
<1> HIDE DEF x
<1>6. /\ next \in Snapshots
      /\ next.sid = x.sid /\ next.plan = x.plan /\ next.auth = x.auth
      /\ next.state = "starting" /\ next.exec = c.exec
      /\ next.startingAt = now /\ next.createdAt = x.createdAt
      /\ next.runningAt = x.runningAt /\ next.proc = x.proc
      /\ next.stoppingAt = x.stoppingAt /\ next.code = x.code
      /\ next.finishedAt = x.finishedAt /\ next.receipt = x.receipt
  BY <1>2, <1>3, <1>5 DEF Snapshots, States
<1> HIDE DEF next
<1>7. SnapshotShape(op, next)
  <2>1. Started(next)
    BY <1>1, <1>3, <1>4, <1>6 DEF Started, Authorized
  <2>2. NotRunning(next) /\ NoStopIntent(next) /\ NotTerminal(next)
    BY <1>4, <1>6 DEF NotRunning, NoStopIntent, NotTerminal
  <2>3. \/ op = "mark_starting" /\ Prepared(next)
        \/ op = "mark_managed_starting" /\ Managed(next)
    BY <1>6, <2>2 DEF Prepared, Managed, NotRunning
  <2> QED
    BY <1>6, <2>1, <2>2, <2>3 DEF SnapshotShape
<1>8. ValidTransition(x, next)
  BY <1>1, <1>6 DEF ValidTransition, SameAuth, SamePlan
<1>9. BindingRequest(op, next) \in Requests
  <2>1. /\ op \in LifecycleOps /\ next.sid \in Sessions
        /\ next.plan \in Plans /\ next.auth.id \in AuthIds
        /\ next.exec \in Execs
    BY <1>1, <1>2, <1>3, <1>6 DEF LifecycleOps
  <2> QED
    BY <1>6, <2>1 DEF BindingRequest, Requests
<1>10. \A r : r.op = op /\ r.session = next =>
                RecomputedRequest(r) = BindingRequest(op, next)
  BY RecomputedFacts
<1>11. x = Current(next.sid) /\ sessions[next.sid] # 0
  BY <1>1, <1>3, <1>6 DEF x
<1>12. op \in LifecycleOps \ {"create"}
  BY DEF LifecycleOps
<1> QED
  BY <1>1, <1>3, <1>6, <1>7, <1>8, <1>9, <1>10, <1>11, <1>12, TransitionInv
     DEF next

LEMMA RunningInv ==
    ASSUME RecoveryInv, NEW c \in Commitments, NEW t \in Nat,
           NEW op \in {"mark_running", "mark_managed_running"},
           NEW proc \in Procs \cup {None},
           op = "mark_running" => c.exec \in LinuxExecs /\ proc \in Procs,
           op = "mark_managed_running" =>
              c.exec \in ManagedExecs /\ proc = None,
           RunningStep(op, c, proc, t)
    PROVE  RecoveryInv'
<1> DEFINE x == Current(c.sid)
           next == [x EXCEPT !.state = "running", !.runningAt = t,
                             !.proc = proc]
<1>1. /\ Usable /\ sessions[c.sid] # 0 /\ x.state = "starting"
      /\ x.plan = c.plan /\ x.auth.id = c.auth /\ x.exec = c.exec
      /\ t >= x.startingAt /\ t < x.auth.expires
      /\ Transition(op, RunningRequest(op, next), next)
  BY DEF RunningStep, InState, Binds
<1>2. c.sid \in Sessions /\ c.exec \in Execs /\ c.plan \in Plans
        /\ c.auth \in AuthIds
  BY DEF Commitments
<1>3. /\ x \in Snapshots /\ x.sid = c.sid /\ x.auth.approved <= now
      /\ \E o \in LifecycleOps : SnapshotShape(o, x)
  BY <1>1, <1>2, CurrentShape
<1>4. Started(x) /\ NoStopIntent(x) /\ NotTerminal(x)
  BY <1>1, <1>3 DEF SnapshotShape
<1> HIDE DEF x
<1>6. /\ next \in Snapshots
      /\ next.sid = x.sid /\ next.plan = x.plan /\ next.auth = x.auth
      /\ next.state = "running" /\ next.exec = x.exec
      /\ next.startingAt = x.startingAt /\ next.createdAt = x.createdAt
      /\ next.runningAt = t /\ next.proc = proc
      /\ next.stoppingAt = x.stoppingAt /\ next.code = x.code
      /\ next.finishedAt = x.finishedAt /\ next.receipt = x.receipt
  BY <1>2, <1>3 DEF Snapshots, States
<1> HIDE DEF next
<1>7. SnapshotShape(op, next)
  <2>1. Started(next)
    BY <1>4, <1>6 DEF Started, Authorized
  <2>2. NoStopIntent(next) /\ NotTerminal(next)
    BY <1>4, <1>6 DEF NoStopIntent, NotTerminal
  <2>3. \/ op = "mark_running" /\ Running(next)
        \/ op = "mark_managed_running" /\ ManagedRunning(next)
    BY <1>1, <1>6 DEF Running, ManagedRunning, Launched, Prepared, Managed
  <2> QED
    BY <1>6, <2>1, <2>2, <2>3 DEF SnapshotShape
<1>8. ValidTransition(x, next)
  BY <1>1, <1>6 DEF ValidTransition, SameExec, SameAuth, SamePlan
<1>9. RunningRequest(op, next) \in Requests
  <2>1. /\ op \in LifecycleOps /\ next.sid \in Sessions
        /\ next.plan \in Plans /\ next.auth.id \in AuthIds
        /\ next.exec \in Execs
    BY <1>1, <1>2, <1>3, <1>6 DEF LifecycleOps
  <2> QED
    BY <1>6, <2>1 DEF RunningRequest, Requests
<1>10. \A r : r.op = op /\ r.session = next =>
                RecomputedRequest(r) = RunningRequest(op, next)
  BY RecomputedFacts
<1>11. x = Current(next.sid) /\ sessions[next.sid] # 0
  BY <1>1, <1>3, <1>6 DEF x
<1>12. op \in LifecycleOps \ {"create"}
  BY DEF LifecycleOps
<1> QED
  BY <1>1, <1>3, <1>6, <1>7, <1>8, <1>9, <1>10, <1>11, <1>12, TransitionInv
     DEF next


LEMMA StoppingInv ==
    ASSUME RecoveryInv, NEW c \in Commitments, NEW t \in Nat,
           NEW op \in {"mark_stopping", "mark_managed_stopping"},
           NEW proc \in Procs \cup {None},
           op = "mark_stopping" => c.exec \in LinuxExecs,
           op = "mark_managed_stopping" => c.exec \in ManagedExecs,
           StoppingStep(op, c, proc, t)
    PROVE  RecoveryInv'
<1> DEFINE x == Current(c.sid)
           next == [x EXCEPT !.state = "stopping", !.stoppingAt = t]
<1>1. /\ Usable /\ sessions[c.sid] # 0 /\ x.state = "running"
      /\ x.plan = c.plan /\ x.auth.id = c.auth /\ x.exec = c.exec
      /\ x.proc = proc /\ t >= x.runningAt
      /\ Transition(op, RunningRequest(op, next), next)
  BY DEF StoppingStep, InState, Binds
<1>2. c.sid \in Sessions /\ c.exec \in Execs /\ c.plan \in Plans
        /\ c.auth \in AuthIds
  BY DEF Commitments
<1>3. /\ x \in Snapshots /\ x.sid = c.sid /\ x.auth.approved <= now
      /\ \E o \in LifecycleOps : SnapshotShape(o, x)
  BY <1>1, <1>2, CurrentShape
<1>4. Started(x) /\ NotTerminal(x) /\ (Running(x) \/ ManagedRunning(x))
  BY <1>1, <1>3 DEF SnapshotShape
<1> HIDE DEF x
<1>6. /\ next \in Snapshots
      /\ next.sid = x.sid /\ next.state = "stopping"
      /\ next.plan = x.plan /\ next.createdAt = x.createdAt
      /\ next.auth = x.auth /\ next.exec = x.exec
      /\ next.startingAt = x.startingAt /\ next.runningAt = x.runningAt
      /\ next.proc = x.proc /\ next.stoppingAt = t
      /\ next.code = x.code /\ next.finishedAt = x.finishedAt
      /\ next.receipt = x.receipt
  BY <1>2, <1>3 DEF Snapshots, States
<1> HIDE DEF next
<1>7. SnapshotShape(op, next)
  <2>1. Started(next) /\ NotTerminal(next)
    BY <1>4, <1>6 DEF Started, Authorized, NotTerminal
  <2>2. \/ op = "mark_stopping" /\ Running(next)
        \/ op = "mark_managed_stopping" /\ ManagedRunning(next)
    BY <1>1, <1>4, <1>6, ConstantsAssumption
       DEF Running, ManagedRunning, Launched, Prepared, Managed,
           ConstantsAssumption
  <2> QED
    BY <1>1, <1>6, <2>1, <2>2 DEF SnapshotShape
<1>8. ValidTransition(x, next)
  BY <1>1, <1>6 DEF ValidTransition, SameRun, SameExec, SameAuth, SamePlan
<1>9. RunningRequest(op, next) \in Requests
  <2>1. /\ op \in LifecycleOps /\ next.sid \in Sessions
        /\ next.plan \in Plans /\ next.auth.id \in AuthIds
        /\ next.exec \in Execs
    BY <1>1, <1>2, <1>3, <1>6 DEF LifecycleOps
  <2> QED
    BY <1>1, <1>6, <2>1 DEF RunningRequest, Requests
<1>10. \A r : r.op = op /\ r.session = next =>
                RecomputedRequest(r) = RunningRequest(op, next)
  BY RecomputedFacts
<1>11. x = Current(next.sid) /\ sessions[next.sid] # 0
  BY <1>1, <1>3, <1>6 DEF x
<1>12. op \in LifecycleOps \ {"create"}
  BY DEF LifecycleOps
<1> QED
  BY <1>1, <1>3, <1>6, <1>7, <1>8, <1>9, <1>10, <1>11, <1>12, TransitionInv
     DEF next

LEMMA ExitedInv ==
    ASSUME RecoveryInv, NEW receipt \in Receipts,
           NEW op \in {"mark_exited", "mark_refinement_exited",
                       "mark_managed_exited"},
           op \in {"mark_exited", "mark_refinement_exited"} =>
              receipt.exec \in LinuxExecs,
           op = "mark_managed_exited" => receipt.exec \in ManagedExecs,
           ExitedStep(op, receipt)
    PROVE  RecoveryInv'
<1> DEFINE x == Current(receipt.sid)
           next == [x EXCEPT !.state = "exited", !.receipt = receipt,
                             !.finishedAt = receipt.finished]
<1>1. /\ Usable /\ sessions[receipt.sid] # 0
      /\ x.state \in {"running", "stopping"} /\ x.exec = receipt.exec
      /\ receipt.started # 0 /\ receipt.started <= x.runningAt
      /\ receipt.finished >= PhaseTime(x)
      /\ Transition(op, TerminalRequest(receipt), next)
  BY DEF ExitedStep, InState
<1>2. receipt.sid \in Sessions /\ receipt.finished \in Nat
  BY DEF Receipts
<1>3. /\ x \in Snapshots /\ x.sid = receipt.sid /\ x.auth.approved <= now
      /\ \E o \in LifecycleOps : SnapshotShape(o, x)
  BY <1>1, <1>2, CurrentShape
<1>4. /\ Started(x) /\ NotTerminal(x) /\ (Running(x) \/ ManagedRunning(x))
      /\ StopOrdered(x)
  BY <1>1, <1>3 DEF SnapshotShape, StopOrdered
<1> HIDE DEF x
<1>6. /\ next \in Snapshots
      /\ next.sid = x.sid /\ next.state = "exited"
      /\ next.plan = x.plan /\ next.createdAt = x.createdAt
      /\ next.auth = x.auth /\ next.exec = x.exec
      /\ next.startingAt = x.startingAt /\ next.runningAt = x.runningAt
      /\ next.proc = x.proc /\ next.stoppingAt = x.stoppingAt
      /\ next.code = x.code /\ next.finishedAt = receipt.finished
      /\ next.receipt = receipt
  BY <1>2, <1>3 DEF Snapshots, States
<1> HIDE DEF next
<1>7. SnapshotShape(op, next)
  <2>1. Started(next)
    BY <1>4, <1>6 DEF Started, Authorized
  <2>2. Terminated(next)
    BY <1>1, <1>4, <1>6, NoneAssumption
       DEF Terminated, StopOrdered, NoStopIntent, PhaseTime, NotTerminal,
           NoneAssumption
  <2>3. \/ op \in {"mark_exited", "mark_refinement_exited"} /\ Running(next)
        \/ op = "mark_managed_exited" /\ ManagedRunning(next)
    BY <1>1, <1>4, <1>6, ConstantsAssumption
       DEF Running, ManagedRunning, Launched, Prepared, Managed,
           ConstantsAssumption
  <2> QED
    BY <1>6, <2>1, <2>2, <2>3 DEF SnapshotShape
<1>8. ValidTransition(x, next)
  BY <1>1, <1>6 DEF ValidTransition, SameStop, SameRun, SameExec, SameAuth,
                    SamePlan
<1>9. TerminalRequest(receipt) \in Requests
  BY DEF TerminalRequest, Requests
<1>10. \A r : r.op = op /\ r.session = next =>
                RecomputedRequest(r) = TerminalRequest(receipt)
  BY <1>6, RecomputedFacts
<1>11. x = Current(next.sid) /\ sessions[next.sid] # 0
  BY <1>1, <1>3, <1>6 DEF x
<1>12. op \in LifecycleOps \ {"create"}
  BY DEF LifecycleOps
<1> QED
  BY <1>1, <1>3, <1>6, <1>7, <1>8, <1>9, <1>10, <1>11, <1>12, TransitionInv
     DEF next

LEMMA FailedInv ==
    ASSUME RecoveryInv, NEW c \in Commitments, NEW t \in Nat,
           NEW code \in FailureCodes,
           NEW op \in {"mark_failed", "mark_managed_failed"},
           op = "mark_failed" => c.exec \in LinuxExecs,
           op = "mark_managed_failed" => c.exec \in ManagedExecs,
           FailedStep(op, c, code, t)
    PROVE  RecoveryInv'
<1> DEFINE x == Current(c.sid)
           next == [x EXCEPT !.state = "failed", !.code = code,
                             !.finishedAt = t]
<1>1. /\ Usable /\ sessions[c.sid] # 0
      /\ x.state \in {"starting", "running", "stopping"}
      /\ x.plan = c.plan /\ x.auth.id = c.auth /\ x.exec = c.exec
      /\ t >= PhaseTime(x)
      /\ x.state \in {"running", "stopping"} => code \in PostLaunchCodes
      /\ Transition(op, FailureRequest(next), next)
  BY DEF FailedStep, InState, Binds
<1>2. c.sid \in Sessions /\ c.exec \in Execs /\ c.plan \in Plans
        /\ c.auth \in AuthIds
  BY DEF Commitments
<1>3. /\ x \in Snapshots /\ x.sid = c.sid /\ x.auth.approved <= now
      /\ \E o \in LifecycleOps : SnapshotShape(o, x)
  BY <1>1, <1>2, CurrentShape
<1>4. /\ Started(x) /\ NotTerminal(x)
      /\ \/ /\ x.state = "starting" /\ NotRunning(x) /\ NoStopIntent(x)
            /\ Prepared(x) \/ Managed(x)
         \/ /\ x.state # "starting" /\ StopOrdered(x)
            /\ Running(x) \/ ManagedRunning(x)
  BY <1>1, <1>3 DEF SnapshotShape, StopOrdered
<1> HIDE DEF x
<1>6. /\ next \in Snapshots
      /\ next.sid = x.sid /\ next.state = "failed"
      /\ next.plan = x.plan /\ next.createdAt = x.createdAt
      /\ next.auth = x.auth /\ next.exec = x.exec
      /\ next.startingAt = x.startingAt /\ next.runningAt = x.runningAt
      /\ next.proc = x.proc /\ next.stoppingAt = x.stoppingAt
      /\ next.code = code /\ next.finishedAt = t
      /\ next.receipt = x.receipt
  BY <1>2, <1>3 DEF Snapshots, States
<1> HIDE DEF next
<1>7. SnapshotShape(op, next)
  <2>1. Started(next)
    BY <1>4, <1>6 DEF Started, Authorized
  <2>2. FailedShape(next)
    <3>1. code # "none"
      BY DEF FailureCodes
    <3>2. PhaseTime(next) = PhaseTime(x) /\ next.receipt = None
      BY <1>4, <1>6 DEF PhaseTime, NotTerminal
    <3> QED
      BY <1>1, <1>6, <3>1, <3>2 DEF FailedShape
  <2>3. CASE op = "mark_failed"
    <3>1. /\ Prepared(next)
          /\ \/ NotRunning(next) /\ NoStopIntent(next)
             \/ Running(next) /\ StopOrdered(next) /\ next.code \in PostLaunchCodes
      BY <1>1, <1>4, <1>6, <2>3, ConstantsAssumption
         DEF Running, ManagedRunning, Launched, Prepared, Managed,
             ConstantsAssumption, NotRunning, NoStopIntent, StopOrdered
    <3> QED
      BY <1>6, <2>1, <2>2, <2>3, <3>1 DEF SnapshotShape
  <2>4. CASE op = "mark_managed_failed"
    <3>0. Running(x) => Prepared(x)
      BY DEF Running
    <3>1. Managed(x)
      BY <1>1, <1>4, <2>4, <3>0, ConstantsAssumption
         DEF ManagedRunning, Prepared, ConstantsAssumption
    <3>2. x.state # "starting" => x.runningAt # 0
      BY <1>3, <1>4 DEF Running, ManagedRunning, Launched, Started,
                        Authorized, Snapshots, Authorizations, NoAuth
    <3>3. /\ Managed(next)
          /\ \/ next.runningAt = 0 /\ NoStopIntent(next)
             \/ /\ next.runningAt # 0 /\ StopOrdered(next)
                /\ next.code \in PostLaunchCodes
      BY <1>1, <1>4, <1>6, <3>1, <3>2
         DEF Managed, NotRunning, NoStopIntent, StopOrdered
    <3> QED
      BY <1>6, <2>1, <2>2, <2>4, <3>3 DEF SnapshotShape
  <2> QED
    BY <2>3, <2>4
<1>8. ValidTransition(x, next)
  BY <1>1, <1>6 DEF ValidTransition, SameStop, SameRun, SameExec, SameAuth,
                    SamePlan
<1>9. FailureRequest(next) \in Requests
  <2>1. /\ next.sid \in Sessions
        /\ next.plan \in Plans /\ next.auth.id \in AuthIds
        /\ next.exec \in Execs /\ next.code \in FailureCodes
    BY <1>1, <1>2, <1>3, <1>6
  <2> QED
    BY <2>1 DEF FailureRequest, Requests
<1>10. \A r : r.op = op /\ r.session = next =>
                RecomputedRequest(r) = FailureRequest(next)
  BY RecomputedFacts
<1>11. x = Current(next.sid) /\ sessions[next.sid] # 0
  BY <1>1, <1>3, <1>6 DEF x
<1>12. op \in LifecycleOps \ {"create"}
  BY DEF LifecycleOps
<1> QED
  BY <1>1, <1>3, <1>6, <1>7, <1>8, <1>9, <1>10, <1>11, <1>12, TransitionInv
     DEF next

---------------------------------------------------------------------------
(* create and reserve_start.                                               *)

LEMMA CreateInv ==
    ASSUME RecoveryInv, NEW th \in Threads, create(th)
    PROVE  RecoveryInv'
<1> DEFINE call == inflight[th]
           x == [sid |-> call.sid, state |-> "created", plan |-> call.plan,
                 createdAt |-> call.at, auth |-> NoAuth, exec |-> None,
                 startingAt |-> 0, runningAt |-> 0, proc |-> None,
                 stoppingAt |-> 0, code |-> "none", finishedAt |-> 0,
                 receipt |-> None]
           r == Record("create", call.key, CreateRequest(call.sid, call.plan),
                       x, None)
           pending == [inflight EXCEPT ![th] = None]
<1>1. /\ Usable /\ call # None /\ call.op = "create"
      /\ call.key \notin requests /\ sessions[call.sid] = 0
      /\ Apply(r, pending)
  BY DEF create
<1>2. inflight \in [Threads -> Calls \cup {None}] /\ Len(records) \in Nat
        /\ now \in Nat
  BY DEF RecoveryInv, TypeOK, Times
<1>3. call.sid \in Sessions /\ call.plan \in Plans /\ call.key \in Keys
        /\ call.at \in Nat
  BY <1>1, <1>2 DEF Calls
<1>4. pending \in [Threads -> Calls \cup {None}]
        /\ \A other \in Threads : pending[other] \in {None, inflight[other]}
  BY <1>2
<1> HIDE DEF call
<1>5. x \in Snapshots
  BY <1>3 DEF Snapshots, States
<1>6. SnapshotShape("create", x)
  BY DEF SnapshotShape, NotStarted, NotRunning, NoStopIntent, NotTerminal
<1>7. x.auth.approved = 0 /\ x.sid = call.sid
  BY DEF NoAuth
<1> HIDE DEF x
<1>8. /\ r.op = "create" /\ r.session = x /\ r.intent = None
      /\ r.key = call.key /\ r.seq = Len(records) + 1
  BY DEF Record
<1>9. r \in Records
  <2>1. CreateRequest(call.sid, call.plan) \in Requests
    BY <1>3 DEF CreateRequest, Requests
  <2>2. "create" \in LifecycleOps
    BY DEF LifecycleOps
  <2> QED
    BY <1>2, <1>3, <1>5, <2>1, <2>2 DEF Record, Records, LifecycleRecords
<1> HIDE DEF r
<1>10. ~Known(records, call.sid)
  BY <1>1, <1>3, SessionIndexFacts DEF RecoveryInv, IndexesMatchFile, TypeOK
<1>11. \A i \in 1..Len(records) : records[i].key # call.key
  BY <1>1 DEF RecoveryInv, IndexesMatchFile, KeyIndex
<1>12. accept_recovered_record(records, r)
  <2>1. valid_record_shape(r)
    BY <1>6, <1>8 DEF valid_record_shape, LifecycleOps
  <2>2. r.request = RecomputedRequest(r)
    BY <1>8, RecomputedFacts
  <2> QED
    BY <1>7, <1>8, <1>10, <1>11, <2>1, <2>2 DEF accept_recovered_record
<1>13. Appendable(r)
  BY <1>2, <1>7, <1>8, <1>12 DEF Appendable, IntentOps
<1> HIDE DEF pending
<1> QED
  BY <1>1, <1>4, <1>9, <1>13, ApplyInv

LEMMA ReserveInv ==
    ASSUME RecoveryInv, NEW th \in Threads, reserve_start(th)
    PROVE  RecoveryInv'
<1> DEFINE call == inflight[th]
           x == Current(call.sid)
           next == [x EXCEPT !.state = "preparing", !.auth = call.auth]
           pending == [inflight EXCEPT ![th] = None]
<1>1. /\ Usable /\ call # None /\ call.op = "reserve"
      /\ call.key \notin requests /\ sessions[call.sid] # 0
      /\ x.state = "created" /\ x.plan = call.plan
      /\ Apply(Record("reserve_start", call.key, AuthorizationRequest(next),
                      next, None), pending)
  BY DEF reserve_start, InState
<1>2. inflight \in [Threads -> Calls \cup {None}]
  BY DEF RecoveryInv, TypeOK
<1>3. call.sid \in Sessions /\ call.plan \in Plans /\ call.key \in Keys
        /\ call.auth \in Authorizations
  BY <1>1, <1>2 DEF Calls
<1>4. pending \in [Threads -> Calls \cup {None}]
        /\ \A other \in Threads : pending[other] \in {None, inflight[other]}
  BY <1>2
<1>5. Bound(call)
  BY <1>1 DEF RecoveryInv, ReservationsBound
<1> HIDE DEF call
<1>6. /\ x \in Snapshots /\ x.sid = call.sid
      /\ \E o \in LifecycleOps : SnapshotShape(o, x)
  BY <1>1, <1>3, CurrentShape
<1>7. NotStarted(x) /\ NotRunning(x) /\ NoStopIntent(x) /\ NotTerminal(x)
  BY <1>1, <1>6 DEF SnapshotShape
<1>8. call.auth.approved >= x.createdAt
  BY <1>1, <1>5 DEF Bound, Current
<1> HIDE DEF x, pending
<1>9. /\ next \in Snapshots
      /\ next.sid = x.sid /\ next.state = "preparing"
      /\ next.plan = x.plan /\ next.createdAt = x.createdAt
      /\ next.auth = call.auth /\ next.exec = x.exec
      /\ next.startingAt = x.startingAt /\ next.runningAt = x.runningAt
      /\ next.proc = x.proc /\ next.stoppingAt = x.stoppingAt
      /\ next.code = x.code /\ next.finishedAt = x.finishedAt
      /\ next.receipt = x.receipt
  BY <1>3, <1>6 DEF Snapshots, States
<1> HIDE DEF next
<1>10. SnapshotShape("reserve_start", next)
  <2>1. Authorized(next)
    BY <1>1, <1>3, <1>5, <1>9 DEF Authorized, Bound, Authorizations
  <2>2. NotStarted(next) /\ NotRunning(next) /\ NoStopIntent(next)
          /\ NotTerminal(next)
    BY <1>7, <1>9 DEF NotStarted, NotRunning, NoStopIntent, NotTerminal
  <2> QED
    BY <1>9, <2>1, <2>2 DEF SnapshotShape
<1>11. ValidTransition(x, next)
  BY <1>1, <1>8, <1>9 DEF ValidTransition, SamePlan
<1>12. AuthorizationRequest(next) \in Requests
  BY <1>1, <1>3, <1>6, <1>9 DEF AuthorizationRequest, Requests
<1>13. \A r : r.op = "reserve_start" /\ r.session = next =>
                RecomputedRequest(r) = AuthorizationRequest(next)
  BY RecomputedFacts
<1>14. x = Current(next.sid) /\ sessions[next.sid] # 0
  BY <1>1, <1>6, <1>9 DEF x
<1>15. next.auth.approved <= now
  BY <1>5, <1>9 DEF Bound
<1>16. "reserve_start" \in LifecycleOps \ {"create"}
  BY DEF LifecycleOps
<1> QED
  BY <1>1, <1>3, <1>4, <1>9, <1>10, <1>11, <1>12, <1>13, <1>14, <1>15, <1>16,
     LifecycleInv DEF next

---------------------------------------------------------------------------
(* The observation intents.                                                *)

\* A stored key tells what stored it.
LEMMA StoredKeys ==
    ASSUME RecoveryInv, Usable, NEW i \in 1..Len(records)
    PROVE  LET r == records[i] IN
           /\ r.op \in LifecycleOps => r.key \notin IntentKeys
           /\ r.op = "enqueue_intent" =>
                 r.key = <<"enqueue", EnqueueRequest(r.session, r.intent)>>
           /\ r.op = "set_disposition" =>
                 r.key = <<"disposition",
                           DispositionRequest(r.session, r.intent)>>
           /\ r.op \in LifecycleOps \cup IntentOps
<1> DEFINE r == records[i]
<1>1. r \in Records
  BY DEF RecoveryInv, TypeOK
<1>2. records = disk /\ recover(records)
  BY DEF RecoveryInv, IndexesMatchFile, EveryRecordRecoverable
<1>3. /\ r.request = RecomputedRequest(r)
      /\ r.op \in IntentOps => r.key = IntentKey(r.request)
  BY <1>2, RecoveredShape
<1>4. r.op \in LifecycleOps => r.key \notin IntentKeys
  <2>1. r.op \in LifecycleOps => r.key \in Keys
    BY <1>1 DEF Records, LifecycleRecords, IntentRecords, LifecycleOps,
                IntentOps
  <2> QED
    BY <2>1, KeySpaceAssumption DEF KeySpaceAssumption
<1>5. r.op \in LifecycleOps \cup IntentOps
  BY <1>1 DEF Records, LifecycleRecords, IntentRecords
<1> HIDE DEF r
<1>6. r.op = "enqueue_intent" =>
         r.key = <<"enqueue", EnqueueRequest(r.session, r.intent)>>
  BY <1>3, RecomputedFacts DEF IntentKey, IntentOps, EnqueueRequest
<1>7. r.op = "set_disposition" =>
         r.key = <<"disposition", DispositionRequest(r.session, r.intent)>>
  BY <1>3, RecomputedFacts DEF IntentKey, IntentOps, DispositionRequest
<1> QED
  BY <1>4, <1>5, <1>6, <1>7 DEF r

\* An intent that is neither queued nor quarantined has no record.
LEMMA UnknownIntent ==
    ASSUME RecoveryInv, Usable, NEW s, NEW id,
           <<s, id>> \notin quarantined_observation_intents
    PROVE  /\ <<s, id>> \notin observation_intents =>
                 \A i \in 1..Len(records) :
                    ~IsIntent(records, i, "enqueue_intent", s, id)
           /\ <<s, id>> \notin observation_dispositions =>
                 \A i \in 1..Len(records) :
                    ~IsIntent(records, i, "set_disposition", s, id)
<1>1. \A op : \A i \in 1..Len(records) :
         IsIntent(records, i, op, s, id) => <<s, id>> \in IntentsOf(records, op)
  BY DEF IsIntent, IntentsOf
<1> QED
  BY <1>1 DEF RecoveryInv, IndexesMatchFile

LEMMA EnqueueInv ==
    ASSUME RecoveryInv, NEW s \in Sessions, NEW id \in IntentIds,
           NEW body \in Bodies, NEW issued \in Nat, NEW expires \in Nat,
           enqueue_observation_intent(s, id, body, issued, expires)
    PROVE  RecoveryInv'
<1> DEFINE x == Current(s)
           in == [id |-> id, body |-> body, issued |-> issued,
                  expires |-> expires, disposition |-> "pending",
                  decidedAt |-> 0]
           request == EnqueueRequest(x, in)
           r == Record("enqueue_intent", IntentKey(request), request, x, in)
<1>1. /\ Usable /\ sessions[s] # 0 /\ x.state = "running"
      /\ <<s, id>> \notin quarantined_observation_intents
      /\ <<s, id>> \notin observation_intents
      /\ issued # 0 /\ expires > issued /\ issued >= x.runningAt
      /\ expires - issued <= catalog[body]
      /\ Apply(r, inflight)
  BY DEF enqueue_observation_intent, InState
<1>2. /\ x \in Snapshots /\ x.sid = s /\ x.auth.approved <= now
      /\ IsLatest(records, sessions[s], s) /\ records[sessions[s]].session = x
  BY <1>1, CurrentShape DEF Current
<1>3. /\ in \in IntentType /\ in.id = id /\ in.body = body
      /\ in.issued = issued /\ in.expires = expires
      /\ in.disposition = "pending" /\ in.decidedAt = 0
  BY DEF IntentType
<1> HIDE DEF x, in
<1>4. request \in Requests /\ request.op = "enqueue"
        /\ request.sid = s /\ request.id = id
  BY <1>2, <1>3 DEF EnqueueRequest, Requests, Snapshots, IntentType
<1>5. IntentKey(request) \in IntentKeys
        /\ IntentKey(request) = <<"enqueue", request>>
  BY <1>4 DEF IntentKey, IntentKeys
<1>6. \A i \in 1..Len(records) :
         ~IsIntent(records, i, "enqueue_intent", s, id)
  BY <1>1, UnknownIntent
<1>7. ASSUME NEW i \in 1..Len(records) PROVE records[i].key # IntentKey(request)
  <2>1. CASE records[i].op \in LifecycleOps
    BY <1>1, <1>5, <2>1, StoredKeys
  <2>2. CASE records[i].op = "enqueue_intent"
    <3>1. records[i].key = <<"enqueue",
             EnqueueRequest(records[i].session, records[i].intent)>>
      BY <1>1, <2>2, StoredKeys
    <3>2. EnqueueRequest(records[i].session, records[i].intent) # request
      BY <1>4, <1>6, <2>2 DEF IsIntent, EnqueueRequest
    <3> QED
      BY <1>5, <3>1, <3>2
  <2>3. CASE records[i].op = "set_disposition"
    BY <1>1, <1>5, <2>3, StoredKeys
  <2> QED
    BY <1>1, <2>1, <2>2, <2>3, StoredKeys DEF IntentOps
<1> HIDE DEF request
<1>8. /\ r.op = "enqueue_intent" /\ r.session = x /\ r.intent = in
      /\ r.key = IntentKey(request) /\ r.request = request
      /\ r.seq = Len(records) + 1
  BY DEF Record
<1>9. r \in Records
  BY <1>2, <1>3, <1>4, <1>5
     DEF Record, Records, IntentRecords, IntentOps, RecoveryInv, TypeOK
<1> HIDE DEF r
<1>10. valid_record_shape(r)
  <2>1. catalog[body] \in 0..MaxIntentTTL /\ MaxIntentTTL \in Nat
    BY CatalogAssumption, ConstantsAssumption
       DEF RecoveryInv, TypeOK, CatalogAssumption, ConstantsAssumption
  <2>2. IntentShape("enqueue_intent", in)
    BY <1>1, <1>3, <2>1 DEF IntentShape
  <2>3. in # None
    BY <1>3, NoneAssumption DEF NoneAssumption
  <2> QED
    BY <1>8, <2>2, <2>3 DEF valid_record_shape, LifecycleOps
<1>11. SameSnapshot(x, x)
  BY <1>2 DEF SameSnapshot, Snapshots
<1>12. AcceptsEnqueue(records, r)
  <2>1. \E i \in 1..Len(records) :
          /\ IsLatest(records, i, r.session.sid)
          /\ SameSnapshot(records[i].session, r.session)
          /\ records[i].session.state = "running"
          /\ r.intent.issued >= records[i].session.runningAt
    BY <1>1, <1>2, <1>3, <1>8, <1>11 DEF IsLatest
  <2> QED
    BY <1>2, <1>3, <1>6, <1>8, <2>1 DEF AcceptsEnqueue
<1>13. r.request = RecomputedRequest(r)
  BY <1>8, RecomputedFacts DEF request
<1>14. accept_recovered_record(records, r)
  BY <1>7, <1>8, <1>10, <1>12, <1>13 DEF accept_recovered_record
<1>15. Appendable(r)
  <2>1. ~(expires - issued > catalog[body])
    <3>1. catalog[body] \in Nat
      BY CatalogAssumption, ConstantsAssumption
         DEF RecoveryInv, TypeOK, CatalogAssumption, ConstantsAssumption
    <3> QED
      BY <1>1, <3>1
  <2> QED
    BY <1>1, <1>2, <1>3, <1>8, <1>14, <2>1 DEF Appendable
<1>16. inflight \in [Threads -> Calls \cup {None}]
  BY DEF RecoveryInv, TypeOK
<1> QED
  BY <1>1, <1>9, <1>15, <1>16, ApplyInv

LEMMA DispositionInv ==
    ASSUME RecoveryInv, NEW s \in Sessions, NEW id \in IntentIds,
           NEW body \in Bodies, NEW disposition \in Dispositions,
           NEW decided \in Nat,
           set_observation_intent_disposition(s, id, body, disposition, decided)
    PROVE  RecoveryInv'
<1>1. PICK k \in 1..Len(records) :
       LET in == [records[k].intent EXCEPT !.disposition = disposition,
                                           !.decidedAt = decided]
           request == DispositionRequest(Current(s), in)
       IN
       /\ Usable
       /\ <<s, id>> \notin quarantined_observation_intents
       /\ <<s, id>> \notin observation_dispositions
       /\ IsIntent(records, k, "enqueue_intent", s, id)
       /\ decided >= records[k].intent.issued
       /\ (disposition = "expired") <=> (decided >= records[k].intent.expires)
       /\ sessions[s] # 0
       /\ Apply(Record("set_disposition", IntentKey(request), request,
                       Current(s), in), inflight)
  BY DEF set_observation_intent_disposition
<1> DEFINE x == Current(s)
           old == records[k].intent
           in == [old EXCEPT !.disposition = disposition,
                             !.decidedAt = decided]
           request == DispositionRequest(x, in)
           r == Record("set_disposition", IntentKey(request), request, x, in)
<1>2. /\ x \in Snapshots /\ x.sid = s /\ x.auth.approved <= now
      /\ IsLatest(records, sessions[s], s) /\ records[sessions[s]].session = x
  BY <1>1, CurrentShape DEF Current
<1>3. /\ old \in IntentType /\ old.id = id
      /\ IntentShape("enqueue_intent", old)
  <2>1. records[k] \in Records /\ records[k].op = "enqueue_intent"
          /\ old.id = id
    BY <1>1 DEF RecoveryInv, TypeOK, IsIntent
  <2>2. valid_record_shape(records[k])
    BY <1>1, RecoveredShape
       DEF RecoveryInv, IndexesMatchFile, EveryRecordRecoverable
  <2> QED
    BY <2>1, <2>2 DEF valid_record_shape, Records, LifecycleRecords,
                      IntentRecords, LifecycleOps
<1>4. Apply(r, inflight)
  BY <1>1
<1> HIDE DEF x, old
<1>5. /\ in \in IntentType /\ in.id = id /\ in.body = old.body
      /\ in.issued = old.issued /\ in.expires = old.expires
      /\ in.disposition = disposition /\ in.decidedAt = decided
      /\ [old EXCEPT !.disposition = in.disposition,
                     !.decidedAt = in.decidedAt] = in
  BY <1>3 DEF IntentType
<1> HIDE DEF in
<1>6. request \in Requests /\ request.op = "disposition"
        /\ request.sid = s /\ request.id = id
  BY <1>2, <1>5 DEF DispositionRequest, Requests, Snapshots, IntentType
<1>7. IntentKey(request) \in IntentKeys
        /\ IntentKey(request) = <<"disposition", request>>
  BY <1>6 DEF IntentKey, IntentKeys
<1>8. \A i \in 1..Len(records) :
         ~IsIntent(records, i, "set_disposition", s, id)
  BY <1>1, UnknownIntent
<1>9. ASSUME NEW i \in 1..Len(records) PROVE records[i].key # IntentKey(request)
  <2>1. CASE records[i].op \in LifecycleOps
    BY <1>1, <1>7, <2>1, StoredKeys
  <2>2. CASE records[i].op = "set_disposition"
    <3>1. records[i].key = <<"disposition",
             DispositionRequest(records[i].session, records[i].intent)>>
      BY <1>1, <2>2, StoredKeys
    <3>2. DispositionRequest(records[i].session, records[i].intent) # request
      BY <1>6, <1>8, <2>2 DEF IsIntent, DispositionRequest
    <3> QED
      BY <1>7, <3>1, <3>2
  <2>3. CASE records[i].op = "enqueue_intent"
    BY <1>1, <1>7, <2>3, StoredKeys
  <2> QED
    BY <1>1, <2>1, <2>2, <2>3, StoredKeys DEF IntentOps
<1> HIDE DEF request
<1>10. /\ r.op = "set_disposition" /\ r.session = x /\ r.intent = in
       /\ r.key = IntentKey(request) /\ r.request = request
       /\ r.seq = Len(records) + 1
  BY DEF Record
<1>11. r \in Records
  BY <1>2, <1>5, <1>6, <1>7
     DEF Record, Records, IntentRecords, IntentOps, RecoveryInv, TypeOK
<1> HIDE DEF r
<1>12. valid_record_shape(r)
  <2>1. disposition # "pending"
    BY DEF Dispositions
  <2>2. IntentShape("set_disposition", in)
    BY <1>1, <1>3, <1>5, <2>1 DEF IntentShape, old
  <2>3. in # None
    BY <1>5, NoneAssumption DEF NoneAssumption
  <2> QED
    BY <1>10, <2>2, <2>3 DEF valid_record_shape, LifecycleOps
<1>13. SameSnapshot(x, x)
  BY <1>2 DEF SameSnapshot, Snapshots
<1>14. AcceptsDisposition(records, r)
  <2>1. \E i \in 1..Len(records) :
          /\ IsLatest(records, i, r.session.sid)
          /\ SameSnapshot(records[i].session, r.session)
    BY <1>2, <1>10, <1>13 DEF IsLatest
  <2>2. \E i \in 1..Len(records) :
          /\ IsIntent(records, i, "enqueue_intent", r.session.sid, r.intent.id)
          /\ [records[i].intent EXCEPT !.disposition = r.intent.disposition,
                !.decidedAt = r.intent.decidedAt] = r.intent
    BY <1>1, <1>2, <1>5, <1>10 DEF old
  <2> QED
    BY <1>2, <1>5, <1>8, <1>10, <2>1, <2>2 DEF AcceptsDisposition
<1>15. r.request = RecomputedRequest(r)
  BY <1>10, RecomputedFacts DEF request
<1>16. accept_recovered_record(records, r)
  BY <1>9, <1>10, <1>12, <1>14, <1>15 DEF accept_recovered_record
<1>17. Appendable(r)
  BY <1>1, <1>2, <1>5, <1>10, <1>16 DEF Appendable
<1>18. inflight \in [Threads -> Calls \cup {None}]
  BY DEF RecoveryInv, TypeOK
<1> QED
  BY <1>1, <1>4, <1>11, <1>17, <1>18, ApplyInv

---------------------------------------------------------------------------
(* The remaining steps.                                                    *)

\* A step that writes nothing: time may pass, calls may end, the registry
\* may find itself poisoned.
LEMMA QuietInv ==
    ASSUME RecoveryInv, TypeOK', UNCHANGED <<disk, torn, up, catalog, indexes>>,
           poisoned' \in {poisoned, TRUE}, now' >= now,
           \A th \in Threads : inflight'[th] \in {None, inflight[th]}
    PROVE  RecoveryInv'
<1>0. now \in Nat /\ now' \in Nat
  BY DEF RecoveryInv, TypeOK, Times
<1>1. EveryRecordRecoverable'
  BY DEF RecoveryInv, EveryRecordRecoverable
<1>2. IndexesMatchFile'
  <2>1. Usable' => Usable
    BY DEF Usable
  <2> QED
    BY <2>1 DEF RecoveryInv, IndexesMatchFile, indexes
<1>3. AuthorizationsPast'
  <2> SUFFICES ASSUME NEW i \in 1..Len(disk)
               PROVE  disk[i].session.auth.approved <= now'
    BY DEF AuthorizationsPast
  <2>1. disk[i].session \in Snapshots
    BY DEF RecoveryInv, TypeOK, Records, LifecycleRecords, IntentRecords
  <2>2. disk[i].session.auth.approved \in Nat
    BY <2>1 DEF Snapshots, Authorizations, NoAuth
  <2>3. disk[i].session.auth.approved <= now
    BY DEF RecoveryInv, AuthorizationsPast
  <2> QED
    BY <1>0, <2>2, <2>3
<1>4. ReservationsBound'
  <2> SUFFICES ASSUME NEW th \in Threads, inflight'[th] # None,
                      inflight'[th].op = "reserve"
               PROVE  Bound(inflight[th])'
    BY DEF ReservationsBound
  <2>1. inflight'[th] = inflight[th]
    OBVIOUS
  <2>2. Bound(inflight[th])
    BY <2>1 DEF RecoveryInv, ReservationsBound
  <2>3. inflight[th].auth \in Authorizations
    BY <2>1 DEF RecoveryInv, TypeOK, Calls
  <2>4. inflight[th].auth.approved \in Nat
    BY <2>3 DEF Authorizations
  <2>5. inflight[th].auth.approved <= now'
    BY <1>0, <2>2, <2>4 DEF Bound
  <2> QED
    BY <2>1, <2>2, <2>5 DEF Bound, Usable, indexes
<1> QED
  BY <1>1, <1>2, <1>3, <1>4 DEF RecoveryInv

\* The first lock of a call leaves what the second one relies on.
LEMMA BeginInv ==
    ASSUME RecoveryInv, NEW th \in Threads, NEW s \in Sessions, NEW p \in Plans,
           \/ BeginCreate(th, s, p)
           \/ \E auth \in Offered : BeginReserve(th, s, p, auth)
    PROVE  RecoveryInv'
<1>1. TypeOK'
  BY BeginType DEF RecoveryInv
<1>2. UNCHANGED <<now, disk, torn, up, poisoned, catalog, indexes>>
  BY DEF BeginCreate, BeginReserve
<1>3. EveryRecordRecoverable' /\ IndexesMatchFile' /\ AuthorizationsPast'
  BY <1>2 DEF RecoveryInv, EveryRecordRecoverable, IndexesMatchFile,
              AuthorizationsPast, Usable, indexes
<1>4. inflight \in [Threads -> Calls \cup {None}]
  BY DEF RecoveryInv, TypeOK
<1>5. ReservationsBound'
  <2> SUFFICES ASSUME NEW t \in Threads, inflight'[t] # None,
                      inflight'[t].op = "reserve"
               PROVE  Bound(inflight[t])'
    BY DEF ReservationsBound
  <2>1. CASE t # th
    <3>1. inflight'[t] = inflight[t]
      BY <1>4, <2>1 DEF BeginCreate, BeginReserve
    <3>2. Bound(inflight[t])
      BY <3>1 DEF RecoveryInv, ReservationsBound
    <3> QED
      BY <1>2, <3>1, <3>2 DEF Bound, Usable, indexes
  <2>2. CASE t = th
    <3>1. ~BeginCreate(th, s, p)
      BY <1>4, <2>2 DEF BeginCreate
    <3>2. PICK auth \in Offered : BeginReserve(th, s, p, auth)
      BY <3>1
    <3>3. PICK key \in CallerKeys["reserve_start"] :
             inflight'[th] = [op |-> "reserve", key |-> key, sid |-> s,
                              plan |-> p, auth |-> auth, at |-> now]
      BY <1>4, <3>2 DEF BeginReserve
    <3>4. inflight'[th].sid = s /\ inflight'[th].plan = p
            /\ inflight'[th].auth = auth
      BY <3>3
    <3>5. /\ up /\ auth.approved # 0 /\ auth.expires > auth.approved
          /\ auth.expires - auth.approved <= MaxAuthTTL
          /\ auth.approved <= now /\ auth.expires <= PlanExpiry[p]
          /\ sessions[s] # 0
          /\ auth.approved >= records[sessions[s]].session.createdAt
      BY <3>2 DEF BeginReserve, Usable, InState, Current
    <3> QED
      BY <1>2, <2>2, <3>4, <3>5 DEF Bound, Usable, indexes
  <2> QED
    BY <2>1, <2>2
<1> QED
  BY <1>1, <1>3, <1>5 DEF RecoveryInv

LEMMA InitRecovery == Init => RecoveryInv
<1> SUFFICES ASSUME Init PROVE RecoveryInv
  OBVIOUS
<1>1. TypeOK
  BY InitType
<1>2. Len(disk) = 0 /\ MaxRecords \in Nat
  BY ConstantsAssumption DEF Init, ConstantsAssumption
<1>3. EveryRecordRecoverable /\ AuthorizationsPast
  BY <1>2 DEF EveryRecordRecoverable, recover, AuthorizationsPast
<1>4. IndexesMatchFile
  BY DEF Init, IndexesMatchFile, Usable
<1>5. ReservationsBound
  BY DEF Init, ReservationsBound
<1> QED
  BY <1>1, <1>3, <1>4, <1>5 DEF RecoveryInv

LEMMA NextRecovery ==
    ASSUME ClockStepsBack = FALSE, RecoveryInv, [Next]_vars
    PROVE  RecoveryInv'
<1>0. TypeOK /\ TypeOK'
  BY NextType DEF RecoveryInv
<1>a. now \in Nat /\ 1..now \subseteq Nat /\ Times \subseteq Nat
      /\ 1..(MaxTime + 1) \subseteq Nat
  BY <1>0, ClockAssumption DEF TypeOK, Times, ClockAssumption
<1>1. CASE Launch
  <2>1. PICK c \in Commitments :
           \/ mark_starting(c)
           \/ mark_managed_starting(c)
           \/ \E t \in 1..now :
                 \/ \E proc \in Procs : mark_running(c, proc, t)
                 \/ mark_managed_running(c, t)
                 \/ \E proc \in Procs : mark_stopping(c, proc, t)
                 \/ mark_managed_stopping(c, t)
                 \/ \E code \in FailureCodes : mark_failed(c, code, t)
                 \/ \E code \in FailureCodes : mark_managed_failed(c, code, t)
    BY <1>1 DEF Launch
  <2>2. CASE mark_starting(c) \/ mark_managed_starting(c)
    BY <2>2, StartingInv DEF mark_starting, mark_managed_starting
  <2>3. ASSUME NEW t \in 1..now, NEW proc \in Procs, mark_running(c, proc, t)
        PROVE  RecoveryInv'
    BY <1>a, <2>3, RunningInv DEF mark_running
  <2>4. ASSUME NEW t \in 1..now, mark_managed_running(c, t)
        PROVE  RecoveryInv'
    BY <1>a, <2>4, RunningInv DEF mark_managed_running
  <2>5. ASSUME NEW t \in 1..now, NEW proc \in Procs, mark_stopping(c, proc, t)
        PROVE  RecoveryInv'
    BY <1>a, <2>5, StoppingInv DEF mark_stopping
  <2>6. ASSUME NEW t \in 1..now, mark_managed_stopping(c, t)
        PROVE  RecoveryInv'
    BY <1>a, <2>6, StoppingInv DEF mark_managed_stopping
  <2>7. ASSUME NEW t \in 1..now, NEW code \in FailureCodes,
               mark_failed(c, code, t) \/ mark_managed_failed(c, code, t)
        PROVE  RecoveryInv'
    BY <1>a, <2>7, FailedInv DEF mark_failed, mark_managed_failed
  <2> QED
    BY <2>1, <2>2, <2>3, <2>4, <2>5, <2>6, <2>7
<1>2. CASE Finish
  <2>1. PICK receipt \in Presented :
           \/ mark_exited(receipt)
           \/ mark_refinement_exited(receipt)
           \/ mark_managed_exited(receipt)
    BY <1>2 DEF Finish
  <2>2. receipt \in Receipts
    BY <1>a DEF Presented, Receipts
  <2>3. CASE mark_exited(receipt)
    BY <2>2, <2>3, ExitedInv DEF mark_exited
  <2>4. CASE mark_refinement_exited(receipt)
    BY <2>2, <2>4, ExitedInv DEF mark_refinement_exited
  <2>5. CASE mark_managed_exited(receipt)
    BY <2>2, <2>5, ExitedInv DEF mark_managed_exited
  <2> QED
    BY <2>1, <2>3, <2>4, <2>5
<1>3. CASE Request
  <2>1. PICK th \in Threads :
           \/ create(th)
           \/ reserve_start(th)
           \/ AbandonCall(th)
           \/ \E s \in Sessions, p \in Plans :
                 \/ BeginCreate(th, s, p)
                 \/ \E auth \in Offered : BeginReserve(th, s, p, auth)
    BY <1>3 DEF Request
  <2>2. CASE AbandonCall(th)
    <3>1. \A t \in Threads : inflight'[t] \in {None, inflight[t]}
      BY <1>0, <2>2 DEF AbandonCall, TypeOK
    <3> QED
      BY <1>0, <1>a, <2>2, <3>1, QuietInv DEF AbandonCall
  <2> QED
    BY <2>1, <2>2, CreateInv, ReserveInv, BeginInv
<1>4. CASE Observe
  <2>1. PICK s \in Sessions, id \in IntentIds, body \in Bodies :
           \/ \E issued \in Times, expires \in 1..(MaxTime + 1) :
                 enqueue_observation_intent(s, id, body, issued, expires)
           \/ \E disposition \in Dispositions, decided \in Times :
                 set_observation_intent_disposition(s, id, body, disposition,
                                                    decided)
    BY <1>4 DEF Observe
  <2> QED
    BY <1>a, <2>1, EnqueueInv, DispositionInv
<1>5. CASE Environment
  <2>1. CASE \E cat \in Catalogs : open_or_create(cat)
    <3>1. PICK cat \in Catalogs : open_or_create(cat)
      BY <2>1
    <3>2. UNCHANGED <<now, disk, inflight>> /\ ~up
      BY <3>1 DEF open_or_create
    <3>3. EveryRecordRecoverable' /\ AuthorizationsPast'
      BY <3>2 DEF RecoveryInv, EveryRecordRecoverable, AuthorizationsPast
    <3>4. IndexesMatchFile'
      BY <3>1 DEF open_or_create, IndexesMatchFile
    <3>5. ReservationsBound'
      BY <3>2 DEF RecoveryInv, ReservationsBound, Bound
    <3> QED
      BY <1>0, <3>3, <3>4, <3>5 DEF RecoveryInv
  <2>2. CASE Crash
    <3>1. EveryRecordRecoverable' /\ AuthorizationsPast'
      BY <2>2 DEF Crash, RecoveryInv, EveryRecordRecoverable,
                  AuthorizationsPast
    <3> QED
      BY <1>0, <2>2, <3>1, DownInv DEF Crash, Forget
  <2>3. CASE verify_identity
    BY <1>0, <1>a, <2>3, QuietInv DEF verify_identity
  <2>4. CASE \E s \in Sessions, started, finished \in Times :
                commit_terminal(s, started, finished)
    BY <1>0, <1>a, <2>4, QuietInv DEF commit_terminal
  <2>5. CASE Tick
    BY <1>0, <1>a, <2>5, QuietInv DEF Tick
  <2>6. ~ClockStepBack
    BY DEF ClockStepBack
  <2> QED
    BY <1>5, <2>1, <2>2, <2>3, <2>4, <2>5, <2>6 DEF Environment
<1>6. CASE UNCHANGED vars
  BY <1>0, <1>a, <1>6, QuietInv DEF vars
<1> QED
  BY <1>1, <1>2, <1>3, <1>4, <1>5, <1>6 DEF Next

\* Under a wall clock that is never set back, the strengthened invariant
\* holds of every behaviour of the registry: any number of sessions,
\* callers, records, intents, crashes, failed writes and restarts.
THEOREM RecoveryInvariant ==
    ASSUME ClockStepsBack = FALSE
    PROVE  Spec => []RecoveryInv
<1>1. Init => RecoveryInv
  BY InitRecovery
<1>2. RecoveryInv /\ [Next]_vars => RecoveryInv'
  BY NextRecovery
<1> QED
  BY <1>1, <1>2, PTL DEF Spec

\* recover accepts every whole record that create, reserve_start, the mark_*
\* transitions and the intent operations wrote, and a registry that answers
\* requests has nothing but whole records in its file. Of a file that ends in a
\* partial record, as a death or a failed rollback in an append may leave it,
\* this says only that the records before it are good: open_or_create refuses
\* such a file.
THEOREM AlwaysRecoverable ==
    ASSUME ClockStepsBack = FALSE
    PROVE  Spec => [](EveryRecordRecoverable /\ (Usable => ~torn))
<1>1. RecoveryInv => EveryRecordRecoverable /\ (Usable => ~torn)
  BY DEF RecoveryInv, IndexesMatchFile
<1> QED
  BY <1>1, RecoveryInvariant, PTL

\* The indexes append_record_locked maintains are those recover would build
\* from the file: a restart changes no answer of the registry.
THEOREM RestartChangesNoIndex ==
    ASSUME ClockStepsBack = FALSE
    PROVE  Spec => []IndexesMatchFile
<1>1. RecoveryInv => IndexesMatchFile
  BY DEF RecoveryInv
<1> QED
  BY <1>1, RecoveryInvariant, PTL

\* Only an append changes the file, and only while the registry is usable.
LEMMA FileStep ==
    ASSUME [Next]_vars
    PROVE  disk' = disk \/ (Usable /\ \E r : disk' = Append(records, r))
<1>1. \A r, pending : Apply(r, pending) =>
         disk' = disk \/ (Usable /\ disk' = Append(records, r))
  BY DEF Apply, append_record_locked, CrashInAppend, Residue
<1>2. \A op, request, x : Transition(op, request, x) =>
         disk' = disk \/ (Usable /\ \E r : disk' = Append(records, r))
  BY <1>1 DEF Transition
<1> DEFINE Kept == disk' = disk \/ (Usable /\ \E r : disk' = Append(records, r))
<1> HIDE DEF Kept
<1>3. CASE Launch
  <2>1. \A op, c : StartingStep(op, c) => Kept
    BY <1>2 DEF StartingStep, Kept
  <2>2. \A op, c, proc, t : RunningStep(op, c, proc, t) => Kept
    BY <1>2 DEF RunningStep, Kept
  <2>3. \A op, c, proc, t : StoppingStep(op, c, proc, t) => Kept
    BY <1>2 DEF StoppingStep, Kept
  <2>4. \A op, c, code, t : FailedStep(op, c, code, t) => Kept
    BY <1>2 DEF FailedStep, Kept
  <2>5. Kept
    BY <1>3, <2>1, <2>2, <2>3, <2>4
       DEF Launch, mark_starting, mark_managed_starting, mark_running,
           mark_managed_running, mark_stopping, mark_managed_stopping,
           mark_failed, mark_managed_failed
  <2> QED
    BY <2>5 DEF Kept
<1>4. CASE Finish
  BY <1>2, <1>4 DEF Finish, mark_exited, mark_refinement_exited,
     mark_managed_exited, ExitedStep
<1>5. CASE Request
  BY <1>1, <1>5 DEF Request, create, reserve_start, AbandonCall, BeginCreate,
     BeginReserve
<1>6. CASE Observe
  <2>1. \A s, id, body, issued, expires :
           enqueue_observation_intent(s, id, body, issued, expires) => Kept
    BY <1>1 DEF enqueue_observation_intent, Kept
  <2>2. \A s, id, body, disposition, decided :
           set_observation_intent_disposition(s, id, body, disposition, decided)
              => Kept
    <3> TAKE s, id, body, disposition, decided
    <3> HAVE set_observation_intent_disposition(s, id, body, disposition,
                                                decided)
    <3>1. \E r : Apply(r, inflight)
      BY DEF set_observation_intent_disposition
    <3> QED
      BY <1>1, <3>1 DEF Kept
  <2>3. Kept
    BY <1>6, <2>1, <2>2 DEF Observe
  <2> QED
    BY <2>3 DEF Kept
<1>7. CASE Environment \/ UNCHANGED vars
  BY <1>7 DEF Environment, open_or_create, Crash, verify_identity,
     commit_terminal, Tick, ClockStepBack, vars
<1> QED
  BY <1>3, <1>4, <1>5, <1>6, <1>7 DEF Next

\* No step removes or rewrites a record that is already on disk, because a
\* registry that writes at its own end knows every record of the file.
THEOREM AppendOnly ==
    ASSUME ClockStepsBack = FALSE
    PROVE  Spec => FileIsAppendOnly
<1> DEFINE Kept == /\ Len(disk) <= Len(disk')
                   /\ \A i \in 1..Len(disk) : disk'[i] = disk[i]
<1>1. ASSUME RecoveryInv, [Next]_vars PROVE [Kept]_vars
  <2>1. disk \in Seq(Records) /\ (Usable => records = disk)
    BY <1>1 DEF RecoveryInv, TypeOK, IndexesMatchFile
  <2>2. disk' \in Seq(Records)
    BY <1>1, NextType DEF RecoveryInv, TypeOK
  <2>3. CASE disk' = disk
    BY <2>1, <2>3
  <2>4. CASE Usable /\ \E r : disk' = Append(records, r)
    <3>1. PICK r : disk' = Append(disk, r)
      BY <2>1, <2>4
    <3> QED
      BY <2>1, <3>1
  <2> QED
    BY <1>1, <2>3, <2>4, FileStep
<1>2. RecoveryInv /\ [Next]_vars => [Kept]_vars
  BY <1>1
<1> QED
  BY <1>2, RecoveryInvariant, PTL DEF Spec, FileIsAppendOnly

---------------------------------------------------------------------------
(* What the registry's file tells of a session, for every value of the     *)
(* constants: exits are backed by journalled receipts, settled intents     *)
(* stay settled, and the life it shows is one of SessionLifecycle.  Both   *)
(* rest on RecoveryInvariant: because recover accepts the file after every *)
(* step, the record a step appends has passed its transition check.        *)

\* No caller offers an authorization that ends beyond the modelled clock.
OffersBound ==
    \A th \in Threads :
       inflight[th] # None /\ inflight[th].op = "reserve"
          => inflight[th].auth.expires <= MaxTime + 1

WindowsBound ==
    \A i \in 1..Len(disk) : disk[i].session.auth.expires <= MaxTime + 1

\* Every record of a session agrees with its latest lifecycle record about
\* the plan and, once there is one, about the execution.
HistoryBinds ==
    \A i \in 1..Len(disk) :
       \E k \in 1..Len(disk) :
          /\ IsLatest(disk, k, disk[i].session.sid)
          /\ disk[i].session.plan = disk[k].session.plan
          /\ disk[i].session.exec \in {None, disk[k].session.exec}

\* The receipt of an exited snapshot is in the journal and is its own.
Backed(x, receipts) ==
    x.state = "exited" =>
       /\ x.receipt \in receipts
       /\ x.receipt.plan = x.plan
       /\ x.receipt.exec = x.exec /\ x.exec \in Execs

ExitsBacked == \A i \in 1..Len(disk) : Backed(disk[i].session, journal)

\* RecoveryInv, and what the file tells of the life of each session.
HistoryInv ==
    /\ RecoveryInv
    /\ OffersBound /\ WindowsBound /\ HistoryBinds /\ ExitsBacked

---------------------------------------------------------------------------
(* Every step appends at most one record, and the registry vouches for it. *)

\* What the operations put into a record beyond what recover checks.
Sourced(r) ==
    /\ r.op \in IntentOps =>
          sessions[r.session.sid] # 0 /\ r.session = Current(r.session.sid)
    /\ r.op \in LifecycleOps => Backed(r.session, journal)
    /\ r.op = "reserve_start" => r.session.auth.expires <= MaxTime + 1

LEMMA ApplyWrites ==
    ASSUME NEW r, NEW pending, Apply(r, pending)
    PROVE  /\ Usable
           /\ disk' = disk \/ disk' = Append(records, r)
           /\ journal' = journal
           /\ inflight' \in {inflight, pending, [th \in Threads |-> None]}
BY DEF Apply, append_record_locked, CrashInAppend, Residue, Forget

\* A step of the registry writes nothing, or a record it vouches for.
LEMMA VouchedStep ==
    ASSUME HistoryInv, [Next]_vars
    PROVE  \/ disk' = disk
           \/ Usable /\ \E r : disk' = Append(records, r) /\ Sourced(r)
<1> DEFINE Good == \/ disk' = disk
                   \/ Usable /\ \E r : disk' = Append(records, r) /\ Sourced(r)
<1>0. TypeOK /\ RecoveryInv
  BY DEF HistoryInv, RecoveryInv
<1>1. \A r, pending : Apply(r, pending) /\ Sourced(r) => Good
  BY ApplyWrites
<1>2. ASSUME NEW op \in LifecycleOps \ {"reserve_start"}, NEW request,
             NEW x, Backed(x, journal), Transition(op, request, x)
      PROVE  Good
  <2>1. PICK key : Apply(Record(op, key, request, x, None), inflight)
    BY <1>2 DEF Transition
  <2>2. Sourced(Record(op, key, request, x, None))
    BY <1>2 DEF Sourced, Record, IntentOps, LifecycleOps
  <2> QED
    BY <1>1, <2>1, <2>2
<1> SUFFICES Good
  OBVIOUS
<1> HIDE DEF Good
<1>3. CASE Launch
  <2>1. ASSUME NEW op \in LifecycleOps \ {"reserve_start"}, NEW c \in Commitments,
               StartingStep(op, c)
        PROVE  Good
    <3> DEFINE next == [Current(c.sid) EXCEPT !.state = "starting",
                           !.exec = c.exec, !.startingAt = now]
    <3>1. Current(c.sid) \in Snapshots
      BY <1>0, <2>1, CurrentType DEF StartingStep, InState, Commitments
    <3>2. next.state = "starting"
      BY <3>1 DEF Snapshots
    <3>3. Backed(next, journal)
      BY <3>2 DEF Backed
    <3>4. Transition(op, BindingRequest(op, next), next)
      BY <2>1 DEF StartingStep
    <3> QED
      BY <1>2, <2>1, <3>3, <3>4
  <2>2. ASSUME NEW op \in LifecycleOps \ {"reserve_start"}, NEW c \in Commitments,
               NEW proc, NEW t, RunningStep(op, c, proc, t)
        PROVE  Good
    <3> DEFINE next == [Current(c.sid) EXCEPT !.state = "running",
                           !.runningAt = t, !.proc = proc]
    <3>1. Current(c.sid) \in Snapshots
      BY <1>0, <2>2, CurrentType DEF RunningStep, InState, Commitments
    <3>2. next.state = "running"
      BY <3>1 DEF Snapshots
    <3>3. Backed(next, journal)
      BY <3>2 DEF Backed
    <3>4. Transition(op, RunningRequest(op, next), next)
      BY <2>2 DEF RunningStep
    <3> QED
      BY <1>2, <2>2, <3>3, <3>4
  <2>3. ASSUME NEW op \in LifecycleOps \ {"reserve_start"}, NEW c \in Commitments,
               NEW proc, NEW t, StoppingStep(op, c, proc, t)
        PROVE  Good
    <3> DEFINE next == [Current(c.sid) EXCEPT !.state = "stopping", !.stoppingAt = t]
    <3>1. Current(c.sid) \in Snapshots
      BY <1>0, <2>3, CurrentType DEF StoppingStep, InState, Commitments
    <3>2. next.state = "stopping"
      BY <3>1 DEF Snapshots
    <3>3. Backed(next, journal)
      BY <3>2 DEF Backed
    <3>4. Transition(op, RunningRequest(op, next), next)
      BY <2>3 DEF StoppingStep
    <3> QED
      BY <1>2, <2>3, <3>3, <3>4
  <2>4. ASSUME NEW op \in LifecycleOps \ {"reserve_start"}, NEW c \in Commitments,
               NEW code, NEW t, FailedStep(op, c, code, t)
        PROVE  Good
    <3> DEFINE next == [Current(c.sid) EXCEPT !.state = "failed", !.code = code,
                           !.finishedAt = t]
    <3>1. Current(c.sid) \in Snapshots
      BY <1>0, <2>4, CurrentType DEF FailedStep, InState, Commitments
    <3>2. next.state = "failed"
      BY <3>1 DEF Snapshots
    <3>3. Backed(next, journal)
      BY <3>2 DEF Backed
    <3>4. Transition(op, FailureRequest(next), next)
      BY <2>4 DEF FailedStep
    <3> QED
      BY <1>2, <2>4, <3>3, <3>4
  <2> QED
    BY <1>3, <2>1, <2>2, <2>3, <2>4
       DEF Launch, mark_starting, mark_managed_starting, mark_running,
           mark_managed_running, mark_stopping, mark_managed_stopping,
           mark_failed, mark_managed_failed, LifecycleOps
<1>4. CASE Finish
  <2>1. ASSUME NEW op \in LifecycleOps \ {"reserve_start"}, NEW receipt \in Presented,
               receipt.exec \in Execs, ExitedStep(op, receipt)
        PROVE  Good
    <3> DEFINE s == receipt.sid
               next == [Current(s) EXCEPT !.state = "exited", !.receipt = receipt,
                                          !.finishedAt = receipt.finished]
    <3>1. Current(s) \in Snapshots
      BY <1>0, <2>1, CurrentType DEF ExitedStep, InState, Presented
    <3>2. next.receipt = receipt /\ next.plan = Current(s).plan
          /\ next.exec = Current(s).exec
      BY <3>1 DEF Snapshots
    <3>3. receipt \in journal /\ Current(s).plan = receipt.plan
          /\ Current(s).exec = receipt.exec
      BY <2>1 DEF ExitedStep
    <3>4. Backed(next, journal)
      BY <2>1, <3>2, <3>3 DEF Backed
    <3>5. Transition(op, TerminalRequest(receipt), next)
      BY <2>1 DEF ExitedStep
    <3> QED
      BY <1>2, <2>1, <3>4, <3>5
  <2> QED
    BY <1>4, <2>1 DEF Finish, mark_exited, mark_refinement_exited,
       mark_managed_exited, Execs, LifecycleOps
<1>5. CASE Request
  <2>1. ASSUME NEW th \in Threads, create(th)
        PROVE  Good
    <3> DEFINE call == inflight[th]
               x == [sid |-> call.sid, state |-> "created", plan |-> call.plan,
                     createdAt |-> call.at, auth |-> NoAuth, exec |-> None,
                     startingAt |-> 0, runningAt |-> 0, proc |-> None,
                     stoppingAt |-> 0, code |-> "none", finishedAt |-> 0,
                     receipt |-> None]
               r == Record("create", call.key, CreateRequest(call.sid, call.plan),
                           x, None)
    <3>1. Apply(r, [inflight EXCEPT ![th] = None])
      BY <2>1 DEF create
    <3>2. Sourced(r)
      BY DEF Sourced, Record, Backed, IntentOps
    <3> QED
      BY <1>1, <3>1, <3>2
  <2>2. ASSUME NEW th \in Threads, reserve_start(th)
        PROVE  Good
    <3> DEFINE call == inflight[th]
               next == [Current(call.sid) EXCEPT !.state = "preparing",
                                                 !.auth = call.auth]
               r == Record("reserve_start", call.key, AuthorizationRequest(next),
                           next, None)
    <3>1. Apply(r, [inflight EXCEPT ![th] = None])
      BY <2>2 DEF reserve_start
    <3>2. call # None /\ call.op = "reserve" /\ InState(call.sid, {"created"})
      BY <2>2 DEF reserve_start
    <3>3. call.sid \in Sessions
      BY <1>0, <3>2 DEF TypeOK, Calls
    <3>4. Current(call.sid) \in Snapshots
      BY <1>0, <3>2, <3>3, CurrentType DEF InState
    <3>5. next.state = "preparing" /\ next.auth = call.auth
      BY <3>4 DEF Snapshots
    <3>6. call.auth.expires <= MaxTime + 1
      BY <3>2 DEF HistoryInv, OffersBound
    <3>7. r.op = "reserve_start" /\ r.session = next
      BY DEF Record
    <3>8. Sourced(r)
      <4> HIDE DEF r, next
      <4> QED
        BY <3>5, <3>6, <3>7 DEF Sourced, Backed, IntentOps
    <3> QED
      BY <1>1, <3>1, <3>8
  <2>3. CASE \E th \in Threads :
                \/ AbandonCall(th)
                \/ \E s \in Sessions, p \in Plans :
                      \/ BeginCreate(th, s, p)
                      \/ \E auth \in Offered : BeginReserve(th, s, p, auth)
    BY <2>3 DEF AbandonCall, BeginCreate, BeginReserve, Good
  <2> QED
    BY <1>5, <2>1, <2>2, <2>3 DEF Request
<1>6. CASE Observe
  <2>1. ASSUME NEW op \in IntentOps, NEW s \in Sessions, NEW key, NEW request, NEW in,
               Usable, sessions[s] # 0,
               Apply(Record(op, key, request, Current(s), in), inflight)
        PROVE  Good
    <3>1. Current(s).sid = s
      BY <1>0, <2>1, CurrentShape
    <3>2. Sourced(Record(op, key, request, Current(s), in))
      BY <2>1, <3>1 DEF Sourced, Record, IntentOps, LifecycleOps
    <3> QED
      BY <1>1, <2>1, <3>2
  <2>2. ASSUME NEW s \in Sessions, NEW id, NEW body, NEW issued, NEW expires,
               enqueue_observation_intent(s, id, body, issued, expires)
        PROVE  Good
    <3>1. Usable /\ sessions[s] # 0
      BY <2>2 DEF enqueue_observation_intent, InState
    <3>2. \E key, request, in :
             Apply(Record("enqueue_intent", key, request, Current(s), in), inflight)
      BY <2>2 DEF enqueue_observation_intent
    <3> QED
      BY <2>1, <3>1, <3>2 DEF IntentOps
  <2>3. ASSUME NEW s \in Sessions, NEW id, NEW body, NEW disposition, NEW decided,
               set_observation_intent_disposition(s, id, body, disposition, decided)
        PROVE  Good
    <3>1. Usable /\ sessions[s] # 0
      BY <2>3 DEF set_observation_intent_disposition
    <3>2. \E key, request, in :
             Apply(Record("set_disposition", key, request, Current(s), in), inflight)
      BY <2>3 DEF set_observation_intent_disposition
    <3> QED
      BY <2>1, <3>1, <3>2 DEF IntentOps
  <2> QED
    BY <1>6, <2>2, <2>3 DEF Observe
<1>7. CASE Environment \/ UNCHANGED vars
  BY <1>7 DEF Environment, open_or_create, Crash, verify_identity,
     commit_terminal, Tick, ClockStepBack, vars, Good
<1> QED
  BY <1>3, <1>4, <1>5, <1>6, <1>7 DEF Next

\* A step leaves the file alone or appends one record, which recover accepts
\* after the records before it and the registry vouches for.
LEMMA LogStep ==
    ASSUME HistoryInv, RecoveryInv', [Next]_vars
    PROVE  \/ disk' = disk
           \/ \E r \in Records :
                 /\ disk' = Append(disk, r)
                 /\ accept_recovered_record(disk, r)
                 /\ sessions = SessionIndex(disk) /\ records = disk /\ Usable
                 /\ Sourced(r)
<1>1. CASE disk' = disk
  BY <1>1
<1>2. CASE Usable /\ \E r : disk' = Append(records, r) /\ Sourced(r)
  <2>1. /\ disk \in Seq(Records) /\ disk' \in Seq(Records)
        /\ records = disk /\ sessions = SessionIndex(disk)
    BY <1>2 DEF HistoryInv, RecoveryInv, TypeOK, IndexesMatchFile
  <2>2. PICK r : disk' = Append(disk, r) /\ Sourced(r)
    BY <1>2, <2>1
  <2>3. Len(disk') = Len(disk) + 1 /\ disk'[Len(disk) + 1] = r
        /\ Len(disk) \in Nat
    BY <2>1, <2>2
  <2>4. r \in Records
    BY <2>1, <2>3
  <2>5. accept_recovered_record(SubSeq(disk', 1, Len(disk)), r)
    <3>1. Len(disk) + 1 \in 1..Len(disk') /\ (Len(disk) + 1) - 1 = Len(disk)
      BY <2>3
    <3>2. recover(disk')
      BY DEF RecoveryInv, EveryRecordRecoverable
    <3> QED
      BY <2>3, <3>1, <3>2 DEF recover
  <2>6. SubSeq(disk', 1, Len(disk)) = disk
    <3>1. Len(disk) + 1 \in 1..(Len(disk) + 1) /\ (Len(disk) + 1) - 1 = Len(disk)
      BY <2>3
    <3>2. SubSeq(Append(disk, r), 1, Len(disk)) = SubSeq(disk, 1, Len(disk))
      BY <2>1, <2>4, <3>1, PrefixOfAppend
    <3>3. SubSeq(disk, 1, Len(disk)) = disk
      BY <2>1
    <3> QED
      BY <2>2, <3>2, <3>3
  <2> QED
    BY <1>2, <2>1, <2>2, <2>4, <2>5, <2>6
<1> QED
  BY <1>1, <1>2, VouchedStep

\* The latest record of a session is well formed.
LEMMA LatestShape ==
    ASSUME RecoveryInv, NEW s, NEW k, IsLatest(disk, k, s)
    PROVE  /\ disk[k].session \in Snapshots /\ disk[k].session.sid = s
           /\ k \in 1..Len(disk) /\ SnapshotShape(disk[k].op, disk[k].session)
<1>1. disk \in Seq(Records) /\ k \in 1..Len(disk) /\ disk[k].op \in LifecycleOps
      /\ disk[k].session.sid = s
  BY DEF RecoveryInv, TypeOK, IsLatest
<1>2. valid_record_shape(disk[k])
  BY <1>1, RecoveredShape DEF RecoveryInv, EveryRecordRecoverable
<1>3. disk[k] \in Records
  BY <1>1
<1> QED
  BY <1>1, <1>2, <1>3
     DEF valid_record_shape, Records, LifecycleRecords, IntentRecords

\* Which record is the latest after an append.
LEMMA LatestAppend ==
    ASSUME NEW log \in Seq(Records), NEW r \in Records, NEW s, NEW k
    PROVE  /\ r.op \in LifecycleOps /\ s = r.session.sid
                => IsLatest(Append(log, r), Len(log) + 1, s)
           /\ ~(r.op \in LifecycleOps /\ s = r.session.sid) /\ IsLatest(log, k, s)
                => IsLatest(Append(log, r), k, s)
BY AppendFacts DEF IsLatest

---------------------------------------------------------------------------
(* What the file tells of a session.                                       *)

LEMMA InitHistory == Init => HistoryInv
<1> SUFFICES ASSUME Init PROVE HistoryInv
  OBVIOUS
<1>1. 1..Len(disk) = {}
  BY DEF Init
<1>2. OffersBound
  BY DEF Init, OffersBound
<1> QED
  BY <1>1, <1>2, InitRecovery
     DEF HistoryInv, WindowsBound, HistoryBinds, ExitsBacked

LEMMA OffersStep ==
    ASSUME HistoryInv, TypeOK', [Next]_vars
    PROVE  OffersBound'
<1>0. TypeOK
  BY DEF HistoryInv, RecoveryInv
<1>1. ASSUME \A th \in Threads : inflight'[th] \in {None, inflight[th]}
      PROVE  OffersBound'
  BY <1>1 DEF HistoryInv, OffersBound
<1>2. ASSUME NEW r, Apply(r, inflight)
      PROVE  OffersBound'
  BY <1>1, <1>2, ApplyWrites
<1>3. ASSUME NEW r, NEW th \in Threads, Apply(r, [inflight EXCEPT ![th] = None])
      PROVE  OffersBound'
  <2>1. inflight' \in {inflight, [inflight EXCEPT ![th] = None],
                       [t \in Threads |-> None]}
    BY <1>3, ApplyWrites
  <2> QED
    BY <1>0, <1>1, <2>1 DEF TypeOK
<1>4. \A op, request, x : Transition(op, request, x) => OffersBound'
  BY <1>2 DEF Transition
<1>5. CASE Launch
  <2>1. \A op, c : StartingStep(op, c) => OffersBound'
    BY <1>4 DEF StartingStep
  <2>2. \A op, c, proc, t : RunningStep(op, c, proc, t) => OffersBound'
    BY <1>4 DEF RunningStep
  <2>3. \A op, c, proc, t : StoppingStep(op, c, proc, t) => OffersBound'
    BY <1>4 DEF StoppingStep
  <2>4. \A op, c, code, t : FailedStep(op, c, code, t) => OffersBound'
    BY <1>4 DEF FailedStep
  <2> QED
    BY <1>5, <2>1, <2>2, <2>3, <2>4
       DEF Launch, mark_starting, mark_managed_starting, mark_running,
           mark_managed_running, mark_stopping, mark_managed_stopping,
           mark_failed, mark_managed_failed
<1>6. CASE Finish
  BY <1>4, <1>6 DEF Finish, mark_exited, mark_refinement_exited,
     mark_managed_exited, ExitedStep
<1>7. CASE Request
  <2>1. ASSUME NEW th \in Threads, create(th) \/ reserve_start(th)
        PROVE  OffersBound'
    BY <1>3, <2>1 DEF create, reserve_start
  <2>2. ASSUME NEW th \in Threads, AbandonCall(th)
        PROVE  OffersBound'
    BY <1>0, <1>1, <2>2 DEF AbandonCall, TypeOK
  <2>3. ASSUME NEW th \in Threads, NEW s \in Sessions, NEW p \in Plans,
               BeginCreate(th, s, p)
        PROVE  OffersBound'
    <3>1. inflight'[th].op = "create"
          /\ \A t \in Threads : t # th => inflight'[t] = inflight[t]
      BY <1>0, <2>3 DEF BeginCreate, TypeOK
    <3> QED
      BY <3>1 DEF HistoryInv, OffersBound
  <2>4. ASSUME NEW th \in Threads, NEW s \in Sessions, NEW p \in Plans,
               NEW auth \in Offered, BeginReserve(th, s, p, auth)
        PROVE  OffersBound'
    <3>1. inflight'[th].auth = auth
          /\ \A t \in Threads : t # th => inflight'[t] = inflight[t]
      BY <1>0, <2>4 DEF BeginReserve, TypeOK
    <3>2. auth.expires <= MaxTime + 1
      BY DEF Offered
    <3> QED
      BY <3>1, <3>2 DEF HistoryInv, OffersBound
  <2> QED
    BY <1>7, <2>1, <2>2, <2>3, <2>4 DEF Request
<1>8. CASE Observe
  <2>1. \A s, id, body, issued, expires :
           enqueue_observation_intent(s, id, body, issued, expires) => OffersBound'
    BY <1>2 DEF enqueue_observation_intent
  <2>2. \A s, id, body, disposition, decided :
           set_observation_intent_disposition(s, id, body, disposition, decided)
              => OffersBound'
    <3> TAKE s, id, body, disposition, decided
    <3> HAVE set_observation_intent_disposition(s, id, body, disposition, decided)
    <3>1. \E r : Apply(r, inflight)
      BY DEF set_observation_intent_disposition
    <3> QED
      BY <1>2, <3>1
  <2> QED
    BY <1>8, <2>1, <2>2 DEF Observe
<1>9. CASE Environment \/ UNCHANGED vars
  BY <1>1, <1>9 DEF Environment, open_or_create, Crash, Forget, verify_identity,
     commit_terminal, Tick, ClockStepBack, vars
<1> QED
  BY <1>5, <1>6, <1>7, <1>8, <1>9 DEF Next

LEMMA JournalGrows ==
    ASSUME [Next]_vars
    PROVE  journal \subseteq journal'
<1>1. \A r, pending : Apply(r, pending) => journal' = journal
  BY ApplyWrites
<1>2. \A op, request, x : Transition(op, request, x) => journal' = journal
  BY <1>1 DEF Transition
<1>3. CASE Launch
  <2>1. \A op, c : StartingStep(op, c) => journal' = journal
    BY <1>2 DEF StartingStep
  <2>2. \A op, c, proc, t : RunningStep(op, c, proc, t) => journal' = journal
    BY <1>2 DEF RunningStep
  <2>3. \A op, c, proc, t : StoppingStep(op, c, proc, t) => journal' = journal
    BY <1>2 DEF StoppingStep
  <2>4. \A op, c, code, t : FailedStep(op, c, code, t) => journal' = journal
    BY <1>2 DEF FailedStep
  <2> QED
    BY <1>3, <2>1, <2>2, <2>3, <2>4
       DEF Launch, mark_starting, mark_managed_starting, mark_running,
           mark_managed_running, mark_stopping, mark_managed_stopping,
           mark_failed, mark_managed_failed
<1>4. CASE Finish
  BY <1>2, <1>4 DEF Finish, mark_exited, mark_refinement_exited,
     mark_managed_exited, ExitedStep
<1>5. CASE Request
  BY <1>1, <1>5 DEF Request, create, reserve_start, AbandonCall, BeginCreate,
     BeginReserve
<1>6. CASE Observe
  <2>1. \A s, id, body, issued, expires :
           enqueue_observation_intent(s, id, body, issued, expires)
              => journal' = journal
    BY <1>1 DEF enqueue_observation_intent
  <2>2. \A s, id, body, disposition, decided :
           set_observation_intent_disposition(s, id, body, disposition, decided)
              => journal' = journal
    <3> TAKE s, id, body, disposition, decided
    <3> HAVE set_observation_intent_disposition(s, id, body, disposition, decided)
    <3>1. \E r : Apply(r, inflight)
      BY DEF set_observation_intent_disposition
    <3> QED
      BY <1>1, <3>1
  <2> QED
    BY <1>6, <2>1, <2>2 DEF Observe
<1>7. CASE Environment \/ UNCHANGED vars
  BY <1>7 DEF Environment, open_or_create, Crash, verify_identity,
     commit_terminal, Tick, ClockStepBack, vars
<1> QED
  BY <1>3, <1>4, <1>5, <1>6, <1>7 DEF Next

\* The record an append adds keeps the plan and the execution of the session.
LEMMA AppendedBinds ==
    ASSUME HistoryInv, NEW r \in Records, disk' = Append(disk, r),
           accept_recovered_record(disk, r), sessions = SessionIndex(disk),
           records = disk, Usable, Sourced(r)
    PROVE  HistoryBinds'
<1>1. disk \in Seq(Records) /\ RecoveryInv
  BY DEF HistoryInv, RecoveryInv, TypeOK
<1> DEFINE n == Len(disk)
           x == r.session
<1>2. /\ Len(disk') = n + 1 /\ disk'[n + 1] = r /\ n \in Nat
      /\ \A i \in 1..n : disk'[i] = disk[i] /\ i \in 1..Len(disk')
      /\ \A i \in 1..Len(disk') : i \in 1..n \/ i = n + 1
  BY <1>1, AppendFacts
<1>3. x.sid \in Sessions
  BY DEF Records, LifecycleRecords, IntentRecords, Snapshots
<1>4. CASE r.op \in IntentOps
  <2>1. IsLatest(disk, sessions[x.sid], x.sid) /\ x = disk[sessions[x.sid]].session
    BY <1>1, <1>3, <1>4, CurrentShape DEF Sourced, Current
  <2>2. r.op \notin LifecycleOps
    BY <1>4 DEF IntentOps, LifecycleOps
  <2>3. \A i, s : IsLatest(disk, i, s) => IsLatest(disk', i, s)
    BY <1>1, <2>2, LatestAppend
  <2>4. \A i, s : IsLatest(disk, i, s) => i \in 1..n
    BY DEF IsLatest
  <2>5. ASSUME NEW i \in 1..n
        PROVE  \E k \in 1..Len(disk') :
                  /\ IsLatest(disk', k, disk'[i].session.sid)
                  /\ disk'[i].session.plan = disk'[k].session.plan
                  /\ disk'[i].session.exec \in {None, disk'[k].session.exec}
    <3>1. PICK k \in 1..n :
             /\ IsLatest(disk, k, disk[i].session.sid)
             /\ disk[i].session.plan = disk[k].session.plan
             /\ disk[i].session.exec \in {None, disk[k].session.exec}
      BY DEF HistoryInv, HistoryBinds
    <3> QED
      BY <1>2, <2>3, <3>1
  <2>6. \E k \in 1..Len(disk') :
           /\ IsLatest(disk', k, disk'[n + 1].session.sid)
           /\ disk'[n + 1].session.plan = disk'[k].session.plan
           /\ disk'[n + 1].session.exec \in {None, disk'[k].session.exec}
    BY <1>2, <2>1, <2>3, <2>4
  <2>7. ASSUME NEW i \in 1..Len(disk')
        PROVE  \E k \in 1..Len(disk') :
                  /\ IsLatest(disk', k, disk'[i].session.sid)
                  /\ disk'[i].session.plan = disk'[k].session.plan
                  /\ disk'[i].session.exec \in {None, disk'[k].session.exec}
    <3>1. CASE i \in 1..n
      BY <2>5, <3>1
    <3>2. CASE i = n + 1
      BY <2>6, <3>2
    <3> QED
      BY <1>2, <3>1, <3>2
  <2> QED
    BY <2>7 DEF HistoryBinds
<1>5. CASE r.op \in LifecycleOps
  <2>1. IsLatest(disk', n + 1, x.sid)
    BY <1>1, <1>5, LatestAppend
  <2>2. \A k : IsLatest(disk, k, x.sid) =>
           /\ disk[k].session.plan = x.plan
           /\ disk[k].session.exec \in {None, x.exec}
    <3> SUFFICES ASSUME NEW k, IsLatest(disk, k, x.sid)
                 PROVE  /\ disk[k].session.plan = x.plan
                        /\ disk[k].session.exec \in {None, x.exec}
      OBVIOUS
    <3>1. Known(disk, x.sid)
      BY DEF IsLatest, Known
    <3>2. r.op \notin IntentOps /\ r.op # "create"
      BY <1>5, <3>1 DEF accept_recovered_record, LifecycleOps, IntentOps
    <3>3. \E i \in 1..n : IsLatest(disk, i, x.sid)
                          /\ ValidTransition(disk[i].session, x)
      BY <3>2 DEF accept_recovered_record, IntentOps
    <3>4. ValidTransition(disk[k].session, x)
      BY <1>1, <3>3, LatestUnique
    <3>5. SnapshotShape(disk[k].op, disk[k].session)
      BY <1>1, LatestShape
    <3>6. disk[k].session.plan = x.plan
      BY <3>4 DEF ValidTransition, SamePlan, SameAuth, SameExec, SameRun, SameStop
    <3>7. CASE disk[k].session.state \in {"created", "preparing"}
      BY <3>5, <3>6, <3>7 DEF SnapshotShape, NotStarted
    <3>8. CASE disk[k].session.state \notin {"created", "preparing"}
      BY <3>4, <3>6, <3>8 DEF ValidTransition, SameExec, SameRun, SameStop
    <3> QED
      BY <3>7, <3>8
  <2>3. ASSUME NEW i \in 1..n
        PROVE  \E k \in 1..Len(disk') :
                  /\ IsLatest(disk', k, disk'[i].session.sid)
                  /\ disk'[i].session.plan = disk'[k].session.plan
                  /\ disk'[i].session.exec \in {None, disk'[k].session.exec}
    <3>1. PICK k \in 1..n :
             /\ IsLatest(disk, k, disk[i].session.sid)
             /\ disk[i].session.plan = disk[k].session.plan
             /\ disk[i].session.exec \in {None, disk[k].session.exec}
      BY DEF HistoryInv, HistoryBinds
    <3>2. CASE disk[i].session.sid = x.sid
      <4>1. /\ disk[k].session.plan = x.plan
            /\ disk[k].session.exec \in {None, x.exec}
        BY <2>2, <3>1, <3>2
      <4>2. n + 1 \in 1..Len(disk')
        BY <1>2
      <4> QED
        BY <1>2, <2>1, <3>1, <3>2, <4>1, <4>2
    <3>3. CASE disk[i].session.sid # x.sid
      <4>1. IsLatest(disk', k, disk[i].session.sid)
        BY <1>1, <3>1, <3>3, LatestAppend
      <4> QED
        BY <1>2, <3>1, <4>1
    <3> QED
      BY <3>2, <3>3
  <2>4. \E k \in 1..Len(disk') :
           /\ IsLatest(disk', k, disk'[n + 1].session.sid)
           /\ disk'[n + 1].session.plan = disk'[k].session.plan
           /\ disk'[n + 1].session.exec \in {None, disk'[k].session.exec}
    <3>1. n + 1 \in 1..Len(disk')
      BY <1>2
    <3> QED
      BY <1>2, <2>1, <3>1
  <2>5. ASSUME NEW i \in 1..Len(disk')
        PROVE  \E k \in 1..Len(disk') :
                  /\ IsLatest(disk', k, disk'[i].session.sid)
                  /\ disk'[i].session.plan = disk'[k].session.plan
                  /\ disk'[i].session.exec \in {None, disk'[k].session.exec}
    <3>1. CASE i \in 1..n
      BY <2>3, <3>1
    <3>2. CASE i = n + 1
      BY <2>4, <3>2
    <3> QED
      BY <1>2, <3>1, <3>2
  <2> QED
    BY <2>5 DEF HistoryBinds
<1> QED
  BY <1>4, <1>5 DEF Records, LifecycleRecords, IntentRecords

LEMMA NextHistory ==
    ASSUME ClockStepsBack = FALSE, HistoryInv, [Next]_vars
    PROVE  HistoryInv'
<1>1. RecoveryInv /\ RecoveryInv' /\ TypeOK /\ TypeOK'
  BY NextRecovery DEF HistoryInv, RecoveryInv
<1>2. OffersBound'
  BY <1>1, OffersStep
<1>3. journal \subseteq journal'
  BY JournalGrows
<1>4. CASE disk' = disk
  BY <1>1, <1>2, <1>3, <1>4
     DEF HistoryInv, WindowsBound, HistoryBinds, ExitsBacked, Backed
<1>5. ASSUME NEW r \in Records, disk' = Append(disk, r),
             accept_recovered_record(disk, r), sessions = SessionIndex(disk),
             records = disk, Usable, Sourced(r)
      PROVE  HistoryInv'
  <2> DEFINE x == r.session
             n == Len(disk)
  <2>1. disk \in Seq(Records) /\ x.sid \in Sessions /\ x \in Snapshots
    BY <1>1 DEF TypeOK, Records, LifecycleRecords, IntentRecords, Snapshots
  <2>2. /\ Len(disk') = n + 1 /\ disk'[n + 1] = r /\ n \in Nat
        /\ \A i \in 1..n : disk'[i] = disk[i]
        /\ \A i \in 1..Len(disk') : i \in 1..n \/ i = n + 1
    BY <1>5, <2>1, AppendFacts
  <2>3. HistoryBinds'
    BY <1>5, AppendedBinds
  <2>4. r.op \in IntentOps \/ r.op \in LifecycleOps
    BY DEF Records, LifecycleRecords, IntentRecords
  <2>5. r.op \in IntentOps =>
           sessions[x.sid] \in 1..n /\ x = disk[sessions[x.sid]].session
    <3> SUFFICES ASSUME r.op \in IntentOps
                 PROVE  sessions[x.sid] \in 1..n /\ x = disk[sessions[x.sid]].session
      OBVIOUS
    <3>1. sessions[x.sid] # 0 /\ x = Current(x.sid)
      BY <1>5 DEF Sourced
    <3>2. IsLatest(records, sessions[x.sid], x.sid)
      BY <1>1, <1>5, <2>1, <3>1, CurrentShape
    <3> QED
      BY <1>5, <3>1, <3>2 DEF Current, IsLatest
  <2>6. Backed(x, journal)
    <3>1. CASE r.op \in IntentOps
      BY <2>5, <3>1 DEF HistoryInv, ExitsBacked
    <3>2. CASE r.op \in LifecycleOps
      BY <1>5, <3>2 DEF Sourced
    <3> QED
      BY <2>4, <3>1, <3>2
  <2>7. ExitsBacked'
    BY <1>3, <2>2, <2>6 DEF HistoryInv, ExitsBacked, Backed
  <2>8. x.auth.expires <= MaxTime + 1
    <3>1. CASE r.op \in IntentOps
      BY <2>5, <3>1 DEF HistoryInv, WindowsBound
    <3>2. CASE r.op = "reserve_start"
      BY <1>5, <3>2 DEF Sourced
    <3>3. CASE r.op = "create"
      <4>1. x.auth = NoAuth
        BY <1>5, <3>3 DEF accept_recovered_record, valid_record_shape,
           SnapshotShape, LifecycleOps
      <4> QED
        BY <4>1 DEF NoAuth
    <3>4. CASE r.op \in LifecycleOps \ {"create", "reserve_start"}
      <4>1. PICK k \in 1..n : ValidTransition(disk[k].session, x)
        BY <1>5, <3>4 DEF accept_recovered_record, LifecycleOps
      <4>2. x.state # "preparing"
        BY <1>5, <3>4 DEF accept_recovered_record, valid_record_shape,
           SnapshotShape, LifecycleOps
      <4>3. disk[k].session.auth = x.auth
        BY <4>1, <4>2 DEF ValidTransition, SameAuth, SameExec, SameRun, SameStop
      <4> QED
        BY <4>3 DEF HistoryInv, WindowsBound
    <3> QED
      BY <2>4, <3>1, <3>2, <3>3, <3>4
  <2>9. WindowsBound'
    BY <2>2, <2>8 DEF HistoryInv, WindowsBound
  <2> QED
    BY <1>1, <1>2, <2>3, <2>7, <2>9 DEF HistoryInv
<1> QED
  BY <1>1, <1>4, <1>5, LogStep

LEMMA HistoryImplies ==
    HistoryInv => ExitedHasDurableReceipt /\ SettledIntentsStaySettled
<1> SUFFICES ASSUME HistoryInv
             PROVE  ExitedHasDurableReceipt /\ SettledIntentsStaySettled
  OBVIOUS
<1>1. SettledIntentsStaySettled
  BY DEF HistoryInv, RecoveryInv, IndexesMatchFile, SettledIntentsStaySettled,
     pending_observation_intents
<1>2. ASSUME NEW i \in 1..Len(disk), NEW j \in 1..Len(disk),
             disk[i].session.state = "exited"
      PROVE  /\ disk[i].session.receipt \in journal
             /\ disk[j].session.sid = disk[i].session.sid =>
                  /\ disk[j].session.plan = disk[i].session.receipt.plan
                  /\ disk[j].session.exec \in {None, disk[i].session.receipt.exec}
  <2> DEFINE x == disk[i].session
             y == disk[j].session
  <2>1. /\ x.receipt \in journal /\ x.receipt.plan = x.plan
        /\ x.receipt.exec = x.exec /\ x.exec # None
    BY <1>2 DEF HistoryInv, ExitsBacked, Backed
  <2>2. ASSUME y.sid = x.sid
        PROVE  y.plan = x.plan /\ y.exec \in {None, x.exec}
    <3>1. PICK k : /\ IsLatest(disk, k, x.sid) /\ x.plan = disk[k].session.plan
                   /\ x.exec \in {None, disk[k].session.exec}
      BY DEF HistoryInv, HistoryBinds
    <3>2. PICK l : /\ IsLatest(disk, l, y.sid) /\ y.plan = disk[l].session.plan
                   /\ y.exec \in {None, disk[l].session.exec}
      BY DEF HistoryInv, HistoryBinds
    <3>3. k = l
      BY <2>2, <3>1, <3>2, LatestUnique DEF HistoryInv, RecoveryInv, TypeOK
    <3> QED
      BY <2>1, <3>1, <3>2, <3>3
  <2> QED
    BY <2>1, <2>2
<1> QED
  BY <1>1, <1>2 DEF ExitedHasDurableReceipt

\* Under a wall clock that is never set back, HistoryInv is an invariant.
THEOREM HistoryInvariant ==
    ASSUME ClockStepsBack = FALSE
    PROVE  Spec => []HistoryInv
<1>1. HistoryInv /\ [Next]_vars => HistoryInv'
  BY NextHistory
<1> QED
  BY <1>1, InitHistory, PTL DEF Spec

\* mark_exited and its refinement and managed forms close a session only with
\* a receipt that is durable in the receipt journal, for the plan and the
\* execution every earlier record of the session names, across restarts.
THEOREM ExitsHaveReceipts ==
    ASSUME ClockStepsBack = FALSE
    PROVE  Spec => []ExitedHasDurableReceipt
BY HistoryInvariant, HistoryImplies, PTL

\* An intent whose disposition is durable is never pending again, whatever
\* catalogs the daemon is restarted with.
THEOREM SettledForGood ==
    ASSUME ClockStepsBack = FALSE
    PROVE  Spec => []SettledIntentsStaySettled
BY HistoryInvariant, HistoryImplies, PTL

---------------------------------------------------------------------------
(* The registry implements the session lifecycle.                          *)

\* What a snapshot shows of a session.
Shown(x) ==
    [state |-> x.state, plan |-> x.plan, auth |-> x.auth.id,
     from |-> x.auth.approved, until |-> x.auth.expires,
     exec |-> x.exec, startedAt |-> x.startingAt, proc |-> x.proc]

LEMMA ViewKnown ==
    ASSUME disk \in Seq(Records), NEW s, NEW k, IsLatest(disk, k, s)
    PROVE  View(s) = Shown(disk[k].session)
<1>1. Known(disk, s) /\ k \in 1..Len(disk)
  BY DEF Known, IsLatest
<1> DEFINE c == CHOOSE i \in 1..Len(disk) : IsLatest(disk, i, s)
<1>2. c = k
  BY <1>1, LatestUnique
<1> QED
  BY <1>1, <1>2 DEF View, Shown

LEMMA ViewUnknown ==
    ASSUME NEW s, ~Known(disk, s)
    PROVE  View(s) = Lifecycle!Absent
BY DEF View, Lifecycle!Absent

\* Records of other sessions and intents do not show.
LEMMA ViewElsewhere ==
    ASSUME disk \in Seq(Records), NEW r \in Records, disk' = Append(disk, r),
           NEW s, ~(r.op \in LifecycleOps /\ s = r.session.sid)
    PROVE  View(s)' = View(s)
<1>1. /\ Len(disk') = Len(disk) + 1 /\ Len(disk) \in Nat /\ disk' \in Seq(Records)
      /\ disk'[Len(disk) + 1] = r
      /\ \A i \in 1..Len(disk) : disk'[i] = disk[i] /\ i \in 1..Len(disk')
      /\ \A i \in 1..Len(disk') : i \in 1..Len(disk) \/ i = Len(disk) + 1
  BY AppendFacts
<1>2. CASE Known(disk, s)
  <2>1. PICK k \in 1..Len(disk) : IsLatest(disk, k, s)
    BY <1>2, LatestExists
  <2>2. IsLatest(disk', k, s)
    BY <2>1, LatestAppend
  <2>3. View(s) = Shown(disk[k].session)
    BY <2>1, ViewKnown
  <2>4. View(s)' = Shown(disk'[k].session)
    <3>1. Known(disk', s) /\ k \in 1..Len(disk')
      BY <2>2 DEF Known, IsLatest
    <3> DEFINE c == CHOOSE i \in 1..Len(disk') : IsLatest(disk', i, s)
    <3>2. c = k
      BY <1>1, <2>2, <3>1, LatestUnique
    <3> QED
      BY <3>1, <3>2 DEF View, Shown
  <2> QED
    BY <1>1, <2>1, <2>3, <2>4
<1>3. CASE ~Known(disk, s)
  <2>1. ~Known(disk', s)
    BY <1>1, <1>3 DEF Known
  <2> QED
    BY <1>3, <2>1 DEF View
<1> QED
  BY <1>2, <1>3

\* How one view of a session differs from the one before.
LEMMA ShownRun ==
    ASSUME NEW p, NEW x, SameRun(p, x)
    PROVE  Shown(x) = [Shown(p) EXCEPT !.state = x.state]
BY DEF Shown, SameRun, SameExec, SameAuth, SamePlan

LEMMA ShownExec ==
    ASSUME NEW p, NEW x, SameExec(p, x)
    PROVE  Shown(x) = [Shown(p) EXCEPT !.state = x.state, !.proc = x.proc]
<1> DEFINE v == [Shown(p) EXCEPT !.state = x.state]
<1>1. v = [state |-> x.state, plan |-> x.plan, auth |-> x.auth.id,
           from |-> x.auth.approved, until |-> x.auth.expires,
           exec |-> x.exec, startedAt |-> x.startingAt, proc |-> p.proc]
  BY DEF Shown, SameExec, SameAuth, SamePlan
<1> HIDE DEF v
<1>2. [v EXCEPT !.proc = x.proc] = Shown(x)
  BY <1>1 DEF Shown
<1> QED
  BY <1>2 DEF v

LEMMA ShownAuth ==
    ASSUME NEW p, NEW x, SameAuth(p, x), p.proc = x.proc
    PROVE  Shown(x) = [Shown(p) EXCEPT !.state = x.state, !.exec = x.exec,
                                       !.startedAt = x.startingAt]
<1> DEFINE v == [Shown(p) EXCEPT !.state = x.state]
           w == [v EXCEPT !.exec = x.exec]
<1>1. v = [state |-> x.state, plan |-> x.plan, auth |-> x.auth.id,
           from |-> x.auth.approved, until |-> x.auth.expires,
           exec |-> p.exec, startedAt |-> p.startingAt, proc |-> x.proc]
  BY DEF Shown, SameAuth, SamePlan
<1> HIDE DEF v
<1>2. w = [state |-> x.state, plan |-> x.plan, auth |-> x.auth.id,
           from |-> x.auth.approved, until |-> x.auth.expires,
           exec |-> x.exec, startedAt |-> p.startingAt, proc |-> x.proc]
  BY <1>1 DEF Shown
<1> HIDE DEF w
<1>3. [w EXCEPT !.startedAt = x.startingAt] = Shown(x)
  BY <1>2 DEF Shown
<1> QED
  BY <1>3 DEF v, w

LEMMA ShownPlan ==
    ASSUME NEW p, NEW x, SamePlan(p, x), p.proc = x.proc, p.exec = x.exec,
           p.startingAt = x.startingAt
    PROVE  Shown(x) = [Shown(p) EXCEPT !.state = x.state, !.auth = x.auth.id,
                         !.from = x.auth.approved, !.until = x.auth.expires]
<1> DEFINE v == [Shown(p) EXCEPT !.state = x.state]
           w == [v EXCEPT !.auth = x.auth.id]
           y == [w EXCEPT !.from = x.auth.approved]
<1>1. v = [state |-> x.state, plan |-> x.plan, auth |-> p.auth.id,
           from |-> p.auth.approved, until |-> p.auth.expires,
           exec |-> x.exec, startedAt |-> x.startingAt, proc |-> x.proc]
  BY DEF Shown, SamePlan
<1> HIDE DEF v
<1>2. w = [state |-> x.state, plan |-> x.plan, auth |-> x.auth.id,
           from |-> p.auth.approved, until |-> p.auth.expires,
           exec |-> x.exec, startedAt |-> x.startingAt, proc |-> x.proc]
  BY <1>1
<1> HIDE DEF w
<1>3. y = [state |-> x.state, plan |-> x.plan, auth |-> x.auth.id,
           from |-> x.auth.approved, until |-> p.auth.expires,
           exec |-> x.exec, startedAt |-> x.startingAt, proc |-> x.proc]
  BY <1>2 DEF Shown
<1> HIDE DEF y
<1>4. [y EXCEPT !.until = x.auth.expires] = Shown(x)
  BY <1>3 DEF Shown
<1> QED
  BY <1>4 DEF v, w, y

LEMMA ShownCreated ==
    ASSUME NEW x, x.state = "created", x.auth = NoAuth, NotStarted(x), NotRunning(x)
    PROVE  Shown(x) = [Lifecycle!Absent EXCEPT !.state = "created", !.plan = x.plan]
<1> DEFINE v == [Lifecycle!Absent EXCEPT !.state = "created"]
<1>1. v = [state |-> x.state, plan |-> None, auth |-> x.auth.id,
           from |-> x.auth.approved, until |-> x.auth.expires,
           exec |-> x.exec, startedAt |-> x.startingAt, proc |-> x.proc]
  BY DEF Shown, Lifecycle!Absent, NotStarted, NotRunning, NoAuth
<1> HIDE DEF v
<1>2. [v EXCEPT !.plan = x.plan] = Shown(x)
  BY <1>1 DEF Shown
<1> QED
  BY <1>2 DEF v

\* The step of the lifecycle that a lifecycle record is.
LEMMA RecordIsStep ==
    ASSUME HistoryInv, HistoryInv', NEW r \in Records, disk' = Append(disk, r),
           accept_recovered_record(disk, r), r.op \in LifecycleOps
    PROVE  Lifecycle!Next
<1> DEFINE x == r.session
           s == r.session.sid
           sess == [t \in Sessions |-> View(t)]
<1>1. /\ disk \in Seq(Records) /\ disk' \in Seq(Records) /\ x \in Snapshots
      /\ s \in Sessions /\ x.plan \in Plans /\ RecoveryInv /\ now' \in Times
      /\ Len(disk) \in Nat
  <2>1. x \in Snapshots
    BY DEF Records, LifecycleRecords, IntentRecords
  <2>2. s \in Sessions /\ x.plan \in Plans
    BY <2>1 DEF Snapshots
  <2> QED
    BY <2>1, <2>2 DEF HistoryInv, RecoveryInv, TypeOK
<1>2. View(s)' = Shown(x)
  <2>1. IsLatest(disk', Len(disk) + 1, s) /\ disk'[Len(disk) + 1] = r
    BY <1>1, LatestAppend, AppendFacts
  <2>2. Known(disk', s) /\ Len(disk) + 1 \in 1..Len(disk')
    BY <2>1 DEF Known, IsLatest
  <2> DEFINE c == CHOOSE i \in 1..Len(disk') : IsLatest(disk', i, s)
  <2>3. c = Len(disk) + 1
    BY <1>1, <2>1, <2>2, LatestUnique
  <2> QED
    BY <2>1, <2>2, <2>3 DEF View, Shown
<1>3. sess' = [sess EXCEPT ![s] = Shown(x)]
  <2>1. \A t \in Sessions : t # s => View(t)' = View(t)
    BY <1>1, ViewElsewhere
  <2> QED
    BY <1>1, <1>2, <2>1
<1>4. SnapshotShape(r.op, x)
  BY DEF accept_recovered_record, valid_record_shape
<1>5. CASE r.op = "create"
  <2>1. sess[s] = Lifecycle!Absent
    BY <1>1, <1>5, ViewUnknown DEF accept_recovered_record, IntentOps
  <2>2. Shown(x) = [Lifecycle!Absent EXCEPT !.state = "created", !.plan = x.plan]
    BY <1>4, <1>5, ShownCreated DEF SnapshotShape
  <2>3. Lifecycle!Create(s, x.plan)
    BY <1>3, <2>1, <2>2 DEF Lifecycle!Create, Lifecycle!Become
  <2> QED
    BY <1>1, <2>3 DEF Lifecycle!Next
<1>6. CASE r.op # "create"
  <2>1. PICK k \in 1..Len(disk) : IsLatest(disk, k, s)
                                  /\ ValidTransition(disk[k].session, x)
    BY <1>6 DEF accept_recovered_record, LifecycleOps
  <2> DEFINE p == disk[k].session
  <2>2. sess[s] = Shown(p)
    BY <1>1, <2>1, ViewKnown
  <2>3. SnapshotShape(disk[k].op, p) /\ p \in Snapshots
    BY <1>1, <2>1, LatestShape
  <2>4. CASE x.state = "preparing"
    <3>1. p.state = "created" /\ SamePlan(p, x)
      BY <2>1, <2>4 DEF ValidTransition
    <3>2. p.exec = None /\ p.startingAt = 0 /\ p.proc = None
      BY <2>3, <3>1 DEF SnapshotShape, NotStarted, NotRunning
    <3>3. Authorized(x) /\ x.exec = None /\ x.startingAt = 0 /\ x.proc = None
      BY <1>4, <2>4 DEF SnapshotShape, NotStarted, NotRunning
    <3>4. /\ x.auth.approved \in Nat /\ x.auth.expires \in Nat
          /\ x.auth.approved # 0 /\ x.auth.approved < x.auth.expires
          /\ x.auth.id \in AuthIds
      <4>1. x.auth \in Authorizations \cup {NoAuth}
        BY <1>1 DEF Snapshots
      <4> QED
        BY <3>3, <4>1 DEF Authorized, Authorizations, NoAuth
    <3>5. x.auth.expires <= MaxTime + 1
      BY <1>1, AppendFacts DEF HistoryInv, WindowsBound
    <3>6. x.auth.approved \in 1..(MaxTime + 1) /\ x.auth.expires \in 1..(MaxTime + 1)
      BY <3>4, <3>5
    <3>7. Shown(x) = [Shown(p) EXCEPT !.state = "preparing", !.auth = x.auth.id,
                         !.from = x.auth.approved, !.until = x.auth.expires]
      <4>1. p.proc = x.proc /\ p.exec = x.exec /\ p.startingAt = x.startingAt
        BY <3>2, <3>3
      <4> HIDE DEF p, x
      <4>2. Shown(x) = [Shown(p) EXCEPT !.state = x.state, !.auth = x.auth.id,
                           !.from = x.auth.approved, !.until = x.auth.expires]
        BY <3>1, <4>1, ShownPlan
      <4> QED
        BY <2>4, <4>2
    <3>8. sess[s].state = "created"
      BY <2>2, <3>1 DEF Shown
    <3>9. Lifecycle!Reserve(s, x.auth.id)
      <4> HIDE DEF sess, x, s, p
      <4>1. sess' = [sess EXCEPT ![s] =
                       [sess[s] EXCEPT !.state = "preparing", !.auth = x.auth.id,
                          !.from = x.auth.approved, !.until = x.auth.expires]]
        BY <1>3, <2>2, <3>7
      <4> QED
        BY <3>4, <3>6, <3>8, <4>1 DEF Lifecycle!Reserve, Lifecycle!Become, sess
    <3> QED
      BY <1>1, <3>4, <3>9 DEF Lifecycle!Next
  <2>5. CASE x.state = "starting"
    <3>1. p.state = "preparing" /\ SameAuth(p, x)
      BY <2>1, <2>5 DEF ValidTransition
    <3>2. p.proc = None
      BY <2>3, <3>1 DEF SnapshotShape, NotRunning
    <3>3. Started(x) /\ x.proc = None /\ x.exec \in Execs
      BY <1>4, <2>5 DEF SnapshotShape, NotRunning, Prepared, Managed, Execs
    <3>4. x.startingAt \in x.auth.approved .. (x.auth.expires - 1)
      <4>1. x.startingAt \in Nat /\ x.auth.approved \in Nat /\ x.auth.expires \in Nat
        <5>1. x.auth \in Authorizations \cup {NoAuth} /\ x.startingAt \in Nat
          BY <1>1 DEF Snapshots
        <5> QED
          BY <5>1 DEF Authorizations, NoAuth
      <4> QED
        BY <3>3, <4>1 DEF Started
    <3>5. Shown(x) = [Shown(p) EXCEPT !.state = "starting", !.exec = x.exec,
                                      !.startedAt = x.startingAt]
      BY <2>5, <3>1, <3>2, <3>3, ShownAuth
    <3>6. sess[s].state = "preparing" /\ sess[s].from = x.auth.approved
          /\ sess[s].until = x.auth.expires
      BY <2>2, <3>1 DEF Shown, SameAuth
    <3>7. Lifecycle!Start(s, x.exec)
      BY <1>3, <2>2, <3>4, <3>5, <3>6 DEF Lifecycle!Start, Lifecycle!Become
    <3> QED
      BY <1>1, <3>3, <3>7 DEF Lifecycle!Next
  <2>6. CASE x.state = "running"
    <3>1. p.state = "starting" /\ SameExec(p, x)
      BY <2>1, <2>6 DEF ValidTransition
    <3>2. x.proc \in Procs \cup {None}
      BY <1>1 DEF Snapshots
    <3>3. Shown(x) = [Shown(p) EXCEPT !.state = "running", !.proc = x.proc]
      BY <2>6, <3>1, ShownExec
    <3>4. sess[s].state = "starting"
      BY <2>2, <3>1 DEF Shown
    <3>5. Lifecycle!Run(s, x.proc)
      BY <1>3, <2>2, <3>3, <3>4 DEF Lifecycle!Run, Lifecycle!Become
    <3> QED
      BY <1>1, <3>2, <3>5 DEF Lifecycle!Next
  <2>7. CASE x.state = "stopping"
    <3>1. p.state = "running" /\ SameRun(p, x)
      BY <2>1, <2>7 DEF ValidTransition
    <3>2. Shown(x) = [Shown(p) EXCEPT !.state = "stopping"]
      BY <2>7, <3>1, ShownRun
    <3>3. sess[s].state = "running"
      BY <2>2, <3>1 DEF Shown
    <3>4. Lifecycle!Stop(s)
      BY <1>3, <2>2, <3>2, <3>3 DEF Lifecycle!Stop, Lifecycle!Become
    <3> QED
      BY <1>1, <3>4 DEF Lifecycle!Next
  <2>8. CASE x.state = "exited"
    <3>1. p.state \in {"running", "stopping"} /\ SameStop(p, x)
      BY <2>1, <2>8 DEF ValidTransition
    <3>2. Shown(x) = [Shown(p) EXCEPT !.state = "exited"]
      BY <2>8, <3>1, ShownRun DEF SameStop
    <3>3. sess[s].state \in {"running", "stopping"}
      BY <2>2, <3>1 DEF Shown
    <3>4. Lifecycle!Exit(s)
      BY <1>3, <2>2, <3>2, <3>3 DEF Lifecycle!Exit, Lifecycle!Become
    <3> QED
      BY <1>1, <3>4 DEF Lifecycle!Next
  <2>9. CASE x.state = "failed"
    <3>1. p.state \in {"starting", "running", "stopping"} /\ SameStop(p, x)
      BY <2>1, <2>9 DEF ValidTransition
    <3>2. Shown(x) = [Shown(p) EXCEPT !.state = "failed"]
      BY <2>9, <3>1, ShownRun DEF SameStop
    <3>3. sess[s].state \in {"starting", "running", "stopping"}
      BY <2>2, <3>1 DEF Shown
    <3>4. Lifecycle!Fail(s)
      BY <1>3, <2>2, <3>2, <3>3 DEF Lifecycle!Fail, Lifecycle!Become
    <3> QED
      BY <1>1, <3>4 DEF Lifecycle!Next
  <2> QED
    BY <2>1, <2>4, <2>5, <2>6, <2>7, <2>8, <2>9 DEF ValidTransition
<1> QED
  BY <1>5, <1>6

LEMMA LifecycleInit == Init => Lifecycle!Init
<1> SUFFICES ASSUME Init PROVE Lifecycle!Init
  OBVIOUS
<1>1. \A s \in Sessions : ~Known(disk, s)
  BY DEF Init, Known
<1> QED
  BY <1>1, ViewUnknown DEF Lifecycle!Init

LEMMA LifecycleStep ==
    ASSUME HistoryInv, HistoryInv', [Next]_vars
    PROVE  [Lifecycle!Next]_([s \in Sessions |-> View(s)])
<1>1. CASE disk' = disk
  <2>1. \A s \in Sessions : View(s)' = View(s)
    BY <1>1 DEF View, Known, IsLatest
  <2> QED
    BY <2>1
<1>2. ASSUME NEW r \in Records, disk' = Append(disk, r),
             accept_recovered_record(disk, r)
      PROVE  [Lifecycle!Next]_([s \in Sessions |-> View(s)])
  <2>1. CASE r.op \in LifecycleOps
    BY <1>2, <2>1, RecordIsStep
  <2>2. CASE r.op \notin LifecycleOps
    <3>1. disk \in Seq(Records)
      BY DEF HistoryInv, RecoveryInv, TypeOK
    <3>2. \A s \in Sessions : View(s)' = View(s)
      BY <1>2, <2>2, <3>1, ViewElsewhere
    <3> QED
      BY <3>2
  <2> QED
    BY <2>1, <2>2
<1>3. RecoveryInv'
  BY DEF HistoryInv
<1> QED
  BY <1>1, <1>2, <1>3, LogStep

\* The registry, with its two-phase calls, intents, failed writes, crashes and
\* restarts, implements the abstract session lifecycle: the file shows each
\* session one plan, one authorization and one execution, a start inside the
\* authorized window, and no way out of exited or failed.
THEOREM RegistryImplementsLifecycle ==
    ASSUME ClockStepsBack = FALSE
    PROVE  Spec => ImplementsLifecycle
<1>1. HistoryInv /\ HistoryInv' /\ [Next]_vars
        => [Lifecycle!Next]_([s \in Sessions |-> View(s)])
  BY LifecycleStep
<1> QED
  BY <1>1, LifecycleInit, HistoryInvariant, PTL
     DEF Spec, ImplementsLifecycle, Lifecycle!Spec
=============================================================================
