------------------------ MODULE SessionServicesProofs ------------------------
(***************************************************************************)
(* Proofs about what serves a session from outside its sandbox.            *)
(*                                                                         *)
(* The answers of the remote executor are true and repeatable, and what it *)
(* leaves on its host is owned by a session it knows.  Both depend on what *)
(* a request may rely on while it waits for docker: the invariant says it  *)
(* for each command, and says what the watchdog has in hand.               *)
(*                                                                         *)
(* The second part is about OutputPump, the other reader of a program's    *)
(* output, which rests on the same facts about loops: what is received is  *)
(* what the child wrote, at a bounded cost.                                *)
(*                                                                         *)
(* The third part is about the guest's ways out: the local-service proxy,  *)
(* the CONNECT proxy and the credentialed endpoint.  Nothing passes them   *)
(* unchecked, every answer is a whole one, and a session's teardown takes  *)
(* what the session made and nothing else.                                 *)
(***************************************************************************)
EXTENDS MCGuestGateways, RemoteValidation, OutputPump, SelectionProofs, FiniteSetTheorems,
        SequenceTheorems, TLAPS

---------------------------------------------------------------------------
(* The inductive invariant.                                                *)

States == {"prepared", "starting", "running", "timed_out", "output_limited",
           "finished", "stopped", "cleaned"}
Commands == {"run", "logs", "inspect", "aborted", "output_limited", "timed_out",
             "finished", "stopped", "cleaned"}
SessionRecords == [epoch : Epochs, state : States, started : BOOLEAN, out : Nat,
                   exit : Int, deadline : Nat]
Tombstones == [sid : Sids, epoch : Epochs, state : {"cleaned", "disconnected"},
               out : Nat, exit : Int]
WatchRecords == [sid : Sids, name : Names, deadline : Nat]
Boxes == [st : {"none", "running", "exited"}, code : Int, out : Nat]
Ops == {NoOp} \cup [step : Commands, req : Requests, deadline : Nat]

SessionsShape ==
    /\ DOMAIN sessions \subseteq Sids
    /\ \A sid \in DOMAIN sessions : sessions[sid] \in SessionRecords
    /\ IsFiniteSet(DOMAIN sessions) /\ Cardinality(DOMAIN sessions) <= MaxSessions

\* The main thread's state and the sessions have their shapes and bounds.
MainShape ==
    /\ mode \in {"down", "serving", "closing"}
    /\ now \in 0 .. MaxTime /\ since \in 0 .. now
    /\ op \in Ops
    /\ SessionsShape
    /\ tombs \in Seq(Tombstones) /\ Len(tombs) <= 2 * MaxSessions
    /\ IsFiniteSet(DOMAIN replays) /\ Cardinality(DOMAIN replays) <= MaxReplays

\* The watchdog's lists and what docker and the file system hold.
HostShape ==
    /\ watched \in Seq(WatchRecords) /\ expired \in Seq(WatchRecords)
    /\ wstep \in {"scan", "stop", "rm", "mark"} /\ (wstep = "scan" <=> expired = <<>>)
    /\ box \in [Names -> Boxes]
    /\ stages \subseteq Names /\ left \subseteq Names

\* A request that waits for docker is about a session that is known, has not
\* been answered under its key and has room for its answer; no other thread
\* changes its session meanwhile.
WaitingInv ==
    op # NoOp =>
        /\ mode = "serving" /\ matching_session(op.req)
        /\ ~Known(op.req) /\ Cardinality(DOMAIN replays) < MaxReplays
        /\ op.step \in {"run", "aborted"} => Session.state = "starting"
        /\ op.step = "inspect" => Session.state = "running"
        /\ op.step = "finished" => Session.state = "finished"

\* A process that is down remembers nothing.
DownInv ==
    mode = "down" => /\ op = NoOp /\ DOMAIN sessions = {}
                     /\ DOMAIN replays = {} /\ answers = {}

\* What a result says about the container of that name is so.
Told(name, result) ==
    result.state = "finished" => <<name, result.exit>> \in exits

\* A session that runs has a container no stop or cleanup of a client touched,
\* so that the code a wait may read ended it by itself or by the watchdog; the
\* ends that sessions report are such codes.
Running(n) == \E sid \in DOMAIN sessions : NameOf(sid) = n /\ sessions[sid].state = "running"
CodesInv ==
    /\ \A n \in Names : Running(n) /\ box[n].code # NoCode => <<n, box[n].code>> \in exits
    /\ \A sid \in DOMAIN sessions : Told(NameOf(sid), sessions[sid])

\* A stored result is a success and true.
ReplaysInv ==
    \A k \in DOMAIN replays : replays[k].result.ok = TRUE /\ Told(<<k[1], k[2]>>, replays[k].result)

\* An answer is the stored result of its key.
AnswersInv ==
    \A a \in answers :
        /\ a.key \in DOMAIN replays /\ a.name = <<a.key[1], a.key[2]>>
        /\ replays[a.key].digest = a.digest /\ replays[a.key].result = a.result

StagesInv == mode # "down" => stages = {NameOf(sid) : sid \in DOMAIN sessions}

\* The records the watchdog has still to clean; the one it marks is done.
InHand == IF wstep = "mark" THEN Range(Tail(expired)) ELSE Range(expired)

Owned(n) == \E sid \in DOMAIN sessions : NameOf(sid) = n /\ ~Untouched(sessions[sid])
Watched(n) == \E r \in Range(watched) \cup InHand : r.name = n

\* A container that no failing command left is its session's; it is watched,
\* or about to be removed by the start that failed.
BoxesInv ==
    mode = "serving" =>
        \A n \in Names \ left : box[n].st # "none" =>
            /\ Owned(n)
            /\ box[n].st = "running" => Watched(n) \/ (op.step = "aborted" /\ Name = n)

RemoteInv ==
    /\ MainShape /\ HostShape /\ WaitingInv /\ DownInv
    /\ CodesInv /\ ReplaysInv /\ AnswersInv /\ StagesInv /\ BoxesInv

---------------------------------------------------------------------------
(* What a step does to the tables, field by field.                         *)

\* A session is replaced by s, or forgotten; the others stay.
SetSession(sid, s) ==
    /\ sid \in DOMAIN sessions /\ DOMAIN sessions' = DOMAIN sessions
    /\ sessions'[sid] = s /\ s.epoch = sessions[sid].epoch
    /\ \A x \in DOMAIN sessions \ {sid} : sessions'[x] = sessions[x]
SessionDropped(sid) ==
    /\ sid \in DOMAIN sessions /\ DOMAIN sessions' = DOMAIN sessions \ {sid}
    /\ \A x \in DOMAIN sessions \ {sid} : sessions'[x] = sessions[x]
AddSession(sid, s) ==
    /\ sid \in Sids \ DOMAIN sessions /\ DOMAIN sessions' = DOMAIN sessions \cup {sid}
    /\ sessions'[sid] = s /\ Cardinality(DOMAIN sessions) < MaxSessions
    /\ \A x \in DOMAIN sessions : sessions'[x] = sessions[x]

\* A request is answered, or the connection ends before it is.
Answered ==
    /\ op' = NoOp /\ mode' \in {"serving", "closing"} /\ since' \in 0 .. now
    /\ ReplaysInv' /\ AnswersInv'
    /\ IsFiniteSet(DOMAIN replays') /\ Cardinality(DOMAIN replays') <= MaxReplays

\* A result that does not claim more than is so.
Honest(r, result) ==
    result.ok \in BOOLEAN /\ (result.ok = TRUE => Told(<<r.sid, r.epoch>>, result))

\* An error, or the result that is stored for the request.
ErrorOrStored(r, result) ==
    /\ result.ok \in BOOLEAN
    /\ result.ok = TRUE => /\ Known(r) /\ replays[replay_key(r)].digest = r.digest
                           /\ replays[replay_key(r)].result = result

\* One more element.
LEMMA OneMore ==
    ASSUME NEW D, IsFiniteSet(D), NEW x, NEW max \in Nat, Cardinality(D) < max
    PROVE  IsFiniteSet(D \cup {x}) /\ Cardinality(D \cup {x}) <= max
<1>1. Cardinality(D) \in Nat
  BY FS_CardinalityType
<1>2. IsFiniteSet(D \cup {x})
  BY FS_AddElement
<1>3. Cardinality(D \cup {x}) = IF x \in D THEN Cardinality(D) ELSE Cardinality(D) + 1
  BY FS_AddElement
<1> QED
  BY <1>1, <1>2, <1>3

LEMMA OneLess ==
    ASSUME NEW D, IsFiniteSet(D), NEW x, NEW max \in Nat, Cardinality(D) <= max
    PROVE  IsFiniteSet(D \ {x}) /\ Cardinality(D \ {x}) <= max
<1>1. Cardinality(D) \in Nat
  BY FS_CardinalityType
<1>2. IsFiniteSet(D \ {x})
  BY FS_RemoveElement
<1>3. Cardinality(D \ {x}) = IF x \in D THEN Cardinality(D) - 1 ELSE Cardinality(D)
  BY FS_RemoveElement
<1> QED
  BY <1>1, <1>2, <1>3

LEMMA Bounds ==
    /\ MaxSessions \in Nat \ {0} /\ MaxReplays \in Nat /\ MaxTtl \in Nat /\ MaxTime \in Nat
    /\ \A r \in Requests : /\ r.sid \in Sids /\ r.epoch \in Epochs
                           /\ r.ttl \in Nat /\ r.cursor \in Nat /\ r.max \in Nat
BY RemoteAssumption DEF RemoteAssumption

\* A new result is stored under its key and answered.
LEMMA FinishAnswers ==
    ASSUME RemoteInv, mode = "serving", NEW r \in Requests, ~Known(r),
           Cardinality(DOMAIN replays) < MaxReplays, exits' = exits, now' = now,
           NEW d \in Nat, NEW result, Honest(r, result), Finish(r, d, result)
    PROVE  Answered
<1> DEFINE key == replay_key(r)
           entry == [method |-> r.method, digest |-> r.digest, result |-> result]
           answer == [key |-> key, digest |-> r.digest, name |-> <<r.sid, r.epoch>>,
                      result |-> result]
<1>1. key = <<r.sid, r.epoch, r.key>> /\ key \notin DOMAIN replays
  BY DEF replay_key, Known
<1>2. /\ op' = NoOp /\ mode' \in {"serving", "closing"} /\ since' \in 0 .. now
      /\ answers' = answers \/ (result.ok /\ answers' = answers \cup {answer})
      /\ replays' = IF result.ok THEN Put(replays, key, entry) ELSE replays
  BY DEF RemoteInv, MainShape, Finish, Respond, Store
<1>3. result.ok \in BOOLEAN
  BY DEF Honest
<1>4. CASE result.ok = FALSE
  <2>1. answers' = answers /\ replays' = replays
    BY <1>2, <1>4
  <2>2. ReplaysInv' /\ AnswersInv'
    BY <2>1 DEF RemoteInv, ReplaysInv, AnswersInv, Told
  <2>3. IsFiniteSet(DOMAIN replays') /\ Cardinality(DOMAIN replays') <= MaxReplays
    BY <2>1 DEF RemoteInv, MainShape
  <2> QED
    BY <1>2, <2>2, <2>3 DEF Answered
<1>5. CASE result.ok = TRUE
  <2>1. replays' = Put(replays, key, entry)
    BY <1>2, <1>5
  <2>2. /\ DOMAIN replays' = DOMAIN replays \cup {key} /\ replays'[key] = entry
        /\ \A k \in DOMAIN replays : replays'[k] = replays[k]
    <3> HIDE DEF key, entry
    <3> QED
      BY <1>1, <2>1 DEF Put
  <2>3. IsFiniteSet(DOMAIN replays') /\ Cardinality(DOMAIN replays') <= MaxReplays
    <3> HIDE DEF key, entry
    <3>1. IsFiniteSet(DOMAIN replays) /\ MaxReplays \in Nat
      BY Bounds DEF RemoteInv, MainShape
    <3>2. IsFiniteSet(DOMAIN replays \cup {key}) /\ Cardinality(DOMAIN replays \cup {key}) <= MaxReplays
      BY <3>1, OneMore
    <3> QED
      BY <2>2, <3>2
  <2>4. Told(<<key[1], key[2]>>, result)
    BY <1>1, <1>5 DEF Honest
  <2>5. ReplaysInv'
    <3>1. ASSUME NEW k \in DOMAIN replays'
          PROVE  replays'[k].result.ok = TRUE /\ Told(<<k[1], k[2]>>, replays'[k].result)
      <4>1. CASE k = key
        BY <1>5, <2>2, <2>4, <4>1
      <4>2. CASE k # key
        BY <2>2, <4>2 DEF RemoteInv, ReplaysInv
      <4> QED
        BY <4>1, <4>2
    <3>2. ASSUME NEW k \in DOMAIN replays'
          PROVE  /\ replays'[k].result.ok = TRUE
                 /\ replays'[k].result.state = "finished"
                       => <<<<k[1], k[2]>>, replays'[k].result.exit>> \in exits'
      BY <3>1, <3>2 DEF Told
    <3> QED
      BY <3>2, Zenon DEF ReplaysInv, Told
  <2>6. AnswersInv'
    <3>1. ASSUME NEW a \in answers'
          PROVE  /\ a.key \in DOMAIN replays' /\ a.name = <<a.key[1], a.key[2]>>
                 /\ replays'[a.key].digest = a.digest /\ replays'[a.key].result = a.result
      <4>1. CASE a \in answers
        BY <2>2, <4>1 DEF RemoteInv, AnswersInv
      <4>2. CASE a = answer
        BY <1>1, <2>2, <4>2
      <4> QED
        BY <1>2, <4>1, <4>2
    <3> QED
      BY <3>1 DEF AnswersInv
  <2> QED
    BY <1>2, <2>3, <2>5, <2>6 DEF Answered
<1> QED
  BY <1>3, <1>4, <1>5

\* A repeated result, or an error, is answered and nothing is stored.
LEMMA RespondAnswers ==
    ASSUME RemoteInv, mode = "serving", NEW r \in Requests, NEW result,
           ErrorOrStored(r, result), exits' = exits, replays' = replays, now' = now,
           NEW d \in Nat, Respond(r, d, result)
    PROVE  Answered
<1> DEFINE key == replay_key(r)
           answer == [key |-> key, digest |-> r.digest, name |-> <<r.sid, r.epoch>>,
                      result |-> result]
<1>1. key = <<r.sid, r.epoch, r.key>>
  BY DEF replay_key
<1>2. /\ op' = NoOp /\ mode' \in {"serving", "closing"} /\ since' \in 0 .. now
      /\ answers' = answers \/ (result.ok /\ answers' = answers \cup {answer})
  BY DEF RemoteInv, MainShape, Respond
<1>3. ReplaysInv'
  BY DEF RemoteInv, ReplaysInv, Told
<1>4. ASSUME NEW a \in answers'
      PROVE  /\ a.key \in DOMAIN replays /\ a.name = <<a.key[1], a.key[2]>>
             /\ replays[a.key].digest = a.digest /\ replays[a.key].result = a.result
  <2>1. CASE a \in answers
    BY <2>1 DEF RemoteInv, AnswersInv
  <2>2. CASE a = answer /\ result.ok = TRUE
    BY <1>1, <2>2 DEF Known, ErrorOrStored
  <2>3. result.ok \in BOOLEAN
    BY DEF ErrorOrStored
  <2> QED
    BY <1>2, <2>1, <2>2, <2>3
<1>5. AnswersInv'
  BY <1>4 DEF AnswersInv
<1> QED
  BY <1>2, <1>3, <1>5 DEF Answered, RemoteInv, MainShape

---------------------------------------------------------------------------
(* Results.                                                                *)

LEMMA ErrorIsHonest ==
    ASSUME NEW r, NEW code
    PROVE  Honest(r, err(code)) /\ ErrorOrStored(r, err(code))
BY DEF Honest, ErrorOrStored, err

LEMMA ProjectIsHonest ==
    ASSUME NEW r, NEW s, Told(<<r.sid, r.epoch>>, s)
    PROVE  Honest(r, project(s)) /\ Honest(r, project_read(s, r))
<1>1. ASSUME NEW n, NEW e
      PROVE  Honest(r, ok(s.state, n, e, s.exit))
  BY DEF Honest, Told, ok
<1> QED
  BY <1>1, ErrorIsHonest DEF project, project_read

\* A session that is known under the request's epoch.
LEMMA MatchingSession ==
    ASSUME RemoteInv, NEW r \in Requests, matching_session(r)
    PROVE  /\ r.sid \in DOMAIN sessions /\ r.sid \in Sids
           /\ sessions[r.sid] \in SessionRecords
           /\ sessions[r.sid].epoch = r.epoch /\ NameOf(r.sid) = <<r.sid, r.epoch>>
           /\ Told(<<r.sid, r.epoch>>, sessions[r.sid])
           /\ Honest(r, project(sessions[r.sid]))
           /\ Honest(r, project_read(sessions[r.sid], r))
<1>1. /\ r.sid \in DOMAIN sessions /\ r.sid \in Sids
      /\ sessions[r.sid] \in SessionRecords
      /\ sessions[r.sid].epoch = r.epoch /\ NameOf(r.sid) = <<r.sid, r.epoch>>
  BY Bounds DEF RemoteInv, MainShape, SessionsShape, matching_session, NameOf
<1>2. Told(<<r.sid, r.epoch>>, sessions[r.sid])
  BY <1>1 DEF RemoteInv, CodesInv
<1> QED
  BY <1>1, <1>2, ProjectIsHonest

LEMMA TombstoneIsHonest ==
    ASSUME RemoteInv, NEW r \in Requests
    PROVE  Honest(r, matching_tombstone(r)) /\ Honest(r, session_error(r))
<1>1. Honest(r, session_error(r))
  BY ErrorIsHonest DEF session_error
<1> DEFINE mine == Those(tombs, {t \in Range(tombs) : t.sid = r.sid /\ t.epoch = r.epoch})
<1>2. mine \in Seq(Tombstones)
  BY ThoseFacts DEF RemoteInv, MainShape
<1>5. matching_tombstone(r) =
        IF mine = <<>> THEN session_error(r)
        ELSE IF r.method = "read" THEN project_read(Head(mine), r)
        ELSE project_tombstone(Head(mine))
  BY DEF matching_tombstone
<1> HIDE DEF mine
<1>3. CASE mine = <<>>
  BY <1>1, <1>3, <1>5
<1>4. CASE mine # <<>>
  <2>1. Head(mine) \in Tombstones
    BY <1>2, <1>4, HeadTailRange
  <2>2. Head(mine).state # "finished"
    BY <2>1 DEF Tombstones
  <2>3. Told(<<r.sid, r.epoch>>, Head(mine))
    BY <2>2 DEF Told
  <2>4. Honest(r, project_read(Head(mine), r))
    BY <2>3, ProjectIsHonest
  <2>5. Honest(r, project_tombstone(Head(mine)))
    BY <2>2 DEF Honest, Told, project_tombstone, ok
  <2>6. CASE r.method = "read"
    BY <1>4, <1>5, <2>4, <2>6, <1>1
  <2>7. CASE r.method # "read"
    BY <1>4, <1>5, <2>5, <2>7, <1>1
  <2> QED
    BY <2>6, <2>7
<1> QED
  BY <1>1, <1>3, <1>4

LEMMA TombstonesAreBounded ==
    ASSUME RemoteInv, NEW s \in SessionRecords, NEW sid \in Sids,
           NEW state \in {"cleaned", "disconnected"}
    PROVE  /\ add_tombstone(s, sid, state) \in Seq(Tombstones)
           /\ Len(add_tombstone(s, sid, state)) <= 2 * MaxSessions
<1> DEFINE t == [sid |-> sid, epoch |-> s.epoch, state |-> state, out |-> s.out,
                 exit |-> s.exit]
           all == Append(tombs, t)
<1>1. t \in Tombstones
  BY DEF Tombstones, SessionRecords
<1>2. tombs \in Seq(Tombstones) /\ Len(tombs) <= 2 * MaxSessions /\ MaxSessions \in Nat \ {0}
  BY Bounds DEF RemoteInv, MainShape
<1>3. add_tombstone(s, sid, state) = IF Len(all) > 2 * MaxSessions THEN Tail(all) ELSE all
  BY DEF add_tombstone
<1> HIDE DEF t
<1>4. all \in Seq(Tombstones) /\ Len(all) = Len(tombs) + 1 /\ Len(tombs) \in Nat /\ all # <<>>
  BY <1>1, <1>2
<1> HIDE DEF all
<1>5. Tail(all) \in Seq(Tombstones) /\ Len(Tail(all)) = Len(all) - 1
  BY <1>4
<1> QED
  BY <1>2, <1>3, <1>4, <1>5

---------------------------------------------------------------------------
(* A request, up to its answer or its first docker command.                *)

\* What a request may do: be answered and leave the sessions alone, prepare,
\* stop or clean up a session that was never started, or wait for docker.
Refused == Answered /\ UNCHANGED <<sessions, tombs, stages>>
Prepared(r) ==
    /\ Answered /\ UNCHANGED tombs /\ stages' = stages \cup {<<r.sid, r.epoch>>}
    /\ \E s \in SessionRecords :
          AddSession(r.sid, s) /\ s.epoch = r.epoch /\ s.state = "prepared"
StoppedEarly(r) ==
    /\ Answered /\ UNCHANGED <<tombs, stages>>
    /\ \E s \in SessionRecords : SetSession(r.sid, s) /\ s.state = "stopped"
CleanedEarly(r) ==
    /\ Answered /\ SessionDropped(r.sid) /\ Untouched(sessions[r.sid])
    /\ stages' = stages \ {NameOf(r.sid)}
    /\ tombs' \in Seq(Tombstones) /\ Len(tombs') <= 2 * MaxSessions
Waits(r) ==
    /\ matching_session(r) /\ ~Known(r) /\ Cardinality(DOMAIN replays) < MaxReplays
    /\ op' \in Ops /\ op' # NoOp /\ op'.req = r
    /\ UNCHANGED <<mode, since, replays, answers, tombs, stages>>
    /\ \/ /\ op'.step = "run"
          /\ \E s \in SessionRecords : SetSession(r.sid, s) /\ s.state = "starting"
       \/ /\ op'.step \in {"logs", "timed_out", "inspect", "stopped", "cleaned"}
          /\ op'.step = "inspect" => sessions[r.sid].state = "running"
          /\ UNCHANGED sessions

LEMMA AwaitWaits ==
    ASSUME NEW r \in Requests, NEW d \in Nat,
           NEW step \in {"run", "logs", "timed_out", "inspect", "stopped", "cleaned"},
           Await(r, d, step)
    PROVE  /\ op' \in Ops /\ op' # NoOp /\ op'.req = r /\ op'.step = step
           /\ UNCHANGED <<mode, since, replays, answers>>
<1>1. op' = [step |-> step, req |-> r, deadline |-> d] /\ UNCHANGED <<mode, since, replays, answers>>
  BY DEF Await
<1>2. step \in Commands /\ step # "none"
  BY DEF Commands
<1>3. op' \in [step : Commands, req : Requests, deadline : Nat]
  BY <1>1, <1>2
<1>4. op' # NoOp
  BY <1>1, <1>2 DEF NoOp
<1> QED
  BY <1>1, <1>3, <1>4 DEF Ops

LEMMA PrepareEffect ==
    ASSUME RemoteInv, mode = "serving", NEW r \in Requests, ~Known(r),
           Cardinality(DOMAIN replays) < MaxReplays, exits' = exits, now' = now,
           NEW d \in Nat, prepare_validation(r, d)
    PROVE  Refused \/ Prepared(r)
<1>1. /\ r.sid \in Sids /\ r.epoch \in Epochs
  BY Bounds
<1>2. CASE r.sid \in DOMAIN sessions
  <2> DEFINE result == IF matching_session(r) THEN project(sessions[r.sid])
                       ELSE err("session_conflict")
  <2>1. Honest(r, result)
    BY MatchingSession, ErrorIsHonest
  <2>2. Finish(r, d, result) /\ UNCHANGED <<sessions, tombs, stages>>
    BY <1>2 DEF prepare_validation
  <2> HIDE DEF result
  <2> QED
    BY <2>1, <2>2, FinishAnswers DEF Refused
<1>3. ASSUME NEW code, Finish(r, d, err(code)), UNCHANGED <<sessions, stages, tombs>>
      PROVE  Refused
  BY <1>3, ErrorIsHonest, FinishAnswers DEF Refused
<1>4. CASE /\ r.sid \notin DOMAIN sessions
           /\ \/ Cardinality(DOMAIN sessions) >= MaxSessions
              \/ <<r.sid, r.epoch>> \in stages
  <2>1. \/ Finish(r, d, err("capacity_exceeded")) /\ UNCHANGED <<sessions, stages, tombs>>
        \/ Finish(r, d, err("staging_error")) /\ UNCHANGED <<sessions, stages, tombs>>
    BY <1>4 DEF prepare_validation
  <2> QED
    BY <1>3, <2>1
<1>5. CASE /\ r.sid \notin DOMAIN sessions
           /\ ~(Cardinality(DOMAIN sessions) >= MaxSessions)
           /\ <<r.sid, r.epoch>> \notin stages
  <2> DEFINE s == [epoch |-> r.epoch, state |-> "prepared", started |-> FALSE,
                   out |-> 0, exit |-> NoCode, deadline |-> 0]
  <2>1. /\ UNCHANGED tombs /\ sessions' = Put(sessions, r.sid, s)
        /\ stages' = stages \cup {<<r.sid, r.epoch>>} /\ Finish(r, d, project(s))
    BY <1>5 DEF prepare_validation
  <2>2. s \in SessionRecords /\ s.epoch = r.epoch /\ s.state = "prepared"
    BY <1>1 DEF SessionRecords, States, NoCode
  <2> HIDE DEF s
  <2>3. Told(<<r.sid, r.epoch>>, s)
    BY <2>2 DEF Told
  <2>4. Answered
    BY <2>1, <2>3, ProjectIsHonest, FinishAnswers
  <2>5. Cardinality(DOMAIN sessions) < MaxSessions
    <3>1. Cardinality(DOMAIN sessions) \in Nat /\ MaxSessions \in Nat
      BY FS_CardinalityType, Bounds DEF RemoteInv, MainShape, SessionsShape
    <3> QED
      BY <1>5, <3>1
  <2>6. AddSession(r.sid, s)
    BY <1>1, <1>5, <2>1, <2>5 DEF AddSession, Put
  <2> QED
    BY <2>1, <2>2, <2>4, <2>6 DEF Prepared
<1> QED
  BY <1>2, <1>4, <1>5

\* A field of a session changes.
LEMMA StateSet ==
    ASSUME RemoteInv, NEW sid \in DOMAIN sessions, NEW state \in States,
           sessions' = State(sid, state)
    PROVE  \E s \in SessionRecords : SetSession(sid, s) /\ s.state = state
<1> DEFINE s == [sessions[sid] EXCEPT !.state = state]
<1>1. sessions[sid] \in SessionRecords
  BY DEF RemoteInv, MainShape, SessionsShape
<1>2. s \in SessionRecords /\ s.state = state /\ s.epoch = sessions[sid].epoch
  BY <1>1 DEF SessionRecords
<1>3. sessions' = [sessions EXCEPT ![sid] = s]
  BY DEF State
<1> HIDE DEF s
<1>4. SetSession(sid, s)
  BY <1>2, <1>3 DEF SetSession
<1> QED
  BY <1>2, <1>4

LEMMA ExecuteEffect ==
    ASSUME RemoteInv, mode = "serving", NEW r \in Requests, ~Known(r),
           Cardinality(DOMAIN replays) < MaxReplays, exits' = exits, now' = now,
           NEW d \in Nat, execute(r, d)
    PROVE  Refused \/ Prepared(r) \/ StoppedEarly(r) \/ CleanedEarly(r) \/ Waits(r)
<1> DEFINE s == sessions[r.sid]
<1>1. ASSUME NEW result, Honest(r, result), Finish(r, d, result)
      PROVE  Answered
  BY <1>1, FinishAnswers
<1>2. CASE r.method = "prepare" /\ prepare_validation(r, d)
  BY <1>2, PrepareEffect
<1>3. CASE /\ r.method # "prepare" /\ ~matching_session(r)
           /\ Finish(r, d, IF r.method = "start" THEN session_error(r)
                           ELSE matching_tombstone(r))
           /\ UNCHANGED <<sessions, tombs, stages>>
  <2> DEFINE result == IF r.method = "start" THEN session_error(r) ELSE matching_tombstone(r)
  <2>1. Honest(r, result)
    BY TombstoneIsHonest
  <2>2. Finish(r, d, result)
    BY <1>3
  <2> HIDE DEF result
  <2> QED
    BY <1>1, <1>3, <2>1, <2>2 DEF Refused
<1>4. CASE /\ r.method = "start" /\ matching_session(r)
           /\ IF s.state # "prepared"
              THEN Finish(r, d, err("invalid_state")) /\ UNCHANGED sessions
              ELSE Await(r, d, "run") /\ sessions' = State(r.sid, "starting")
           /\ UNCHANGED <<tombs, stages>>
  <2>1. CASE s.state # "prepared"
    BY <1>1, <1>4, <2>1, ErrorIsHonest DEF Refused
  <2>2. CASE s.state = "prepared"
    <3>1. Await(r, d, "run") /\ sessions' = State(r.sid, "starting")
      BY <1>4, <2>2
    <3>2. \E t \in SessionRecords : SetSession(r.sid, t) /\ t.state = "starting"
      BY <1>4, <3>1, MatchingSession, StateSet DEF States
    <3>3. /\ op' \in Ops /\ op' # NoOp /\ op'.req = r /\ op'.step = "run"
          /\ UNCHANGED <<mode, since, replays, answers>>
      BY <3>1, AwaitWaits
    <3> QED
      BY <1>4, <3>2, <3>3 DEF Waits
  <2> QED
    BY <2>1, <2>2
<1>5. ASSUME NEW step \in {"logs", "timed_out", "inspect", "stopped", "cleaned"},
             step = "inspect" => s.state = "running", matching_session(r), Await(r, d, step), UNCHANGED <<sessions, tombs, stages>>
      PROVE  Waits(r)
  <2>1. /\ op' \in Ops /\ op' # NoOp /\ op'.req = r /\ op'.step = step
        /\ UNCHANGED <<mode, since, replays, answers>>
    BY <1>5, AwaitWaits
  <2> QED
    BY <1>5, <2>1 DEF Waits
<1>6. CASE /\ r.method = "read" /\ matching_session(r)
           /\ IF s.started /\ s.state = "running" THEN Await(r, d, "logs")
              ELSE Finish(r, d, project_read(s, r))
           /\ UNCHANGED <<sessions, tombs, stages>>
  <2>1. CASE s.started /\ s.state = "running"
    BY <1>5, <1>6, <2>1
  <2>2. CASE ~(s.started /\ s.state = "running")
    BY <1>1, <1>6, <2>2, MatchingSession DEF Refused
  <2> QED
    BY <2>1, <2>2
<1>7. CASE /\ r.method = "wait" /\ matching_session(r)
           /\ IF s.state # "running" THEN Finish(r, d, project(s))
              ELSE Await(r, d, IF now >= s.deadline THEN "timed_out" ELSE "inspect")
           /\ UNCHANGED <<sessions, tombs, stages>>
  <2>1. CASE s.state # "running"
    BY <1>1, <1>7, <2>1, MatchingSession DEF Refused
  <2>2. CASE s.state = "running"
    <3>1. Await(r, d, "timed_out") \/ Await(r, d, "inspect")
      BY <1>7, <2>2
    <3> QED
      BY <1>5, <1>7, <2>2, <3>1
  <2> QED
    BY <2>1, <2>2
<1>8. CASE /\ r.method = "stop" /\ matching_session(r)
           /\ IF Untouched(s)
              THEN /\ sessions' = State(r.sid, "stopped")
                   /\ Finish(r, d, project([s EXCEPT !.state = "stopped"]))
              ELSE Await(r, d, "stopped") /\ UNCHANGED sessions
           /\ UNCHANGED <<tombs, stages>>
  <2>1. CASE Untouched(s)
    <3> DEFINE t == [s EXCEPT !.state = "stopped"]
    <3>1. t.state = "stopped"
      BY <1>8, MatchingSession DEF SessionRecords
    <3>2. Finish(r, d, project(t)) /\ sessions' = State(r.sid, "stopped")
      BY <1>8, <2>1
    <3> HIDE DEF t
    <3>3. Told(<<r.sid, r.epoch>>, t)
      BY <3>1 DEF Told
    <3>4. Answered
      BY <1>1, <3>2, <3>3, ProjectIsHonest
    <3>5. \E u \in SessionRecords : SetSession(r.sid, u) /\ u.state = "stopped"
      BY <1>8, <3>2, MatchingSession, StateSet DEF States
    <3> QED
      BY <1>8, <3>4, <3>5 DEF StoppedEarly
  <2>2. CASE ~Untouched(s)
    BY <1>5, <1>8, <2>2
  <2> QED
    BY <2>1, <2>2
<1>9. CASE /\ r.method = "cleanup" /\ matching_session(r)
           /\ IF Untouched(s)
              THEN /\ sessions' = Without(sessions, r.sid)
                   /\ stages' = stages \ {NameOf(r.sid)}
                   /\ tombs' = add_tombstone(s, r.sid, "cleaned")
                   /\ Finish(r, d, project([s EXCEPT !.state = "cleaned"]))
              ELSE Await(r, d, "cleaned") /\ UNCHANGED <<sessions, tombs, stages>>
  <2>1. CASE Untouched(s)
    <3> DEFINE t == [s EXCEPT !.state = "cleaned"]
    <3>1. t.state = "cleaned"
      BY <1>9, MatchingSession DEF SessionRecords
    <3>2. /\ Finish(r, d, project(t)) /\ sessions' = Without(sessions, r.sid)
          /\ stages' = stages \ {NameOf(r.sid)}
          /\ tombs' = add_tombstone(s, r.sid, "cleaned")
      BY <1>9, <2>1
    <3> HIDE DEF t
    <3>3. Told(<<r.sid, r.epoch>>, t)
      BY <3>1 DEF Told
    <3>4. Answered
      BY <1>1, <3>2, <3>3, ProjectIsHonest
    <3>5. SessionDropped(r.sid)
      <4>1. r.sid \in DOMAIN sessions
        BY <1>9, MatchingSession
      <4> QED
        BY <3>2, <4>1 DEF SessionDropped, Without
    <3>6. tombs' \in Seq(Tombstones) /\ Len(tombs') <= 2 * MaxSessions
      BY <1>9, <3>2, MatchingSession, TombstonesAreBounded
    <3> QED
      BY <2>1, <3>2, <3>4, <3>5, <3>6 DEF CleanedEarly
  <2>2. CASE ~Untouched(s)
    BY <1>5, <1>9, <2>2
  <2> QED
    BY <2>1, <2>2
<1> QED
  BY <1>2, <1>3, <1>4, <1>6, <1>7, <1>8, <1>9 DEF execute

LEMMA HandleEffect ==
    ASSUME RemoteInv, NEW r \in Requests, handle(r)
    PROVE  /\ mode = "serving" /\ op = NoOp
           /\ UNCHANGED <<now, watched, expired, wstep, box, left, exits>>
           /\ Refused \/ Prepared(r) \/ StoppedEarly(r) \/ CleanedEarly(r) \/ Waits(r)
<1>1. /\ mode = "serving" /\ op = NoOp
      /\ UNCHANGED <<now, watched, expired, wstep, box, left, exits>>
  BY DEF handle
<1> DEFINE d == remote_request_deadline(r)
<1>2. d \in Nat
  BY Bounds DEF remote_request_deadline, RemoteInv, MainShape
<1> HIDE DEF d
<1>3. CASE Close /\ UNCHANGED <<since, sessions, tombs, replays, stages, answers>>
  <2>1. op' = NoOp /\ mode' = "closing"
    BY <1>3 DEF Close
  <2>2. ReplaysInv' /\ AnswersInv'
    BY <1>1, <1>3 DEF RemoteInv, ReplaysInv, AnswersInv, Told
  <2> QED
    BY <1>1, <1>3, <2>1, <2>2 DEF Refused, Answered, RemoteInv, MainShape
<1>4. CASE /\ since' = now
           /\ UNCHANGED <<mode, op, sessions, tombs, replays, stages, answers>>
  <2>1. ReplaysInv' /\ AnswersInv'
    BY <1>1, <1>4 DEF RemoteInv, ReplaysInv, AnswersInv, Told
  <2> QED
    BY <1>1, <1>4, <2>1 DEF Refused, Answered, RemoteInv, MainShape
<1>5. CASE dispatch(r, d)
  <2>0. ASSUME NEW result, ErrorOrStored(r, result), Respond(r, d, result),
               replays' = replays
        PROVE  Answered
    BY <1>1, <1>2, <2>0, RespondAnswers
  <2>1. CASE UNCHANGED <<replays, sessions, tombs, stages>> /\ \E c : Respond(r, d, err(c))
    BY <1>1, <2>0, <2>1, ErrorIsHonest DEF Refused
  <2>2. CASE Known(r) /\ Respond(r, d, Replay(r)) /\ UNCHANGED <<replays, sessions, tombs, stages>>
    <3> DEFINE result == Replay(r)
    <3>1. CASE result = err("idempotency_conflict")
      BY <1>1, <2>0, <2>2, <3>1, ErrorIsHonest DEF Refused
    <3>2. CASE /\ replays[replay_key(r)].digest = r.digest
               /\ result = replays[replay_key(r)].result
      <4>1. result.ok = TRUE
        BY <2>2, <3>2 DEF RemoteInv, ReplaysInv, Known
      <4> HIDE DEF result
      <4>2. ErrorOrStored(r, result)
        BY <2>2, <3>2, <4>1 DEF ErrorOrStored
      <4> QED
        BY <1>1, <2>0, <2>2, <4>2 DEF Refused, result
    <3> QED
      BY <3>1, <3>2 DEF Replay
  <2>3. CASE ~Known(r) /\ ~(Cardinality(DOMAIN replays) >= MaxReplays) /\ execute(r, d)
    <3>1. Cardinality(DOMAIN replays) < MaxReplays
      <4>1. Cardinality(DOMAIN replays) \in Nat /\ MaxReplays \in Nat
        BY FS_CardinalityType, Bounds DEF RemoteInv, MainShape, SessionsShape
      <4> QED
        BY <2>3, <4>1
    <3> QED
      BY <1>1, <1>2, <2>3, <3>1, ExecuteEffect
  <2> QED
    BY <1>5, <2>1, <2>2, <2>3 DEF dispatch
<1>6. \/ Close /\ UNCHANGED <<since, sessions, tombs, replays, stages, answers>>
      \/ since' = now /\ UNCHANGED <<mode, op, sessions, tombs, replays, stages, answers>>
      \/ dispatch(r, d)
  BY DEF handle, d
<1> QED
  BY <1>1, <1>3, <1>4, <1>5, <1>6

---------------------------------------------------------------------------
(* What becomes of the sessions' names and of what they own.               *)

SessionNames == {NameOf(sid) : sid \in DOMAIN sessions}

LEMMA SetKeeps ==
    ASSUME SessionsShape, NEW sid, NEW s \in SessionRecords, SetSession(sid, s)
    PROVE  /\ SessionsShape' /\ SessionNames' = SessionNames
           /\ \A x \in DOMAIN sessions : NameOf(x)' = NameOf(x)
           /\ (Untouched(s) => Untouched(sessions[sid])) => \A n : Owned(n) => Owned(n)'
           /\ \A n : Running(n)' /\ (s.state # "running" \/ n # NameOf(sid)) => Running(n) /\ n # NameOf(sid)
<1>1. /\ DOMAIN sessions' = DOMAIN sessions /\ sid \in DOMAIN sessions
      /\ sessions'[sid] = s /\ s.epoch = sessions[sid].epoch
      /\ \A x \in DOMAIN sessions \ {sid} : sessions'[x] = sessions[x]
  BY DEF SetSession
<1>2. SessionsShape'
  <2>1. \A x \in DOMAIN sessions' : sessions'[x] \in SessionRecords
    BY <1>1 DEF SessionsShape
  <2> QED
    BY <1>1, <2>1 DEF SessionsShape
<1>3. \A x \in DOMAIN sessions : NameOf(x)' = NameOf(x)
  BY <1>1 DEF NameOf
<1>4. SessionNames' = SessionNames
  BY <1>1, <1>3 DEF SessionNames
<1>5. ASSUME Untouched(s) => Untouched(sessions[sid]), NEW n, Owned(n)
      PROVE  Owned(n)'
  <2>1. PICK x \in DOMAIN sessions : NameOf(x) = n /\ ~Untouched(sessions[x])
    BY <1>5 DEF Owned
  <2>2. x \in DOMAIN sessions' /\ NameOf(x)' = n /\ ~Untouched(sessions'[x])
    BY <1>1, <1>3, <1>5, <2>1
  <2> QED
    BY <2>2 DEF Owned, Untouched
<1>6. ASSUME NEW n, Running(n)', s.state # "running" \/ n # NameOf(sid)
      PROVE  Running(n) /\ n # NameOf(sid)
  <2>1. PICK x \in DOMAIN sessions' : NameOf(x)' = n /\ sessions'[x].state = "running"
    BY <1>6 DEF Running
  <2>2. x \in DOMAIN sessions /\ NameOf(x) = n /\ x # sid
    BY <1>1, <1>3, <1>6, <2>1
  <2>3. n # NameOf(sid)
    BY <2>2 DEF NameOf
  <2> QED
    BY <1>1, <2>1, <2>2, <2>3 DEF Running
<1> QED
  BY <1>2, <1>3, <1>4, <1>5, <1>6

LEMMA DropKeeps ==
    ASSUME SessionsShape, NEW sid, SessionDropped(sid)
    PROVE  /\ SessionsShape' /\ SessionNames' = SessionNames \ {NameOf(sid)}
           /\ \A x \in DOMAIN sessions' : x \in DOMAIN sessions /\ x # sid /\ NameOf(x)' = NameOf(x)
           /\ \A n : Owned(n) /\ (Untouched(sessions[sid]) \/ n # NameOf(sid)) => Owned(n)'
           /\ \A n : Running(n)' => Running(n) /\ n # NameOf(sid)
<1>1. /\ DOMAIN sessions' = DOMAIN sessions \ {sid} /\ sid \in DOMAIN sessions
      /\ \A x \in DOMAIN sessions \ {sid} : sessions'[x] = sessions[x]
  BY DEF SessionDropped
<1>2. SessionsShape'
  <2>1. IsFiniteSet(DOMAIN sessions \ {sid}) /\ Cardinality(DOMAIN sessions \ {sid}) <= MaxSessions
    BY OneLess, Bounds DEF SessionsShape
  <2>2. DOMAIN sessions' \subseteq Sids /\ \A x \in DOMAIN sessions' : sessions'[x] \in SessionRecords
    BY <1>1 DEF SessionsShape
  <2> QED
    BY <1>1, <2>1, <2>2 DEF SessionsShape
<1>3. \A x \in DOMAIN sessions' : x \in DOMAIN sessions /\ x # sid /\ NameOf(x)' = NameOf(x)
  BY <1>1 DEF NameOf
<1>4. SessionNames' = SessionNames \ {NameOf(sid)}
  <2>1. \A x, y \in DOMAIN sessions : NameOf(x) = NameOf(y) => x = y
    BY DEF NameOf
  <2> QED
    BY <1>1, <1>3, <2>1 DEF SessionNames
<1>5. ASSUME NEW n, Owned(n), Untouched(sessions[sid]) \/ n # NameOf(sid)
      PROVE  Owned(n)'
  <2>1. PICK x \in DOMAIN sessions : NameOf(x) = n /\ ~Untouched(sessions[x])
    BY <1>5 DEF Owned
  <2>2. x \in DOMAIN sessions' /\ NameOf(x)' = n /\ ~Untouched(sessions'[x])
    BY <1>1, <1>3, <1>5, <2>1
  <2> QED
    BY <2>2 DEF Owned, Untouched
<1>6. ASSUME NEW n, Running(n)'
      PROVE  Running(n) /\ n # NameOf(sid)
  <2>1. PICK x \in DOMAIN sessions' : NameOf(x)' = n /\ sessions'[x].state = "running"
    BY <1>6 DEF Running
  <2>2. x \in DOMAIN sessions /\ NameOf(x) = n /\ x # sid
    BY <1>1, <1>3, <2>1
  <2>3. n # NameOf(sid)
    BY <2>2 DEF NameOf
  <2> QED
    BY <1>1, <2>1, <2>2, <2>3 DEF Running
<1> QED
  BY <1>2, <1>3, <1>4, <1>5, <1>6

LEMMA AddKeeps ==
    ASSUME SessionsShape, NEW sid, NEW s \in SessionRecords, AddSession(sid, s)
    PROVE  /\ SessionsShape' /\ SessionNames' = SessionNames \cup {<<sid, s.epoch>>}
           /\ \A x \in DOMAIN sessions : NameOf(x)' = NameOf(x)
           /\ \A n : Owned(n) => Owned(n)'
           /\ s.state # "running" => \A n : Running(n)' => Running(n)
<1>1. /\ DOMAIN sessions' = DOMAIN sessions \cup {sid} /\ sid \in Sids \ DOMAIN sessions
      /\ sessions'[sid] = s /\ Cardinality(DOMAIN sessions) < MaxSessions
      /\ \A x \in DOMAIN sessions : sessions'[x] = sessions[x]
  BY DEF AddSession
<1>2. SessionsShape'
  <2>1. /\ IsFiniteSet(DOMAIN sessions \cup {sid})
        /\ Cardinality(DOMAIN sessions \cup {sid}) <= MaxSessions
    BY <1>1, OneMore, Bounds DEF SessionsShape
  <2>2. DOMAIN sessions' \subseteq Sids /\ \A x \in DOMAIN sessions' : sessions'[x] \in SessionRecords
    BY <1>1 DEF SessionsShape
  <2> QED
    BY <1>1, <2>1, <2>2 DEF SessionsShape
<1>3. NameOf(sid)' = <<sid, s.epoch>> /\ \A x \in DOMAIN sessions : NameOf(x)' = NameOf(x)
  BY <1>1 DEF NameOf
<1>4. SessionNames' = SessionNames \cup {<<sid, s.epoch>>}
  BY <1>1, <1>3 DEF SessionNames
<1>5. ASSUME NEW n, Owned(n)
      PROVE  Owned(n)'
  <2>1. PICK x \in DOMAIN sessions : NameOf(x) = n /\ ~Untouched(sessions[x])
    BY <1>5 DEF Owned
  <2>2. x \in DOMAIN sessions' /\ NameOf(x)' = n /\ ~Untouched(sessions'[x])
    BY <1>1, <1>3, <2>1
  <2> QED
    BY <2>2 DEF Owned, Untouched
<1>6. ASSUME s.state # "running", NEW n, Running(n)'
      PROVE  Running(n)
  <2>1. PICK x \in DOMAIN sessions' : NameOf(x)' = n /\ sessions'[x].state = "running"
    BY <1>6 DEF Running
  <2>2. x \in DOMAIN sessions /\ NameOf(x) = n
    BY <1>1, <1>3, <1>6, <2>1
  <2> QED
    BY <1>1, <2>1, <2>2 DEF Running
<1> QED
  BY <1>2, <1>3, <1>4, <1>5, <1>6

\* A step that leaves the containers and the watchdog alone.
LEMMA BoxesKept ==
    ASSUME RemoteInv, UNCHANGED <<watched, expired, wstep, box, left>>,
           mode' = "serving" => mode = "serving",
           op.step = "aborted" => op' = op,
           \A n : n \notin left /\ Owned(n) => Owned(n)'
    PROVE  BoxesInv'
<1> SUFFICES ASSUME mode' = "serving", NEW n \in Names \ left, box[n].st # "none"
             PROVE  /\ Owned(n)'
                    /\ box[n].st = "running" =>
                          Watched(n)' \/ (op'.step = "aborted" /\ Name' = n)
  BY DEF BoxesInv
<1>1. /\ Owned(n)
      /\ box[n].st = "running" => Watched(n) \/ (op.step = "aborted" /\ Name = n)
  BY DEF RemoteInv, BoxesInv
<1>2. Watched(n) => Watched(n)'
  BY DEF Watched, InHand
<1>3. op.step = "aborted" => op'.step = "aborted" /\ Name' = Name
  BY DEF Name
<1> QED
  BY <1>1, <1>2, <1>3

\* A step that leaves the containers and the exits alone.
LEMMA CodesKept ==
    ASSUME RemoteInv, UNCHANGED <<box, exits>>, \A n : Running(n)' => Running(n),
           \A x \in DOMAIN sessions' : Told(NameOf(x)', sessions'[x])
    PROVE  CodesInv'
BY DEF RemoteInv, CodesInv, Told

---------------------------------------------------------------------------
(* The steps of the main thread.                                           *)

\* The parts of the invariant that an answer settles by itself.
LEMMA AnswerKeeps ==
    ASSUME RemoteInv, Answered, now' = now, SessionsShape',
           tombs' \in Seq(Tombstones), Len(tombs') <= 2 * MaxSessions
    PROVE  MainShape' /\ WaitingInv' /\ DownInv' /\ ReplaysInv' /\ AnswersInv'
<1>1. op' = NoOp /\ mode' \in {"serving", "closing"} /\ since' \in 0 .. now
  BY DEF Answered
<1>2. MainShape'
  BY <1>1 DEF RemoteInv, MainShape, Ops, Answered
<1>3. WaitingInv' /\ DownInv'
  BY <1>1 DEF WaitingInv, DownInv
<1> QED
  BY <1>2, <1>3 DEF Answered

LEMMA StagesFrom ==
    ASSUME stages' = SessionNames'
    PROVE  StagesInv'
BY DEF StagesInv, SessionNames

LEMMA HandleKeeps ==
    ASSUME RemoteInv, NEW r \in Requests, handle(r)
    PROVE  RemoteInv'
<1>1. /\ mode = "serving" /\ op = NoOp
      /\ UNCHANGED <<now, watched, expired, wstep, box, left, exits>>
      /\ Refused \/ Prepared(r) \/ StoppedEarly(r) \/ CleanedEarly(r) \/ Waits(r)
  BY HandleEffect
<1>2. op.step # "aborted"
  BY <1>1 DEF NoOp
<1>3. SessionsShape /\ stages = SessionNames /\ stages \subseteq Names
  BY <1>1 DEF RemoteInv, MainShape, HostShape, StagesInv, SessionNames
<1>4. stages' \subseteq Names => HostShape'
  BY <1>1 DEF RemoteInv, HostShape
<1>5. \A x \in DOMAIN sessions : Told(NameOf(x), sessions[x])
  BY DEF RemoteInv, CodesInv
<1>6. tombs \in Seq(Tombstones) /\ Len(tombs) <= 2 * MaxSessions
  BY DEF RemoteInv, MainShape
<1>7. CASE Refused
  <2>1. Answered /\ UNCHANGED <<sessions, tombs, stages>>
    BY <1>7 DEF Refused
  <2>2. SessionsShape' /\ SessionNames' = SessionNames /\ \A n : Owned(n) => Owned(n)'
    BY <1>3, <2>1 DEF SessionsShape, SessionNames, Owned, NameOf, Untouched
  <2>3. /\ \A x \in DOMAIN sessions' : Told(NameOf(x)', sessions'[x])
        /\ \A n : Running(n)' => Running(n)
    BY <1>5, <2>1 DEF NameOf, Running
  <2> QED
    BY <1>1, <1>2, <1>3, <1>4, <1>6, <2>1, <2>2, <2>3, AnswerKeeps, StagesFrom,
       BoxesKept, CodesKept DEF RemoteInv
<1>8. CASE Prepared(r)
  <2>1. Answered /\ UNCHANGED tombs /\ stages' = stages \cup {<<r.sid, r.epoch>>}
    BY <1>8 DEF Prepared
  <2>2. PICK s \in SessionRecords : AddSession(r.sid, s) /\ s.epoch = r.epoch /\ s.state = "prepared"
    BY <1>8 DEF Prepared
  <2>3. /\ SessionsShape' /\ SessionNames' = SessionNames \cup {<<r.sid, r.epoch>>}
        /\ \A x \in DOMAIN sessions : NameOf(x)' = NameOf(x)
        /\ \A n : Owned(n) => Owned(n)'
        /\ \A n : Running(n)' => Running(n)
    BY <1>3, <2>2, AddKeeps
  <2>4. ASSUME NEW x \in DOMAIN sessions' PROVE Told(NameOf(x)', sessions'[x])
    <3>1. CASE x = r.sid
      BY <2>2, <3>1 DEF AddSession, Told
    <3>2. CASE x # r.sid
      BY <1>5, <2>2, <2>3, <3>2 DEF AddSession
    <3> QED
      BY <3>1, <3>2
  <2>5. stages' = SessionNames' /\ stages' \subseteq Names
    BY <1>3, <2>1, <2>3, Bounds DEF Names
  <2> QED
    BY <1>1, <1>2, <1>4, <1>6, <2>1, <2>3, <2>4, <2>5, AnswerKeeps, StagesFrom,
       BoxesKept, CodesKept DEF RemoteInv
<1>9. CASE StoppedEarly(r)
  <2>1. Answered /\ UNCHANGED <<tombs, stages>>
    BY <1>9 DEF StoppedEarly
  <2>2. PICK s \in SessionRecords : SetSession(r.sid, s) /\ s.state = "stopped"
    BY <1>9 DEF StoppedEarly
  <2>3. ~Untouched(s)
    BY <2>2 DEF Untouched
  <2>4. /\ SessionsShape' /\ SessionNames' = SessionNames
        /\ \A x \in DOMAIN sessions : NameOf(x)' = NameOf(x)
        /\ \A n : Owned(n) => Owned(n)'
        /\ \A n : Running(n)' => Running(n)
    BY <1>3, <2>2, <2>3, SetKeeps
  <2>5. ASSUME NEW x \in DOMAIN sessions' PROVE Told(NameOf(x)', sessions'[x])
    <3>1. CASE x = r.sid
      BY <2>2, <3>1 DEF SetSession, Told
    <3>2. CASE x # r.sid
      BY <1>5, <2>2, <2>4, <3>2 DEF SetSession
    <3> QED
      BY <3>1, <3>2
  <2> QED
    BY <1>1, <1>2, <1>3, <1>4, <1>6, <2>1, <2>4, <2>5, AnswerKeeps, StagesFrom,
       BoxesKept, CodesKept DEF RemoteInv
<1>10. CASE CleanedEarly(r)
  <2>1. /\ Answered /\ SessionDropped(r.sid) /\ Untouched(sessions[r.sid])
        /\ stages' = stages \ {NameOf(r.sid)}
        /\ tombs' \in Seq(Tombstones) /\ Len(tombs') <= 2 * MaxSessions
    BY <1>10 DEF CleanedEarly
  <2>2. /\ SessionsShape' /\ SessionNames' = SessionNames \ {NameOf(r.sid)}
        /\ \A x \in DOMAIN sessions' : x \in DOMAIN sessions /\ x # r.sid /\ NameOf(x)' = NameOf(x)
        /\ \A n : Owned(n) => Owned(n)'
        /\ \A n : Running(n)' => Running(n)
    BY <1>3, <2>1, DropKeeps
  <2>3. \A x \in DOMAIN sessions' : Told(NameOf(x)', sessions'[x])
    BY <1>5, <2>1, <2>2 DEF SessionDropped
  <2>4. stages' = SessionNames' /\ stages' \subseteq Names
    BY <1>3, <2>1, <2>2
  <2> QED
    BY <1>1, <1>2, <1>4, <2>1, <2>2, <2>3, <2>4, AnswerKeeps, StagesFrom,
       BoxesKept, CodesKept DEF RemoteInv
<1>11. CASE Waits(r)
  <2>1. /\ matching_session(r) /\ ~Known(r) /\ Cardinality(DOMAIN replays) < MaxReplays
        /\ op' \in Ops /\ op' # NoOp /\ op'.req = r
        /\ UNCHANGED <<mode, since, replays, answers, tombs, stages>>
        /\ op'.step \in {"run", "logs", "timed_out", "inspect", "stopped", "cleaned"}
    BY <1>11 DEF Waits
  <2>2. r.sid \in DOMAIN sessions /\ sessions[r.sid].epoch = r.epoch
    BY <2>1 DEF matching_session
  <2>3. /\ SessionsShape' /\ SessionNames' = SessionNames
        /\ \A n : Owned(n) => Owned(n)'
        /\ \A x \in DOMAIN sessions' : Told(NameOf(x)', sessions'[x])
        /\ r.sid \in DOMAIN sessions' /\ sessions'[r.sid].epoch = r.epoch
        /\ op'.step = "run" => sessions'[r.sid].state = "starting"
        /\ op'.step = "inspect" => sessions'[r.sid].state = "running"
        /\ \A n : Running(n)' => Running(n)
    <3>1. CASE op'.step = "run"
      <4>1. PICK s \in SessionRecords : SetSession(r.sid, s) /\ s.state = "starting"
        BY <1>11, <3>1 DEF Waits
      <4>2. ~Untouched(s)
        BY <4>1 DEF Untouched
      <4>3. /\ SessionsShape' /\ SessionNames' = SessionNames
            /\ \A x \in DOMAIN sessions : NameOf(x)' = NameOf(x)
            /\ \A n : Owned(n) => Owned(n)'
            /\ \A n : Running(n)' => Running(n)
        BY <1>3, <4>1, <4>2, SetKeeps
      <4>4. ASSUME NEW x \in DOMAIN sessions' PROVE Told(NameOf(x)', sessions'[x])
        <5>1. CASE x = r.sid
          BY <4>1, <5>1 DEF SetSession, Told
        <5>2. CASE x # r.sid
          BY <1>5, <4>1, <4>3, <5>2 DEF SetSession
        <5> QED
          BY <5>1, <5>2
      <4>5. r.sid \in DOMAIN sessions' /\ sessions'[r.sid].epoch = r.epoch /\ sessions'[r.sid].state = "starting"
        BY <2>2, <4>1 DEF SetSession
      <4> QED
        BY <3>1, <4>3, <4>4, <4>5
    <3>2. CASE op'.step # "run"
      <4>1. sessions' = sessions /\ (op'.step = "inspect" => sessions[r.sid].state = "running")
        BY <1>11, <3>2 DEF Waits
      <4>2. SessionsShape' /\ SessionNames' = SessionNames /\ \A n : Owned(n) => Owned(n)'
        BY <1>3, <4>1 DEF SessionsShape, SessionNames, Owned, NameOf, Untouched
      <4>3. /\ \A x \in DOMAIN sessions' : Told(NameOf(x)', sessions'[x])
            /\ \A n : Running(n)' => Running(n)
        BY <1>5, <4>1 DEF NameOf, Running
      <4> QED
        BY <2>2, <3>2, <4>1, <4>2, <4>3
    <3> QED
      BY <3>1, <3>2
  <2>4. MainShape'
    BY <1>1, <2>1, <2>3 DEF RemoteInv, MainShape
  <2>5. WaitingInv'
    BY <1>1, <2>1, <2>3 DEF WaitingInv, matching_session, Known, Session
  <2>6. DownInv'
    BY <1>1, <2>1 DEF DownInv
  <2>7. ReplaysInv' /\ AnswersInv'
    BY <1>1, <2>1 DEF RemoteInv, ReplaysInv, AnswersInv, Told
  <2>8. stages' = SessionNames' /\ stages' \subseteq Names
    BY <1>3, <2>1, <2>3
  <2> QED
    BY <1>1, <1>2, <1>4, <2>1, <2>3, <2>4, <2>5, <2>6, <2>7, <2>8, StagesFrom,
       BoxesKept, CodesKept DEF RemoteInv
<1> QED
  BY <1>1, <1>7, <1>8, <1>9, <1>10, <1>11

\* What the request that waits for docker may rely on.
LEMMA WaitingFacts ==
    ASSUME RemoteInv, op.step # "none"
    PROVE  /\ op # NoOp /\ mode = "serving" /\ op.req \in Requests /\ op.deadline \in Nat
           /\ op.step \in Commands /\ op \in [step : Commands, req : Requests, deadline : Nat]
           /\ matching_session(op.req) /\ ~Known(op.req)
           /\ Cardinality(DOMAIN replays) < MaxReplays
           /\ op.req.sid \in DOMAIN sessions /\ op.req.sid \in Sids
           /\ Session = sessions[op.req.sid] /\ Session \in SessionRecords
           /\ Session.epoch = op.req.epoch
           /\ Name = NameOf(op.req.sid) /\ Name = <<op.req.sid, op.req.epoch>>
           /\ Name \in Names /\ box[Name] \in Boxes
           /\ Told(<<op.req.sid, op.req.epoch>>, Session)
<1>1. op # NoOp
  BY DEF NoOp
<1>2. op \in [step : Commands, req : Requests, deadline : Nat]
  BY <1>1 DEF RemoteInv, MainShape, Ops
<1>3. op.req \in Requests /\ op.deadline \in Nat /\ op.step \in Commands
  BY <1>2
<1>4. /\ mode = "serving" /\ matching_session(op.req) /\ ~Known(op.req)
      /\ Cardinality(DOMAIN replays) < MaxReplays
  BY <1>1 DEF RemoteInv, WaitingInv
<1>5. /\ op.req.sid \in DOMAIN sessions /\ op.req.sid \in Sids
      /\ sessions[op.req.sid] \in SessionRecords
      /\ sessions[op.req.sid].epoch = op.req.epoch
      /\ NameOf(op.req.sid) = <<op.req.sid, op.req.epoch>>
      /\ Told(<<op.req.sid, op.req.epoch>>, sessions[op.req.sid])
  BY <1>3, <1>4, MatchingSession
<1>6. Name = <<op.req.sid, op.req.epoch>> /\ Session = sessions[op.req.sid]
  BY DEF Name, Session
<1>7. Name \in Names
  BY <1>3, <1>6, Bounds DEF Names
<1>8. box[Name] \in Boxes
  BY <1>7 DEF RemoteInv, HostShape
<1> QED
  BY <1>1, <1>2, <1>3, <1>4, <1>5, <1>6, <1>7, <1>8

\* The session of the request changes, the request is answered or goes on.
LEMMA SessionKeeps ==
    ASSUME RemoteInv, op.step # "none", NEW s \in SessionRecords, s.epoch = Session.epoch,
           sessions' = [sessions EXCEPT ![op.req.sid] = s],
           Told(<<op.req.sid, op.req.epoch>>, s)
    PROVE  /\ SetSession(op.req.sid, s) /\ SessionsShape' /\ SessionNames' = SessionNames
           /\ \A x \in DOMAIN sessions' : Told(NameOf(x)', sessions'[x])
           /\ (Untouched(s) => Untouched(Session)) => \A n : Owned(n) => Owned(n)'
           /\ ~Untouched(s) => \A n : n = Name => Owned(n)'
           /\ \A n : Running(n)' /\ (s.state # "running" \/ n # Name) => Running(n) /\ n # Name
           /\ Session.state = "running" => \A n : Running(n)' => Running(n)
<1> DEFINE sid == op.req.sid
<1>1. /\ sid \in DOMAIN sessions /\ Session = sessions[sid] /\ SessionsShape
      /\ Name = NameOf(sid) /\ Name = <<op.req.sid, op.req.epoch>>
  BY WaitingFacts DEF RemoteInv, MainShape
<1>2. SetSession(sid, s)
  BY <1>1 DEF SetSession
<1>3. /\ SessionsShape' /\ SessionNames' = SessionNames
      /\ \A x \in DOMAIN sessions : NameOf(x)' = NameOf(x)
      /\ (Untouched(s) => Untouched(sessions[sid])) => \A n : Owned(n) => Owned(n)'
      /\ \A n : Running(n)' /\ (s.state # "running" \/ n # NameOf(sid)) => Running(n) /\ n # NameOf(sid)
  BY <1>1, <1>2, SetKeeps
<1>4. /\ DOMAIN sessions' = DOMAIN sessions /\ sessions'[sid] = s
      /\ \A x \in DOMAIN sessions \ {sid} : sessions'[x] = sessions[x]
  BY <1>2 DEF SetSession
<1>5. ASSUME NEW x \in DOMAIN sessions' PROVE Told(NameOf(x)', sessions'[x])
  <2>1. CASE x = sid
    BY <1>1, <1>3, <1>4, <2>1, ZenonT(60)
  <2>2. CASE x # sid
    BY <1>3, <1>4, <2>2 DEF RemoteInv, CodesInv
  <2> QED
    BY <2>1, <2>2
<1>6. ASSUME ~Untouched(s)
      PROVE  \E x \in DOMAIN sessions' : NameOf(x)' = Name /\ ~Untouched(sessions'[x])
  BY <1>1, <1>3, <1>4, <1>6
<1>7. ASSUME ~Untouched(s), NEW n, n = Name
      PROVE  Owned(n)'
  BY <1>6, <1>7 DEF Owned, Untouched
<1>8. Session.state = "running" => Running(Name)
  BY <1>1 DEF Running
<1> QED
  BY <1>1, <1>2, <1>3, <1>5, <1>7, <1>8

\* An answer without a change of the session.
LEMMA FailureKeeps ==
    ASSUME RemoteInv, op.step \in {"logs", "inspect"},
           UNCHANGED <<now, sessions, tombs, watched, expired, wstep, box, stages, left, exits>>,
           NEW result, Honest(op.req, result), Finish(op.req, op.deadline, result)
    PROVE  RemoteInv'
<1>1. op.step # "none" /\ op.step # "aborted"
  OBVIOUS
<1>2. Answered
  BY <1>1, WaitingFacts, FinishAnswers
<1>3. SessionsShape /\ stages = SessionNames /\ stages \subseteq Names
  BY <1>1, WaitingFacts DEF RemoteInv, MainShape, HostShape, StagesInv, SessionNames
<1>4. SessionsShape' /\ SessionNames' = SessionNames /\ \A n : Owned(n) => Owned(n)'
  BY <1>3 DEF SessionsShape, SessionNames, Owned, NameOf, Untouched
<1>5. /\ \A x \in DOMAIN sessions' : Told(NameOf(x)', sessions'[x])
      /\ \A n : Running(n)' => Running(n)
  BY DEF NameOf, Running, RemoteInv, CodesInv
<1>6. HostShape'
  BY DEF RemoteInv, HostShape
<1>7. tombs' \in Seq(Tombstones) /\ Len(tombs') <= 2 * MaxSessions
  BY DEF RemoteInv, MainShape
<1>8. mode = "serving"
  BY <1>1, WaitingFacts
<1> QED
  BY <1>1, <1>2, <1>3, <1>4, <1>5, <1>6, <1>7, <1>8, AnswerKeeps, StagesFrom,
     BoxesKept, CodesKept DEF RemoteInv

\* The request goes on with its next command.
LEMMA NextCommand ==
    ASSUME RemoteInv, op.step # "none", NEW step \in Commands \ {"inspect"},
           op' = [op EXCEPT !.step = step],
           UNCHANGED <<now, tombs, exits, mode, since, replays, answers>>, SessionsShape',
           op.req.sid \in DOMAIN sessions' /\ sessions'[op.req.sid].epoch = Session.epoch,
           step \in {"run", "aborted"} => sessions'[op.req.sid].state = "starting",
           step = "finished" => sessions'[op.req.sid].state = "finished"
    PROVE  /\ MainShape' /\ WaitingInv' /\ DownInv' /\ ReplaysInv' /\ AnswersInv'
           /\ op'.step = step /\ Name' = Name
<1>1. /\ op' \in [step : Commands, req : Requests, deadline : Nat]
      /\ op'.step = step /\ op'.req = op.req
  BY WaitingFacts
<1>2. Name' = Name
  BY <1>1 DEF Name
<1>3. MainShape'
  BY <1>1 DEF RemoteInv, MainShape, Ops
<1>4. WaitingInv'
  BY <1>1, WaitingFacts DEF WaitingInv, matching_session, Known, Session
<1>5. DownInv'
  BY WaitingFacts DEF DownInv
<1>6. ReplaysInv' /\ AnswersInv'
  BY DEF RemoteInv, ReplaysInv, AnswersInv, Told
<1> QED
  BY <1>1, <1>2, <1>3, <1>4, <1>5, <1>6

LEMMA AppendWatched ==
    ASSUME RemoteInv, op.step # "none", NEW end \in Nat
    PROVE  /\ watch_session(end) \in Seq(WatchRecords)
           /\ \E w \in Range(watch_session(end)) : w.name = Name
           /\ Range(watched) \subseteq Range(watch_session(end))
<1> DEFINE w == [sid |-> op.req.sid, name |-> Name, deadline |-> end]
<1>1. w \in WatchRecords /\ w.name = Name
  BY WaitingFacts DEF WatchRecords
<1>2. watch_session(end) = Append(watched, w)
  BY DEF watch_session
<1>3. watched \in Seq(WatchRecords)
  BY DEF RemoteInv, HostShape
<1> HIDE DEF w
<1>4. /\ Append(watched, w) \in Seq(WatchRecords)
      /\ Range(Append(watched, w)) = Range(watched) \cup {w}
  BY <1>1, <1>3, AppendRange
<1> QED
  BY <1>1, <1>2, <1>4

LEMMA RunKeeps ==
    ASSUME RemoteInv, docker_run
    PROVE  RemoteInv'
<1>1. op.step = "run" /\ op.step # "none"
  BY DEF docker_run
<1>2. UNCHANGED <<now, tombs, expired, wstep, stages, left, exits, sent>>
  BY DEF docker_run
<1>3. /\ SessionsShape /\ stages = SessionNames /\ stages \subseteq Names
      /\ tombs \in Seq(Tombstones) /\ Len(tombs) <= 2 * MaxSessions
      /\ box \in [Names -> Boxes] /\ mode = "serving" /\ Name \in Names
  BY <1>1, WaitingFacts DEF RemoteInv, MainShape, HostShape, StagesInv, SessionNames
<1>4. Session.state = "starting" /\ ~Untouched(Session)
  BY <1>1, WaitingFacts DEF RemoteInv, WaitingInv, Untouched
<1> DEFINE new == [st |-> "running", code |-> NoCode, out |-> 0]
<1>5. new \in Boxes /\ new.st = "running" /\ new.code = NoCode
  BY DEF Boxes, NoCode
<1>6. ASSUME box' = Run(Name)
      PROVE  /\ box' \in [Names -> Boxes] /\ box'[Name].st = "running" /\ box'[Name].code = NoCode
             /\ \A n \in Names : n # Name => box'[n] = box[n]
  <2>1. box' = [box EXCEPT ![Name] = new]
    BY <1>6 DEF Run
  <2> HIDE DEF new
  <2> QED
    BY <1>3, <1>5, <2>1
<1>7. ASSUME box' = Run(Name), \A x \in DOMAIN sessions' : Told(NameOf(x)', sessions'[x]),
             \A n : Running(n)' /\ n # Name => Running(n)
      PROVE  CodesInv'
  <2>1. \A n \in Names : Running(n)' /\ box'[n].code # NoCode => <<n, box'[n].code>> \in exits
    BY <1>6, <1>7 DEF RemoteInv, CodesInv
  <2> QED
    BY <1>2, <1>7, <2>1 DEF CodesInv, Told
<1>8. CASE start_succeeds
  <2> DEFINE end == IF op.deadline < now + MaxTtl THEN op.deadline ELSE now + MaxTtl
             s == [Session EXCEPT !.started = TRUE, !.state = "running", !.deadline = end]
  <2>1. end \in Nat
    BY <1>1, WaitingFacts, Bounds DEF RemoteInv, MainShape
  <2>2. /\ box' = Run(Name) /\ sessions' = [sessions EXCEPT ![op.req.sid] = s]
        /\ watched' = watch_session(end) /\ Finish(op.req, op.deadline, project(s))
    BY <1>8 DEF start_succeeds
  <2> HIDE DEF end
  <2>3. s \in SessionRecords /\ s.epoch = Session.epoch /\ s.state = "running"
    BY <1>1, <2>1, WaitingFacts DEF SessionRecords, States
  <2> HIDE DEF s
  <2>4. ~Untouched(s) /\ Told(<<op.req.sid, op.req.epoch>>, s)
    BY <2>3 DEF Untouched, Told
  <2>5. Answered
    BY <1>1, <1>2, <2>2, <2>4, WaitingFacts, ProjectIsHonest, FinishAnswers
  <2>6. /\ SessionsShape' /\ SessionNames' = SessionNames
        /\ \A x \in DOMAIN sessions' : Told(NameOf(x)', sessions'[x])
        /\ \A n : Owned(n) => Owned(n)'
        /\ \A n : n = Name => Owned(n)'
        /\ \A n : Running(n)' /\ n # Name => Running(n)
    BY <1>1, <2>2, <2>3, <2>4, SessionKeeps
  <2>7. /\ watched' \in Seq(WatchRecords)
        /\ \E w \in Range(watched') : w.name = Name
        /\ Range(watched) \subseteq Range(watched')
    BY <1>1, <2>1, <2>2, AppendWatched
  <2>8. HostShape'
    BY <1>2, <1>6, <2>2, <2>7 DEF RemoteInv, HostShape
  <2>9. ASSUME NEW n \in Names \ left, box'[n].st # "none"
        PROVE  Owned(n)' /\ (box'[n].st = "running" => Watched(n)')
    <3>1. CASE n = Name
      BY <2>6, <2>7, <3>1 DEF Watched
    <3>2. CASE n # Name
      <4>1. box[n].st # "none" /\ box'[n] = box[n]
        BY <1>6, <2>2, <2>9, <3>2
      <4>2. Owned(n) /\ (box[n].st = "running" => Watched(n))
        BY <1>1, <1>3, <4>1 DEF RemoteInv, BoxesInv
      <4>3. Watched(n) => Watched(n)'
        BY <1>2, <2>7 DEF Watched, InHand
      <4> QED
        BY <2>6, <4>1, <4>2, <4>3
    <3> QED
      BY <3>1, <3>2
  <2>10. BoxesInv'
    BY <1>2, <2>9 DEF BoxesInv
  <2>11. CodesInv'
    BY <1>7, <2>2, <2>6
  <2>12. stages' = SessionNames'
    BY <1>2, <1>3, <2>6
  <2>13. MainShape' /\ WaitingInv' /\ DownInv' /\ ReplaysInv' /\ AnswersInv'
    BY <1>2, <1>3, <2>5, <2>6, AnswerKeeps
  <2> QED
    BY <2>8, <2>10, <2>11, <2>12, <2>13, StagesFrom DEF RemoteInv
<1>9. CASE start_fails
  <2>1. /\ box' = box \/ (box[Name].st = "none" /\ box' = Run(Name))
        /\ op' = [op EXCEPT !.step = "aborted"]
        /\ UNCHANGED <<sessions, watched, mode, since, replays, answers>>
    BY <1>9 DEF start_fails
  <2>2. SessionsShape' /\ SessionNames' = SessionNames /\ \A n : Owned(n) => Owned(n)'
    BY <1>3, <2>1 DEF SessionsShape, SessionNames, Owned, NameOf, Untouched
  <2>3. /\ \A x \in DOMAIN sessions' : Told(NameOf(x)', sessions'[x])
        /\ \A n : Running(n)' => Running(n)
    BY <1>2, <2>1 DEF NameOf, Running, RemoteInv, CodesInv
  <2>4. /\ op.req.sid \in DOMAIN sessions' /\ sessions'[op.req.sid].epoch = Session.epoch
        /\ sessions'[op.req.sid].state = "starting"
    BY <1>1, <1>4, <2>1, WaitingFacts
  <2>5. /\ MainShape' /\ WaitingInv' /\ DownInv' /\ ReplaysInv' /\ AnswersInv'
        /\ op'.step = "aborted" /\ Name' = Name
    BY <1>1, <1>2, <2>1, <2>2, <2>4, NextCommand DEF Commands
  <2>6. box' \in [Names -> Boxes]
    BY <1>3, <1>6, <2>1
  <2>7. HostShape'
    BY <1>2, <2>1, <2>6 DEF RemoteInv, HostShape
  <2>8. CodesInv'
    <3>1. CASE box' = box
      BY <1>2, <2>3, <3>1, CodesKept
    <3>2. CASE box' = Run(Name)
      BY <1>7, <2>3, <3>2
    <3> QED
      BY <2>1, <3>1, <3>2
  <2>9. Owned(Name)
    BY <1>1, <1>4, WaitingFacts DEF Owned
  <2>10. ASSUME NEW n \in Names \ left, box'[n].st # "none"
         PROVE  Owned(n)' /\ (box'[n].st = "running" => Watched(n)' \/ n = Name)
    <3>1. CASE n = Name
      BY <2>2, <2>9, <3>1
    <3>2. CASE n # Name
      <4>1. box[n].st # "none" /\ box'[n] = box[n]
        BY <1>6, <2>1, <2>10, <3>2
      <4>2. Owned(n) /\ (box[n].st = "running" => Watched(n))
        BY <1>1, <1>3, <4>1 DEF RemoteInv, BoxesInv
      <4>3. Watched(n) => Watched(n)'
        BY <1>2, <2>1 DEF Watched, InHand
      <4> QED
        BY <2>2, <4>1, <4>2, <4>3
    <3> QED
      BY <3>1, <3>2
  <2>11. BoxesInv'
    BY <1>2, <2>5, <2>10 DEF BoxesInv
  <2>12. stages' = SessionNames'
    BY <1>2, <1>3, <2>2
  <2> QED
    BY <2>5, <2>7, <2>8, <2>11, <2>12, StagesFrom DEF RemoteInv
<1> QED
  BY <1>8, <1>9 DEF docker_run

\* A docker command that leaves the containers alone and changes the session.
LEMMA HostStays ==
    ASSUME RemoteInv, op.step \in {"logs", "inspect"},
           UNCHANGED <<now, tombs, watched, expired, wstep, box, stages, left, exits>>,
           SessionsShape', SessionNames' = SessionNames,
           \A x \in DOMAIN sessions' : Told(NameOf(x)', sessions'[x]),
           \A n : Owned(n) => Owned(n)', \A n : Running(n)' => Running(n)
    PROVE  HostShape' /\ CodesInv' /\ StagesInv' /\ BoxesInv'
<1>1. op.step # "none" /\ op.step # "aborted"
  OBVIOUS
<1>2. stages = SessionNames /\ mode = "serving"
  BY <1>1, WaitingFacts DEF RemoteInv, StagesInv, SessionNames
<1>3. HostShape'
  BY DEF RemoteInv, HostShape
<1> QED
  BY <1>1, <1>2, <1>3, StagesFrom, BoxesKept, CodesKept

LEMMA LogsKeeps ==
    ASSUME RemoteInv, docker_logs
    PROVE  RemoteInv'
<1>1. op.step = "logs" /\ op.step # "none"
  BY DEF docker_logs
<1>2. UNCHANGED <<now, tombs, watched, expired, wstep, box, stages, left, exits>>
  BY DEF docker_logs
<1>3. /\ tombs \in Seq(Tombstones) /\ Len(tombs) <= 2 * MaxSessions
      /\ Session \in SessionRecords /\ box[Name] \in Boxes /\ SessionsShape
  BY <1>1, WaitingFacts DEF RemoteInv, MainShape
<1>4. CASE Finish(op.req, op.deadline, err("docker_failure")) /\ UNCHANGED sessions
  BY <1>1, <1>2, <1>4, ErrorIsHonest, FailureKeeps
<1> DEFINE s == [Session EXCEPT !.out = box[Name].out]
<1>5. CASE /\ sessions' = [sessions EXCEPT ![op.req.sid] = s]
           /\ Finish(op.req, op.deadline, project_read(s, op.req))
  <2>1. /\ s \in SessionRecords /\ s.epoch = Session.epoch /\ s.state = Session.state
        /\ s.exit = Session.exit /\ s.started = Session.started
    BY <1>3 DEF SessionRecords, Boxes
  <2>2. sessions' = [sessions EXCEPT ![op.req.sid] = s]
    BY <1>5
  <2>3. Finish(op.req, op.deadline, project_read(s, op.req))
    BY <1>5
  <2> HIDE DEF s
  <2>4. Told(<<op.req.sid, op.req.epoch>>, s) /\ (Untouched(s) => Untouched(Session))
    BY <1>1, <2>1, WaitingFacts DEF Told, Untouched
  <2>5. Answered
    BY <1>1, <1>2, <2>3, <2>4, WaitingFacts, ProjectIsHonest, FinishAnswers
  <2>6. /\ SessionsShape' /\ SessionNames' = SessionNames
        /\ \A x \in DOMAIN sessions' : Told(NameOf(x)', sessions'[x])
        /\ \A n : Owned(n) => Owned(n)'
        /\ \A n : Running(n)' => Running(n)
    BY <1>1, <2>1, <2>2, <2>4, SessionKeeps
  <2>7. HostShape' /\ CodesInv' /\ StagesInv' /\ BoxesInv'
    BY <1>1, <1>2, <2>6, HostStays
  <2>8. MainShape' /\ WaitingInv' /\ DownInv' /\ ReplaysInv' /\ AnswersInv'
    BY <1>2, <1>3, <2>5, <2>6, AnswerKeeps
  <2> QED
    BY <2>7, <2>8 DEF RemoteInv
<1>6. CASE /\ op' = [op EXCEPT !.step = "output_limited"]
           /\ UNCHANGED <<sessions, mode, since, replays, answers>>
  <2>1. SessionsShape' /\ SessionNames' = SessionNames /\ \A n : Owned(n) => Owned(n)'
    BY <1>3, <1>6 DEF SessionsShape, SessionNames, Owned, NameOf, Untouched
  <2>2. /\ \A x \in DOMAIN sessions' : Told(NameOf(x)', sessions'[x])
        /\ \A n : Running(n)' => Running(n)
    BY <1>2, <1>6 DEF NameOf, Running, RemoteInv, CodesInv
  <2>3. op.req.sid \in DOMAIN sessions' /\ sessions'[op.req.sid].epoch = Session.epoch
    BY <1>1, <1>6, WaitingFacts
  <2>4. /\ MainShape' /\ WaitingInv' /\ DownInv' /\ ReplaysInv' /\ AnswersInv'
    BY <1>1, <1>2, <1>6, <2>1, <2>3, NextCommand DEF Commands
  <2>5. HostShape' /\ CodesInv' /\ StagesInv' /\ BoxesInv'
    BY <1>1, <1>2, <2>1, <2>2, HostStays
  <2> QED
    BY <2>4, <2>5 DEF RemoteInv
<1> QED
  BY <1>4, <1>5, <1>6 DEF docker_logs

LEMMA InspectKeeps ==
    ASSUME RemoteInv, docker_inspect
    PROVE  RemoteInv'
<1>1. op.step = "inspect" /\ op.step # "none"
  BY DEF docker_inspect
<1>2. UNCHANGED <<now, tombs, watched, expired, wstep, box, stages, left, exits>>
  BY DEF docker_inspect
<1>3. /\ Session \in SessionRecords /\ box[Name] \in Boxes /\ Name \in Names
      /\ Name = <<op.req.sid, op.req.epoch>> /\ Session = sessions[op.req.sid]
      /\ op.req.sid \in DOMAIN sessions
      /\ Told(<<op.req.sid, op.req.epoch>>, Session) /\ Running(Name)
  <2>1. Session.state = "running"
    BY <1>1, WaitingFacts DEF RemoteInv, WaitingInv
  <2> QED
    BY <1>1, <2>1, WaitingFacts DEF Running
<1>4. CASE Finish(op.req, op.deadline, err("docker_failure")) /\ UNCHANGED sessions
  BY <1>1, <1>2, <1>4, ErrorIsHonest, FailureKeeps
<1>5. CASE Finish(op.req, op.deadline, project(Session)) /\ UNCHANGED sessions
  BY <1>1, <1>2, <1>3, <1>5, ProjectIsHonest, FailureKeeps
<1>6. CASE /\ inspected # NoCode
           /\ sessions' = [sessions EXCEPT ![op.req.sid].exit = inspected,
                                           ![op.req.sid].state = "finished"]
           /\ op' = [op EXCEPT !.step = "finished"]
           /\ UNCHANGED <<mode, since, replays, answers>>
  <2> DEFINE s == [Session EXCEPT !.exit = inspected, !.state = "finished"]
  <2>1. inspected \in Int /\ inspected = box[Name].code
    BY <1>3 DEF inspected, Boxes
  <2> HIDE DEF inspected
  <2>2. /\ s \in SessionRecords /\ s.epoch = Session.epoch /\ s.state = "finished"
        /\ s.exit = inspected
    BY <1>3, <2>1 DEF SessionRecords, States
  <2>3. sessions' = [sessions EXCEPT ![op.req.sid] = s]
    BY <1>3, <1>6
  <2> HIDE DEF s
  <2>4. Told(<<op.req.sid, op.req.epoch>>, s) /\ ~Untouched(s)
    BY <1>3, <1>6, <2>1, <2>2 DEF Told, Untouched, RemoteInv, CodesInv
  <2>5. /\ SetSession(op.req.sid, s) /\ SessionsShape' /\ SessionNames' = SessionNames
        /\ \A x \in DOMAIN sessions' : Told(NameOf(x)', sessions'[x])
        /\ \A n : Owned(n) => Owned(n)'
        /\ \A n : Running(n)' => Running(n)
    BY <1>1, <2>2, <2>3, <2>4, SessionKeeps
  <2>6. /\ op.req.sid \in DOMAIN sessions' /\ sessions'[op.req.sid].epoch = Session.epoch
        /\ sessions'[op.req.sid].state = "finished"
    BY <1>3, <2>2, <2>5 DEF SetSession
  <2>7. MainShape' /\ WaitingInv' /\ DownInv' /\ ReplaysInv' /\ AnswersInv'
    BY <1>1, <1>2, <1>6, <2>5, <2>6, NextCommand DEF Commands
  <2>8. HostShape' /\ CodesInv' /\ StagesInv' /\ BoxesInv'
    BY <1>1, <1>2, <2>5, HostStays
  <2> QED
    BY <2>7, <2>8 DEF RemoteInv
<1> QED
  BY <1>4, <1>5, <1>6 DEF docker_inspect

\* A cleanup that is told to remove a container removes it or leaves it to
\* the next one, and touches no other.
LEMMA CleanupEffect ==
    ASSUME box \in [Names -> Boxes], left \subseteq Names, NEW n \in Names,
           cleanup_container_name(n)
    PROVE  /\ box' \in [Names -> Boxes] /\ left' \subseteq Names
           /\ \A m \in Names : m # n => box'[m] = box[m] /\ (m \in left' <=> m \in left)
           /\ box'[n].st = "none" \/ n \in left'
<1>1. NoBox \in Boxes /\ NoBox.st = "none" /\ NoBox.code = NoCode
  BY DEF NoBox, Boxes, NoCode
<1>2. CASE box' = Removed(n) /\ left' = left \ {n}
  <2>1. box' = [box EXCEPT ![n] = NoBox]
    BY <1>2 DEF Removed
  <2>2. box'[n] = NoBox /\ box' \in [Names -> Boxes] /\ \A m \in Names : m # n => box'[m] = box[m]
    BY <1>1, <2>1
  <2> QED
    BY <1>1, <1>2, <2>2
<1>3. CASE box' = box /\ left' = left \cup {n}
  BY <1>3
<1>4. CASE (\E code \in StopCodes : Stops(n, code)) /\ left' = left \cup {n}
  <2>1. PICK code \in StopCodes : box' = [box EXCEPT ![n] = Ended(@, code)]
    BY <1>4 DEF Stops
  <2>2. Ended(box[n], code) \in Boxes
    BY DEF StopCodes, Ended, Boxes
  <2>3. box' \in [Names -> Boxes] /\ \A m \in Names : m # n => box'[m] = box[m]
    BY <2>1, <2>2
  <2> QED
    BY <1>4, <2>3
<1> QED
  BY <1>2, <1>3, <1>4 DEF cleanup_container_name

\* Only the records of that container are dropped.
LEMMA UnwatchFacts ==
    ASSUME RemoteInv, NEW n
    PROVE  /\ unwatch_session(n) \in Seq(WatchRecords)
           /\ \A w \in Range(watched) : w.name # n => w \in Range(unwatch_session(n))
<1> DEFINE S == {w \in Range(watched) : w.name # n}
<1>1. Those(watched, S) \in Seq(WatchRecords) /\ Range(Those(watched, S)) = Range(watched) \cap S
  <2> HIDE DEF S
  <2>1. watched \in Seq(WatchRecords)
    BY DEF RemoteInv, HostShape
  <2> QED
    BY <2>1, ThoseFacts
<1>2. unwatch_session(n) = Those(watched, S)
  BY DEF unwatch_session
<1> QED
  BY <1>1, <1>2

LEMMA CleanupKeeps ==
    ASSUME RemoteInv, cleanup_container
    PROVE  RemoteInv'
<1> DEFINE after == [Session EXCEPT !.started = FALSE,
                                    !.state = IF op.step = "aborted" THEN @ ELSE op.step]
           result == CASE op.step = "aborted" -> err("docker_failure")
                       [] op.step = "output_limited" -> err("output_limit")
                       [] OTHER -> project(after)
<1>1. /\ op.step \in {"aborted", "output_limited", "timed_out", "finished", "stopped", "cleaned"}
      /\ op.step # "none"
  BY DEF cleanup_container
<1>2. /\ watched' = unwatch_session(Name) /\ cleanup_container_name(Name) /\ Cleaned
      /\ UNCHANGED <<now, expired, wstep, exits>>
  BY DEF cleanup_container
<1>3. /\ SessionsShape /\ stages = SessionNames /\ stages \subseteq Names
      /\ tombs \in Seq(Tombstones) /\ Len(tombs) <= 2 * MaxSessions
      /\ box \in [Names -> Boxes] /\ left \subseteq Names /\ mode = "serving"
      /\ Name \in Names /\ Session \in SessionRecords
      /\ Name = NameOf(op.req.sid) /\ Session = sessions[op.req.sid]
      /\ op.req.sid \in DOMAIN sessions /\ op.req.sid \in Sids
      /\ Told(<<op.req.sid, op.req.epoch>>, Session)
  BY <1>1, WaitingFacts DEF RemoteInv, MainShape, HostShape, StagesInv, SessionNames
<1>4. /\ op.step = "aborted" => Session.state = "starting"
      /\ op.step = "finished" => Session.state = "finished"
  BY <1>1, WaitingFacts DEF RemoteInv, WaitingInv
<1>5. /\ after \in SessionRecords /\ after.epoch = Session.epoch /\ after.exit = Session.exit
      /\ after.state = IF op.step = "aborted" THEN Session.state ELSE op.step
  BY <1>1, <1>3 DEF SessionRecords, States
<1>6. /\ Finish(op.req, op.deadline, result)
      /\ op.step = "cleaned" => /\ sessions' = Without(sessions, op.req.sid)
                                /\ stages' = stages \ {Name}
                                /\ tombs' = add_tombstone(after, op.req.sid, "cleaned")
      /\ op.step # "cleaned" => /\ sessions' = [sessions EXCEPT ![op.req.sid] = after]
                                /\ UNCHANGED <<stages, tombs>>
  BY <1>2 DEF Cleaned
<1>7. ~Untouched(after) /\ Told(<<op.req.sid, op.req.epoch>>, after) /\ after.state # "running"
  <2> HIDE DEF after
  <2>1. after.state # "prepared" /\ after.state # "running"
    BY <1>1, <1>4, <1>5
  <2>2. after.state = "finished" => Session.state = "finished"
    BY <1>1, <1>4, <1>5
  <2> QED
    BY <1>3, <1>5, <2>1, <2>2 DEF Untouched, Told
<1>8. Honest(op.req, result)
  <2> HIDE DEF after
  <2>1. Honest(op.req, project(after))
    BY <1>7, ProjectIsHonest
  <2>2. result = err("docker_failure") \/ result = err("output_limit") \/ result = project(after)
    BY <1>1
  <2> QED
    BY <2>1, <2>2, ErrorIsHonest
<1> HIDE DEF after, result
<1>9. Answered
  BY <1>1, <1>2, <1>6, <1>8, WaitingFacts, FinishAnswers
<1>10. /\ box' \in [Names -> Boxes] /\ left' \subseteq Names
       /\ \A m \in Names : m # Name => box'[m] = box[m] /\ (m \in left' <=> m \in left)
       /\ box'[Name].st = "none" \/ Name \in left'
  BY <1>2, <1>3, CleanupEffect
<1>11. /\ watched' \in Seq(WatchRecords)
       /\ \A w \in Range(watched) : w.name # Name => w \in Range(watched')
  BY <1>2, UnwatchFacts
<1>12. /\ SessionsShape' /\ stages' = SessionNames' /\ stages' \subseteq Names
       /\ \A x \in DOMAIN sessions' : Told(NameOf(x)', sessions'[x])
       /\ \A n : Owned(n) /\ n # Name => Owned(n)'
       /\ \A n : Running(n)' => Running(n) /\ n # Name
       /\ tombs' \in Seq(Tombstones) /\ Len(tombs') <= 2 * MaxSessions
  <2>1. CASE op.step = "cleaned"
    <3>1. SessionDropped(op.req.sid)
      BY <1>3, <1>6, <2>1 DEF SessionDropped, Without
    <3>2. /\ SessionsShape' /\ SessionNames' = SessionNames \ {Name}
          /\ \A x \in DOMAIN sessions' :
                x \in DOMAIN sessions /\ x # op.req.sid /\ NameOf(x)' = NameOf(x)
          /\ \A n : Owned(n) /\ n # Name => Owned(n)'
          /\ \A n : Running(n)' => Running(n) /\ n # Name
      BY <1>3, <3>1, DropKeeps
    <3>3. \A x \in DOMAIN sessions' : Told(NameOf(x)', sessions'[x])
      BY <3>1, <3>2 DEF SessionDropped, RemoteInv, CodesInv
    <3>4. tombs' \in Seq(Tombstones) /\ Len(tombs') <= 2 * MaxSessions
      BY <1>3, <1>5, <1>6, <2>1, TombstonesAreBounded
    <3> QED
      BY <1>3, <1>6, <2>1, <3>2, <3>3, <3>4
  <2>2. CASE op.step # "cleaned"
    <3>1. sessions' = [sessions EXCEPT ![op.req.sid] = after] /\ UNCHANGED <<stages, tombs>>
      BY <1>6, <2>2
    <3>2. /\ SessionsShape' /\ SessionNames' = SessionNames
          /\ \A x \in DOMAIN sessions' : Told(NameOf(x)', sessions'[x])
          /\ \A n : Owned(n) => Owned(n)'
          /\ \A n : Running(n)' => Running(n) /\ n # Name
      BY <1>1, <1>5, <1>7, <3>1, SessionKeeps
    <3> QED
      BY <1>3, <3>1, <3>2
  <2> QED
    BY <2>1, <2>2
<1>13. MainShape' /\ WaitingInv' /\ DownInv' /\ ReplaysInv' /\ AnswersInv'
  BY <1>2, <1>9, <1>12, AnswerKeeps
<1>14. HostShape'
  BY <1>2, <1>10, <1>11, <1>12 DEF RemoteInv, HostShape
<1>15. CodesInv'
  <2>1. \A n \in Names : Running(n)' /\ box'[n].code # NoCode => <<n, box'[n].code>> \in exits
    BY <1>10, <1>12 DEF RemoteInv, CodesInv
  <2> QED
    BY <1>2, <1>12, <2>1 DEF CodesInv, Told
<1>16. ASSUME NEW n \in Names \ left', box'[n].st # "none"
       PROVE  Owned(n)' /\ (box'[n].st = "running" => Watched(n)')
  <2>1. n # Name
    BY <1>10, <1>16
  <2>2. box'[n] = box[n] /\ n \in Names \ left
    BY <1>10, <2>1
  <2>3. Owned(n) /\ (box[n].st = "running" => Watched(n))
    BY <1>3, <1>16, <2>1, <2>2 DEF RemoteInv, BoxesInv
  <2>4. Watched(n) => Watched(n)'
    BY <1>2, <1>11, <2>1 DEF Watched, InHand
  <2> QED
    BY <1>12, <2>1, <2>2, <2>3, <2>4
<1>17. BoxesInv'
  BY <1>16 DEF BoxesInv
<1> QED
  BY <1>12, <1>13, <1>14, <1>15, <1>17, StagesFrom DEF RemoteInv

LEMMA DisconnectKeeps ==
    ASSUME RemoteInv, disconnect_cleanup
    PROVE  RemoteInv'
<1>1. /\ mode = "closing" /\ mode' = "closing"
      /\ UNCHANGED <<now, since, op, replays, expired, wstep, exits, answers>>
  BY DEF disconnect_cleanup
<1>2. PICK sid \in DOMAIN sessions :
        /\ IF Untouched(sessions[sid]) THEN UNCHANGED <<watched, box, left>>
           ELSE watched' = unwatch_session(NameOf(sid)) /\ cleanup_container_name(NameOf(sid))
        /\ stages' = stages \ {NameOf(sid)}
        /\ tombs' = add_tombstone(sessions[sid], sid, "disconnected")
        /\ sessions' = Without(sessions, sid)
  BY DEF disconnect_cleanup
<1>3. /\ SessionsShape /\ stages = SessionNames /\ stages \subseteq Names
      /\ box \in [Names -> Boxes] /\ left \subseteq Names /\ watched \in Seq(WatchRecords)
      /\ sid \in Sids /\ sessions[sid] \in SessionRecords
  BY <1>1 DEF RemoteInv, MainShape, SessionsShape, HostShape, StagesInv, SessionNames
<1>4. NameOf(sid) \in Names
  BY <1>3 DEF NameOf, Names, SessionRecords
<1>5. SessionDropped(sid)
  BY <1>2 DEF SessionDropped, Without
<1>6. /\ SessionsShape' /\ SessionNames' = SessionNames \ {NameOf(sid)}
      /\ \A x \in DOMAIN sessions' : x \in DOMAIN sessions /\ x # sid /\ NameOf(x)' = NameOf(x)
      /\ \A n : Running(n)' => Running(n) /\ n # NameOf(sid)
  BY <1>3, <1>5, DropKeeps
<1>7. \A x \in DOMAIN sessions' : Told(NameOf(x)', sessions'[x])
  BY <1>5, <1>6 DEF SessionDropped, RemoteInv, CodesInv
<1>8. tombs' \in Seq(Tombstones) /\ Len(tombs') <= 2 * MaxSessions
  BY <1>2, <1>3, TombstonesAreBounded
<1>9. /\ box' \in [Names -> Boxes] /\ left' \subseteq Names /\ watched' \in Seq(WatchRecords)
      /\ \A n \in Names : n # NameOf(sid) => box'[n] = box[n]
  <2>1. CASE Untouched(sessions[sid])
    BY <1>2, <1>3, <2>1
  <2>2. CASE ~Untouched(sessions[sid])
    <3>1. watched' \in Seq(WatchRecords)
      BY <1>2, <2>2, UnwatchFacts
    <3>2. /\ box' \in [Names -> Boxes] /\ left' \subseteq Names
          /\ \A m \in Names : m # NameOf(sid) => box'[m] = box[m]
      BY <1>2, <1>3, <1>4, <2>2, CleanupEffect
    <3> QED
      BY <3>1, <3>2
  <2> QED
    BY <2>1, <2>2
<1>10. MainShape'
  BY <1>1, <1>6, <1>8 DEF RemoteInv, MainShape
<1>11. HostShape'
  BY <1>1, <1>2, <1>3, <1>9 DEF RemoteInv, HostShape
<1>12. WaitingInv' /\ DownInv' /\ BoxesInv'
  <2>1. op = NoOp
    BY <1>1 DEF RemoteInv, WaitingInv
  <2> QED
    BY <1>1, <2>1 DEF WaitingInv, DownInv, BoxesInv
<1>13. CodesInv'
  <2>1. \A n \in Names : Running(n)' /\ box'[n].code # NoCode => <<n, box'[n].code>> \in exits
    BY <1>6, <1>9 DEF RemoteInv, CodesInv
  <2> QED
    BY <1>1, <1>7, <2>1 DEF CodesInv, Told
<1>14. ReplaysInv' /\ AnswersInv'
  BY <1>1 DEF RemoteInv, ReplaysInv, AnswersInv, Told
<1>15. stages' = SessionNames'
  BY <1>2, <1>3, <1>6
<1> QED
  BY <1>10, <1>11, <1>12, <1>13, <1>14, <1>15, StagesFrom DEF RemoteInv

---------------------------------------------------------------------------
(* The end and the start of the process.                                   *)

\* The process forgets; containers and directories stay as they are.
LEMMA ForgetKeeps ==
    ASSUME RemoteInv, Forget, now' = now, exits' = exits, HostShape'
    PROVE  RemoteInv'
<1>1. /\ mode' = "down" /\ op' = NoOp /\ sessions' = <<>> /\ tombs' = <<>>
      /\ replays' = <<>> /\ answers' = {} /\ since' = now
  BY DEF Forget
<1>2. DOMAIN sessions' = {} /\ DOMAIN replays' = {}
  BY <1>1
<1>3. IsFiniteSet({}) /\ Cardinality({}) = 0
  BY FS_EmptySet
<1>4. SessionsShape'
  BY <1>2, <1>3, Bounds DEF SessionsShape
<1>5. tombs' \in Seq(Tombstones) /\ Len(tombs') <= 2 * MaxSessions
  BY <1>1, Bounds
<1>6. since' \in 0 .. now' /\ now' \in 0 .. MaxTime
  BY <1>1 DEF RemoteInv, MainShape
<1>7. MainShape'
  BY <1>1, <1>2, <1>3, <1>4, <1>5, <1>6, Bounds DEF MainShape, Ops
<1>8. WaitingInv' /\ DownInv' /\ StagesInv' /\ BoxesInv'
  BY <1>1, <1>2 DEF WaitingInv, DownInv, StagesInv, BoxesInv
<1>9. ReplaysInv' /\ AnswersInv'
  BY <1>1, <1>2 DEF ReplaysInv, AnswersInv
<1>10. CodesInv'
  BY <1>2 DEF CodesInv, Running
<1> QED
  BY <1>7, <1>8, <1>9, <1>10 DEF RemoteInv

LEMMA ExitKeeps ==
    ASSUME RemoteInv, exit
    PROVE  RemoteInv'
<1>1. Forget /\ UNCHANGED <<now, box, stages, left, exits>>
  BY DEF exit
<1>2. watched' = <<>> /\ expired' = <<>> /\ wstep' = "scan"
  BY <1>1 DEF Forget
<1>3. HostShape'
  BY <1>1, <1>2 DEF RemoteInv, HostShape
<1> QED
  BY <1>1, <1>3, ForgetKeeps

LEMMA CrashKeeps ==
    ASSUME RemoteInv, Crash
    PROVE  RemoteInv'
<1>1. /\ Forget /\ UNCHANGED <<now, stages, left, exits>>
      /\ box' = box \/ (op.step = "run" /\ box' = Run(Name))
  BY DEF Crash
<1>2. watched' = <<>> /\ expired' = <<>> /\ wstep' = "scan"
  BY <1>1 DEF Forget
<1>3. box \in [Names -> Boxes]
  BY DEF RemoteInv, HostShape
<1>4. box' \in [Names -> Boxes]
  <2>1. CASE box' = box
    BY <1>3, <2>1
  <2>2. CASE op.step = "run" /\ box' = Run(Name)
    <3> DEFINE new == [st |-> "running", code |-> NoCode, out |-> 0]
    <3>1. new \in Boxes /\ new.code = NoCode
      BY DEF Boxes, NoCode
    <3>2. box' = [box EXCEPT ![Name] = new] /\ Name \in Names
      BY <2>2, WaitingFacts DEF Run
    <3> HIDE DEF new
    <3> QED
      BY <1>3, <3>1, <3>2
  <2> QED
    BY <1>1, <2>1, <2>2
<1>5. HostShape'
  BY <1>1, <1>2, <1>4 DEF RemoteInv, HostShape
<1> QED
  BY <1>1, <1>5, ForgetKeeps

\* A process that is down stays so, or starts over what it finds.
LEMMA StartKeeps ==
    ASSUME RemoteInv, reconcile_startup_refused \/ reconcile_startup
    PROVE  RemoteInv'
<1>0. NoBox \in Boxes /\ NoBox.st = "none" /\ NoBox.code = NoCode
  BY DEF NoBox, Boxes, NoCode
<1>1. mode = "down" /\ DOMAIN sessions = {} /\ DOMAIN replays = {} /\ answers = {} /\ op = NoOp
  BY DEF RemoteInv, DownInv, reconcile_startup_refused, reconcile_startup
<1>2. UNCHANGED <<now, op, sessions, tombs, replays, watched, expired, wstep, answers>>
  BY DEF reconcile_startup_refused, reconcile_startup
<1>3. box \in [Names -> Boxes] /\ left \subseteq Names /\ stages \subseteq Names
  BY DEF RemoteInv, HostShape
<1>4. DOMAIN sessions' = {} /\ DOMAIN replays' = {} /\ answers' = {} /\ op' = NoOp
  BY <1>1, <1>2
<1>5. SessionsShape'
  BY <1>2 DEF RemoteInv, MainShape, SessionsShape
<1>6. ReplaysInv' /\ AnswersInv'
  BY <1>4 DEF ReplaysInv, AnswersInv
<1>7. CASE reconcile_startup_refused
  <2>1. /\ UNCHANGED <<mode, since, stages, exits>> /\ left' \subseteq left
        /\ \E R \in SUBSET Names : box' = [x \in Names |-> IF x \in R THEN NoBox ELSE box[x]]
    <3>1. PICK n \in Labelled, S \in SUBSET {x \in Labelled : box[x].st = "running"} :
              /\ box' = [x \in Names |-> IF x = n \/ x \in S THEN NoBox ELSE box[x]]
              /\ left' = left \ (S \cup {n})
      BY <1>7 DEF reconcile_startup_refused
    <3>2. {n} \cup S \in SUBSET Names
      BY DEF Labelled
    <3>3. box' = [x \in Names |-> IF x \in {n} \cup S THEN NoBox ELSE box[x]]
      BY <3>1
    <3>4. UNCHANGED <<mode, since, stages, exits>>
      BY <1>7 DEF reconcile_startup_refused
    <3> QED
      BY <3>1, <3>2, <3>3, <3>4
  <2>2. box' \in [Names -> Boxes]
    BY <1>0, <1>3, <2>1
  <2>3. MainShape'
    BY <1>2, <1>5, <2>1 DEF RemoteInv, MainShape
  <2>4. HostShape'
    BY <1>2, <1>3, <2>1, <2>2 DEF RemoteInv, HostShape
  <2>5. WaitingInv' /\ DownInv' /\ StagesInv' /\ BoxesInv'
    BY <1>1, <1>4, <2>1 DEF WaitingInv, DownInv, StagesInv, BoxesInv
  <2>6. CodesInv'
    BY <1>4 DEF CodesInv, Running
  <2> QED
    BY <1>6, <2>3, <2>4, <2>5, <2>6 DEF RemoteInv
<1>8. CASE reconcile_startup
  <2>1. /\ box' = [n \in Names |-> NoBox] /\ left' = {} /\ stages' = {}
        /\ mode' = "serving" /\ since' = now
    BY <1>8 DEF reconcile_startup, reconcile_staging
  <2>2. box' \in [Names -> Boxes] /\ \A n \in Names : box'[n].code = NoCode /\ box'[n].st = "none"
    BY <1>0, <2>1
  <2>3. MainShape'
    BY <1>2, <1>5, <2>1 DEF RemoteInv, MainShape
  <2>4. HostShape'
    BY <1>2, <2>1, <2>2 DEF RemoteInv, HostShape
  <2>5. WaitingInv' /\ DownInv' /\ BoxesInv'
    BY <1>4, <2>1, <2>2 DEF WaitingInv, DownInv, BoxesInv
  <2>6. StagesInv'
    BY <1>4, <2>1 DEF StagesInv
  <2>7. CodesInv'
    BY <1>4 DEF CodesInv, Running
  <2> QED
    BY <1>6, <2>3, <2>4, <2>5, <2>6, <2>7 DEF RemoteInv
<1> QED
  BY <1>7, <1>8

LEMMA HangUpKeeps ==
    ASSUME RemoteInv, HangUp
    PROVE  RemoteInv'
<1>1. /\ mode = "serving" /\ mode' = "closing" /\ op' = NoOp
      /\ UNCHANGED <<now, since, sessions, tombs, replays, watched, expired, wstep, box,
                     stages, left, exits, answers>>
  BY DEF HangUp, Close
<1>2. MainShape' /\ HostShape'
  BY <1>1 DEF RemoteInv, MainShape, SessionsShape, HostShape, Ops
<1>3. WaitingInv' /\ DownInv' /\ BoxesInv'
  BY <1>1 DEF WaitingInv, DownInv, BoxesInv
<1>4. CodesInv' /\ ReplaysInv' /\ AnswersInv'
  BY <1>1 DEF RemoteInv, CodesInv, Running, ReplaysInv, AnswersInv, Told, NameOf
<1>5. StagesInv'
  BY <1>1 DEF RemoteInv, StagesInv, NameOf
<1> QED
  BY <1>2, <1>3, <1>4, <1>5 DEF RemoteInv

---------------------------------------------------------------------------
(* The watchdog, the containers and the clock.                             *)

\* A step of another thread that leaves the main thread's tables alone.
LEMMA TablesStay ==
    ASSUME RemoteInv,
           UNCHANGED <<mode, now, since, op, sessions, tombs, replays, stages, answers>>,
           exits \subseteq exits', HostShape',
           \A n \in Names : Running(n) /\ box'[n].code # NoCode => <<n, box'[n].code>> \in exits'
    PROVE  /\ MainShape' /\ WaitingInv' /\ DownInv' /\ CodesInv' /\ ReplaysInv' /\ AnswersInv'
           /\ StagesInv' /\ \A n : Owned(n) => Owned(n)'
           /\ op.step = "aborted" => Name' = Name
<1>1. MainShape' /\ WaitingInv' /\ DownInv'
  BY DEF RemoteInv, MainShape, SessionsShape, WaitingInv, DownInv, matching_session, Known,
         Session
<1>2. StagesInv' /\ \A n : Owned(n) => Owned(n)'
  BY DEF RemoteInv, StagesInv, NameOf, Owned, Untouched
<1>3. ASSUME NEW name, NEW result, Told(name, result)
      PROVE  Told(name, result)'
  BY <1>3 DEF Told
<1>4. CodesInv'
  <2>1. \A x \in DOMAIN sessions : Told(NameOf(x), sessions[x])
    BY DEF RemoteInv, CodesInv
  <2>2. \A x \in DOMAIN sessions' :
           sessions'[x].state = "finished" => <<NameOf(x)', sessions'[x].exit>> \in exits'
    BY <2>1 DEF Told, NameOf
  <2>3. \A n : Running(n)' => Running(n)
    BY DEF Running, NameOf
  <2> QED
    BY <2>2, <2>3 DEF CodesInv, Told
<1>5. ReplaysInv' /\ AnswersInv'
  BY DEF RemoteInv, ReplaysInv, AnswersInv, Told
<1>6. Name' = Name
  BY DEF Name
<1> QED
  BY <1>1, <1>2, <1>4, <1>5, <1>6

LEMMA ScanKeeps ==
    ASSUME RemoteInv, watchdog_scan
    PROVE  RemoteInv'
<1> DEFINE over == {r \in Range(watched) : now >= r.deadline}
<1>1. /\ expired = <<>> /\ over # {} /\ expired' = Those(watched, over)
      /\ watched' = Those(watched, Range(watched) \ over) /\ wstep' = "stop"
      /\ UNCHANGED <<mode, now, since, op, sessions, tombs, replays, box, stages, left,
                     exits, answers>>
  BY DEF watchdog_scan
<1>2. over \subseteq Range(watched)
  OBVIOUS
<1> HIDE DEF over
<1>3. watched \in Seq(WatchRecords)
  BY DEF RemoteInv, HostShape
<1>4. /\ expired' \in Seq(WatchRecords) /\ Range(expired') = Range(watched) \cap over
      /\ watched' \in Seq(WatchRecords) /\ Range(watched') = Range(watched) \cap (Range(watched) \ over)
  BY <1>1, <1>3, ThoseFacts
<1>5. expired' # <<>> /\ Range(expired) = {}
  BY <1>1, <1>2, <1>4, EmptySequence
<1>6. HostShape'
  BY <1>1, <1>4, <1>5 DEF RemoteInv, HostShape
<1>7. /\ MainShape' /\ WaitingInv' /\ DownInv' /\ CodesInv' /\ ReplaysInv' /\ AnswersInv'
      /\ StagesInv' /\ \A n : Owned(n) => Owned(n)'
      /\ op.step = "aborted" => Name' = Name
  BY <1>1, <1>6, TablesStay DEF RemoteInv, CodesInv
<1>8. ASSUME NEW n, Watched(n) PROVE Watched(n)'
  <2>1. InHand = {}
    BY <1>1, <1>5 DEF RemoteInv, HostShape, InHand
  <2>2. InHand' = Range(expired')
    BY <1>1 DEF InHand
  <2>3. Range(watched) \subseteq Range(watched') \cup Range(expired')
    BY <1>4
  <2> QED
    BY <1>8, <2>1, <2>2, <2>3 DEF Watched
<1>9. BoxesInv'
  <2> SUFFICES ASSUME mode' = "serving", NEW n \in Names \ left', box'[n].st # "none"
               PROVE  /\ Owned(n)'
                      /\ box'[n].st = "running" =>
                            Watched(n)' \/ (op'.step = "aborted" /\ Name' = n)
    BY DEF BoxesInv
  <2>1. /\ Owned(n)
        /\ box[n].st = "running" => Watched(n) \/ (op.step = "aborted" /\ Name = n)
    BY <1>1 DEF RemoteInv, BoxesInv
  <2> QED
    BY <1>1, <1>7, <1>8, <2>1
<1> QED
  BY <1>6, <1>7, <1>9 DEF RemoteInv

\* The watchdog stops or removes the container of the record in hand, or a
\* container writes or ends: containers appear nowhere and none that has
\* ended runs again.
LEMMA BoxesShrink ==
    ASSUME RemoteInv,
           UNCHANGED <<mode, now, since, op, sessions, tombs, replays, stages, answers, watched,
                       expired>>,
           wstep' = wstep \/ (wstep = "stop" /\ wstep' = "rm"),
           exits \subseteq exits', left \subseteq left', left' \subseteq Names,
           box' \in [Names -> Boxes],
           \A n \in Names : Running(n) /\ box'[n].code # NoCode => <<n, box'[n].code>> \in exits',
           \A n \in Names : /\ box'[n].st # "none" => box[n].st # "none"
                            /\ box'[n].st = "running" => box[n].st = "running"
    PROVE  RemoteInv'
<1>1. HostShape'
  BY DEF RemoteInv, HostShape
<1>2. /\ MainShape' /\ WaitingInv' /\ DownInv' /\ CodesInv' /\ ReplaysInv' /\ AnswersInv'
      /\ StagesInv' /\ \A n : Owned(n) => Owned(n)'
      /\ op.step = "aborted" => Name' = Name
  BY <1>1, TablesStay
<1>3. \A n : Watched(n) => Watched(n)'
  BY DEF Watched, InHand
<1>4. BoxesInv'
  <2> SUFFICES ASSUME mode' = "serving", NEW n \in Names \ left', box'[n].st # "none"
               PROVE  /\ Owned(n)'
                      /\ box'[n].st = "running" =>
                            Watched(n)' \/ (op'.step = "aborted" /\ Name' = n)
    BY DEF BoxesInv
  <2>1. /\ Owned(n)
        /\ box[n].st = "running" => Watched(n) \/ (op.step = "aborted" /\ Name = n)
    BY DEF RemoteInv, BoxesInv
  <2> QED
    BY <1>2, <1>3, <2>1
<1> QED
  BY <1>1, <1>2, <1>4 DEF RemoteInv

LEMMA StopKeeps ==
    ASSUME RemoteInv, watchdog_stop
    PROVE  RemoteInv'
<1> DEFINE n == Head(expired).name
<1>1. /\ expired # <<>> /\ wstep = "stop" /\ wstep' = "rm"
      /\ \/ UNCHANGED <<box, exits>>
         \/ \E code \in StopCodes : Stops(n, code) /\ exits' = exits \cup {<<n, code>>}
      /\ UNCHANGED <<mode, now, since, op, sessions, tombs, replays, watched, expired, stages,
                     left, answers>>
  BY DEF watchdog_stop
<1>2. Head(expired) \in WatchRecords /\ box \in [Names -> Boxes] /\ left \subseteq Names
  BY <1>1, HeadTailRange DEF RemoteInv, HostShape
<1>3. n \in Names
  BY <1>2 DEF WatchRecords
<1> HIDE DEF n
<1>4. CASE UNCHANGED <<box, exits>>
  <2>1. \A m \in Names : Running(m) /\ box'[m].code # NoCode => <<m, box'[m].code>> \in exits'
    BY <1>4 DEF RemoteInv, CodesInv
  <2>2. \A m \in Names : /\ box'[m].st # "none" => box[m].st # "none"
                         /\ box'[m].st = "running" => box[m].st = "running"
    BY <1>4
  <2> QED
    BY <1>1, <1>2, <1>4, <2>1, <2>2, BoxesShrink
<1>5. CASE \E code \in StopCodes : Stops(n, code) /\ exits' = exits \cup {<<n, code>>}
  <2>1. PICK code \in StopCodes :
            /\ box[n].st = "running" /\ box' = [box EXCEPT ![n] = Ended(@, code)]
            /\ exits' = exits \cup {<<n, code>>}
    BY <1>5 DEF Stops
  <2>2. Ended(box[n], code) \in Boxes /\ Ended(box[n], code).st = "exited" /\ Ended(box[n], code).code = code
    BY <1>2, <1>3 DEF StopCodes, Boxes, Ended
  <2>3. /\ box' \in [Names -> Boxes] /\ box'[n].st = "exited" /\ box'[n].code = code
        /\ \A m \in Names : m # n => box'[m] = box[m]
    BY <1>2, <1>3, <2>1, <2>2
  <2>4. \A m \in Names : Running(m) /\ box'[m].code # NoCode => <<m, box'[m].code>> \in exits'
    BY <2>1, <2>3 DEF RemoteInv, CodesInv
  <2>5. \A m \in Names : /\ box'[m].st # "none" => box[m].st # "none"
                         /\ box'[m].st = "running" => box[m].st = "running"
    BY <2>1, <2>3
  <2> QED
    BY <1>1, <1>2, <2>1, <2>3, <2>4, <2>5, BoxesShrink
<1> QED
  BY <1>1, <1>4, <1>5

LEMMA RmKeeps ==
    ASSUME RemoteInv, watchdog_rm
    PROVE  RemoteInv'
<1> DEFINE n == Head(expired).name
<1>1. /\ expired # <<>> /\ wstep = "rm" /\ wstep' = "mark"
      /\ \/ box' = Removed(n) /\ left' = left \ {n}
         \/ box' = box /\ left' = left \cup {n}
      /\ UNCHANGED <<mode, now, since, op, sessions, tombs, replays, watched, expired, stages,
                     exits, answers>>
  BY DEF watchdog_rm
<1>2. /\ Head(expired) \in WatchRecords /\ Range(expired) = {Head(expired)} \cup Range(Tail(expired))
      /\ box \in [Names -> Boxes] /\ left \subseteq Names
  BY <1>1, HeadTailRange DEF RemoteInv, HostShape
<1>3. n \in Names
  BY <1>2 DEF WatchRecords
<1>4. ASSUME NEW m, m # n, Watched(m)
      PROVE  Watched(m)'
  <2>1. InHand = {Head(expired)} \cup Range(Tail(expired)) /\ InHand' = Range(Tail(expired))
    BY <1>1, <1>2 DEF InHand
  <2> QED
    BY <1>1, <1>4, <2>1 DEF Watched
<1> HIDE DEF n
<1>5. NoBox \in Boxes /\ NoBox.st = "none" /\ NoBox.code = NoCode
  BY DEF NoBox, Boxes, NoCode
<1>6. /\ box' \in [Names -> Boxes] /\ left' \subseteq Names
      /\ \A m \in Names : m # n => box'[m] = box[m] /\ (m \in left' <=> m \in left)
      /\ box'[n].st = "none" \/ n \in left'
      /\ box'[n].code \in {NoCode, box[n].code}
  <2>1. CASE box' = Removed(n) /\ left' = left \ {n}
    <3>1. box' = [box EXCEPT ![n] = NoBox]
      BY <2>1 DEF Removed
    <3>2. box'[n] = NoBox /\ box' \in [Names -> Boxes] /\ \A m \in Names : m # n => box'[m] = box[m]
      BY <1>2, <1>3, <1>5, <3>1
    <3> QED
      BY <1>2, <1>5, <2>1, <3>2
  <2>2. CASE box' = box /\ left' = left \cup {n}
    BY <1>2, <1>3, <2>2
  <2> QED
    BY <1>1, <2>1, <2>2
<1>7. HostShape'
  BY <1>1, <1>6 DEF RemoteInv, HostShape
<1>8. \A m \in Names : Running(m) /\ box'[m].code # NoCode => <<m, box'[m].code>> \in exits'
  BY <1>1, <1>6 DEF RemoteInv, CodesInv
<1>9. /\ MainShape' /\ WaitingInv' /\ DownInv' /\ CodesInv' /\ ReplaysInv' /\ AnswersInv'
      /\ StagesInv' /\ \A m : Owned(m) => Owned(m)'
      /\ op.step = "aborted" => Name' = Name
  BY <1>1, <1>7, <1>8, TablesStay
<1>10. BoxesInv'
  <2> SUFFICES ASSUME mode' = "serving", NEW m \in Names \ left', box'[m].st # "none"
               PROVE  /\ Owned(m)'
                      /\ box'[m].st = "running" =>
                            Watched(m)' \/ (op'.step = "aborted" /\ Name' = m)
    BY DEF BoxesInv
  <2>1. m # n /\ box'[m] = box[m] /\ m \in Names \ left
    BY <1>6
  <2>2. /\ Owned(m)
        /\ box[m].st = "running" => Watched(m) \/ (op.step = "aborted" /\ Name = m)
    BY <1>1, <2>1 DEF RemoteInv, BoxesInv
  <2> QED
    BY <1>1, <1>4, <1>9, <2>1, <2>2
<1> QED
  BY <1>7, <1>9, <1>10 DEF RemoteInv

LEMMA MarkKeeps ==
    ASSUME RemoteInv, watchdog_mark
    PROVE  RemoteInv'
<1> DEFINE r == Head(expired)
           hit == /\ r.sid \in DOMAIN sessions /\ sessions[r.sid].state = "running"
                  /\ NameOf(r.sid) = r.name
<1>1. /\ expired # <<>> /\ wstep = "mark" /\ op = NoOp
      /\ sessions' = IF hit THEN [sessions EXCEPT ![r.sid].state = "timed_out",
                                                  ![r.sid].started = FALSE]
                     ELSE sessions
      /\ expired' = Tail(expired)
      /\ wstep' = IF Len(expired) = 1 THEN "scan" ELSE "stop"
      /\ UNCHANGED <<mode, now, since, op, tombs, replays, watched, box, stages, left,
                     exits, answers>>
  BY DEF watchdog_mark
<1>2. /\ expired \in Seq(WatchRecords) /\ Tail(expired) \in Seq(WatchRecords)
      /\ Len(Tail(expired)) = Len(expired) - 1 /\ Len(expired) \in Nat \ {0}
  BY <1>1, HeadTailRange DEF RemoteInv, HostShape
<1>3. HostShape'
  <2>1. wstep' = "scan" <=> expired' = <<>>
    <3> DEFINE t == Tail(expired)
    <3>1. t \in Seq(WatchRecords) /\ Len(t) = Len(expired) - 1
      BY <1>2
    <3> HIDE DEF t
    <3>2. t = <<>> <=> Len(t) = 0
      BY <3>1, NoElements
    <3>3. wstep' = "scan" <=> Len(expired) = 1
      BY <1>1
    <3> QED
      BY <1>1, <1>2, <3>1, <3>2, <3>3 DEF t
  <2>2. wstep' \in {"scan", "stop"}
    BY <1>1
  <2> QED
    BY <1>1, <1>2, <2>1, <2>2 DEF RemoteInv, HostShape
<1>4. InHand' = InHand
  BY <1>1 DEF InHand
<1>5. SessionsShape /\ (mode # "down" => stages = SessionNames)
  BY DEF RemoteInv, MainShape, StagesInv, SessionNames
<1>6. /\ SessionsShape' /\ SessionNames' = SessionNames /\ DOMAIN sessions' = DOMAIN sessions
      /\ \A x \in DOMAIN sessions' : Told(NameOf(x)', sessions'[x])
      /\ \A n : Owned(n) => Owned(n)'
      /\ \A n : Running(n)' => Running(n)
  <2>1. CASE ~hit
    <3>1. sessions' = sessions
      BY <1>1, <2>1
    <3>2. SessionsShape' /\ SessionNames' = SessionNames /\ \A n : Owned(n) => Owned(n)'
      BY <1>5, <3>1 DEF SessionsShape, SessionNames, Owned, NameOf, Untouched
    <3>3. /\ \A x \in DOMAIN sessions' : Told(NameOf(x)', sessions'[x])
          /\ \A n : Running(n)' => Running(n)
      BY <3>1 DEF NameOf, Running, RemoteInv, CodesInv
    <3> QED
      BY <3>1, <3>2, <3>3
  <2>2. CASE hit
    <3> DEFINE old == sessions[r.sid]
               s == [old EXCEPT !.state = "timed_out", !.started = FALSE]
    <3>1. r.sid \in DOMAIN sessions /\ old \in SessionRecords
      BY <1>5, <2>2 DEF SessionsShape
    <3>2. s \in SessionRecords /\ s.epoch = old.epoch /\ s.state = "timed_out"
      <4> HIDE DEF old
      <4> QED
        BY <3>1 DEF SessionRecords, States
    <3>3. sessions' = [sessions EXCEPT ![r.sid] = s]
      BY <1>1, <2>2, <3>1
    <3> HIDE DEF s, r
    <3>4. SetSession(r.sid, s)
      BY <3>1, <3>2, <3>3 DEF SetSession
    <3>5. ~Untouched(s) /\ \A name : Told(name, s)
      BY <3>2 DEF Untouched, Told
    <3>6. /\ SessionsShape' /\ SessionNames' = SessionNames
          /\ \A x \in DOMAIN sessions : NameOf(x)' = NameOf(x)
          /\ \A n : Owned(n) => Owned(n)'
          /\ \A n : Running(n)' => Running(n)
      BY <1>5, <3>2, <3>4, <3>5, SetKeeps
    <3>7. ASSUME NEW x \in DOMAIN sessions' PROVE Told(NameOf(x)', sessions'[x])
      <4>1. CASE x = r.sid
        BY <3>4, <3>5, <4>1 DEF SetSession
      <4>2. CASE x # r.sid
        BY <3>4, <3>6, <4>2 DEF SetSession, RemoteInv, CodesInv
      <4> QED
        BY <4>1, <4>2
    <3> QED
      BY <3>4, <3>6, <3>7 DEF SetSession
  <2> QED
    BY <2>1, <2>2
<1>7. MainShape'
  BY <1>1, <1>6 DEF RemoteInv, MainShape
<1>8. WaitingInv' /\ DownInv'
  BY <1>1, <1>6 DEF RemoteInv, WaitingInv, DownInv
<1>9. CodesInv'
  BY <1>1, <1>6, CodesKept
<1>10. ReplaysInv' /\ AnswersInv'
  BY <1>1 DEF RemoteInv, ReplaysInv, AnswersInv, Told
<1>11. StagesInv'
  BY <1>1, <1>5, <1>6 DEF StagesInv, SessionNames
<1>12. BoxesInv'
  <2> SUFFICES ASSUME mode' = "serving", NEW n \in Names \ left', box'[n].st # "none"
               PROVE  Owned(n)' /\ (box'[n].st = "running" => Watched(n)')
    BY DEF BoxesInv
  <2>1. Owned(n) /\ (box[n].st = "running" => Watched(n))
    BY <1>1 DEF RemoteInv, BoxesInv, NoOp
  <2>2. Watched(n) => Watched(n)'
    BY <1>1, <1>4 DEF Watched
  <2> QED
    BY <1>1, <1>6, <2>1, <2>2
<1> QED
  BY <1>3, <1>7, <1>8, <1>9, <1>10, <1>11, <1>12 DEF RemoteInv

LEMMA ContainerKeeps ==
    ASSUME RemoteInv, ContainerWrites \/ ContainerExits
    PROVE  RemoteInv'
<1>1. UNCHANGED <<mode, now, since, op, sessions, tombs, replays, watched, expired, wstep,
                  stages, left, answers>>
  BY DEF ContainerWrites, ContainerExits
<1>2. box \in [Names -> Boxes] /\ left \subseteq Names
  BY DEF RemoteInv, HostShape
<1>3. CASE ContainerWrites
  <2>1. PICK n \in Names : box[n].st = "running" /\ box' = [box EXCEPT ![n].out = @ + 1]
    BY <1>3 DEF ContainerWrites
  <2> DEFINE b == [box[n] EXCEPT !.out = @ + 1]
  <2>2. b \in Boxes /\ b.st = box[n].st /\ b.code = box[n].code
    BY <1>2 DEF Boxes
  <2>3. box' = [box EXCEPT ![n] = b] /\ exits' = exits
    BY <1>3, <2>1 DEF ContainerWrites
  <2> HIDE DEF b
  <2>4. /\ box' \in [Names -> Boxes]
        /\ \A m \in Names : box'[m].st = box[m].st /\ box'[m].code = box[m].code
    BY <1>2, <2>2, <2>3
  <2>5. \A m \in Names : Running(m) /\ box'[m].code # NoCode => <<m, box'[m].code>> \in exits'
    BY <2>3, <2>4 DEF RemoteInv, CodesInv
  <2> QED
    BY <1>1, <1>2, <2>3, <2>4, <2>5, BoxesShrink
<1>4. CASE ContainerExits
  <2>1. PICK n \in Names, code \in {0, 1} :
            /\ box[n].st = "running" /\ box' = [box EXCEPT ![n] = Ended(@, code)]
            /\ exits' = exits \cup {<<n, code>>}
    BY <1>4 DEF ContainerExits
  <2>2. Ended(box[n], code) \in Boxes /\ Ended(box[n], code).st = "exited" /\ Ended(box[n], code).code = code
    BY <1>2 DEF Boxes, Ended
  <2>3. /\ box' \in [Names -> Boxes] /\ box'[n].st = "exited" /\ box'[n].code = code
        /\ \A m \in Names : m # n => box'[m] = box[m]
    BY <1>2, <2>1, <2>2
  <2>4. \A m \in Names : Running(m) /\ box'[m].code # NoCode => <<m, box'[m].code>> \in exits'
    BY <2>1, <2>3 DEF RemoteInv, CodesInv
  <2>5. \A m \in Names : /\ box'[m].st # "none" => box[m].st # "none"
                         /\ box'[m].st = "running" => box[m].st = "running"
    BY <2>1, <2>3
  <2> QED
    BY <1>1, <1>2, <2>1, <2>3, <2>4, <2>5, BoxesShrink
<1> QED
  BY <1>3, <1>4

LEMMA TickKeeps ==
    ASSUME RemoteInv, Tick \/ UNCHANGED remoteVars
    PROVE  RemoteInv'
<1>1. /\ UNCHANGED <<mode, since, op, sessions, tombs, replays, watched, expired, wstep, box,
                     stages, left, exits, answers>>
      /\ now' = now \/ (now < MaxTime /\ now' = now + 1)
  BY DEF Tick, remoteVars
<1>2. MainShape'
  BY <1>1, Bounds DEF RemoteInv, MainShape, SessionsShape
<1>3. HostShape'
  BY <1>1 DEF RemoteInv, HostShape
<1>4. WaitingInv' /\ DownInv'
  BY <1>1 DEF RemoteInv, WaitingInv, DownInv, matching_session, Known, Session
<1>5. CodesInv' /\ ReplaysInv' /\ AnswersInv'
  BY <1>1 DEF RemoteInv, CodesInv, Running, ReplaysInv, AnswersInv, Told, NameOf
<1>6. StagesInv' /\ \A n : Owned(n) => Owned(n)'
  BY <1>1 DEF RemoteInv, StagesInv, NameOf, Owned, Untouched
<1>7. BoxesInv'
  BY <1>1, <1>6, BoxesKept
<1> QED
  BY <1>2, <1>3, <1>4, <1>5, <1>6, <1>7 DEF RemoteInv

---------------------------------------------------------------------------
(* The theorems.                                                           *)

LEMMA RemoteInitially == RemoteInit => RemoteInv
<1> SUFFICES ASSUME RemoteInit
             PROVE  RemoteInv
  OBVIOUS
<1>1. /\ mode = "down" /\ now = 0 /\ since = 0 /\ op = NoOp
      /\ sessions = <<>> /\ tombs = <<>> /\ replays = <<>>
      /\ watched = <<>> /\ expired = <<>> /\ wstep = "scan"
      /\ box = [n \in Names |-> NoBox] /\ stages = {} /\ left = {} /\ answers = {}
  BY DEF RemoteInit
<1>2. DOMAIN sessions = {} /\ DOMAIN replays = {}
  BY <1>1
<1>3. IsFiniteSet({}) /\ Cardinality({}) = 0
  BY FS_EmptySet
<1>4. NoBox \in Boxes /\ NoBox.code = NoCode
  BY DEF NoBox, Boxes, NoCode
<1>5. SessionsShape
  BY <1>2, <1>3, Bounds DEF SessionsShape
<1>6. MainShape
  BY <1>1, <1>2, <1>3, <1>5, Bounds DEF MainShape, Ops
<1>7. HostShape
  BY <1>1, <1>4 DEF HostShape
<1>8. WaitingInv /\ DownInv /\ StagesInv /\ BoxesInv
  BY <1>1, <1>2 DEF WaitingInv, DownInv, StagesInv, BoxesInv
<1>9. CodesInv /\ ReplaysInv /\ AnswersInv
  BY <1>1, <1>2, <1>4 DEF CodesInv, Running, ReplaysInv, AnswersInv
<1> QED
  BY <1>6, <1>7, <1>8, <1>9 DEF RemoteInv

\* The invariant is kept by the executor, its watchdog, its containers and
\* whatever ends the process.  Its part on codes allows for every code a
\* container that is asked to stop may end with.
THEOREM RemoteInvariant == RemoteSpec => []RemoteInv
<1>1. ASSUME RemoteInv, [RemoteNext]_remoteVars
      PROVE  RemoteInv'
  <2>1. CASE \E r \in Requests : handle(r)
    BY <1>1, <2>1, HandleKeeps
  <2>2. CASE HangUp
    BY <1>1, <2>2, HangUpKeeps
  <2>3. CASE docker_run
    BY <1>1, <2>3, RunKeeps
  <2>4. CASE docker_logs
    BY <1>1, <2>4, LogsKeeps
  <2>5. CASE docker_inspect
    BY <1>1, <2>5, InspectKeeps
  <2>6. CASE cleanup_container
    BY <1>1, <2>6, CleanupKeeps
  <2>7. CASE disconnect_cleanup
    BY <1>1, <2>7, DisconnectKeeps
  <2>8. CASE exit
    BY <1>1, <2>8, ExitKeeps
  <2>9. CASE Crash
    BY <1>1, <2>9, CrashKeeps
  <2>10. CASE reconcile_startup_refused \/ reconcile_startup
    BY <1>1, <2>10, StartKeeps
  <2>11. CASE watchdog_scan
    BY <1>1, <2>11, ScanKeeps
  <2>12. CASE watchdog_stop
    BY <1>1, <2>12, StopKeeps
  <2>13. CASE watchdog_rm
    BY <1>1, <2>13, RmKeeps
  <2>14. CASE watchdog_mark
    BY <1>1, <2>14, MarkKeeps
  <2>15. CASE ContainerWrites \/ ContainerExits
    BY <1>1, <2>15, ContainerKeeps
  <2>16. CASE Tick \/ UNCHANGED remoteVars
    BY <1>1, <2>16, TickKeeps
  <2> QED
    BY <1>1, <2>1, <2>2, <2>3, <2>4, <2>5, <2>6, <2>7, <2>8, <2>9, <2>10, <2>11, <2>12,
       <2>13, <2>14, <2>15, <2>16 DEF RemoteNext
<1> QED
  BY <1>1, RemoteInitially, PTL DEF RemoteSpec

\* While the executor serves, what is on its host belongs to its sessions: a
\* staging directory to a session it knows, a container to a started session
\* whose lifetime the watchdog enforces, unless docker failed to remove it.
THEOREM RemainsOwned == RemoteSpec => []RemainsAreOwned
<1>1. ASSUME RemoteInv
      PROVE  RemainsAreOwned
  <2> SUFFICES ASSUME mode = "serving", op = NoOp
               PROVE  /\ stages = {NameOf(sid) : sid \in DOMAIN sessions}
                      /\ \A n \in Names \ left : box[n].st # "none" =>
                            /\ Owned(n)
                            /\ box[n].st = "running" =>
                                  \E r \in Range(watched) \cup Range(expired) : r.name = n
    BY DEF RemainsAreOwned, Owned
  <2>1. stages = {NameOf(sid) : sid \in DOMAIN sessions}
    BY <1>1 DEF RemoteInv, StagesInv
  <2>2. InHand \subseteq Range(expired)
    <3>1. CASE wstep = "mark"
      <4>1. expired \in Seq(WatchRecords) /\ expired # <<>>
        BY <1>1, <3>1 DEF RemoteInv, HostShape
      <4> QED
        BY <3>1, <4>1, HeadTailRange DEF InHand
    <3>2. CASE wstep # "mark"
      BY <3>2 DEF InHand
    <3> QED
      BY <3>1, <3>2
  <2>3. \A n \in Names \ left : box[n].st # "none" =>
           Owned(n) /\ (box[n].st = "running" => Watched(n))
    BY <1>1 DEF RemoteInv, BoxesInv, NoOp
  <2> QED
    BY <2>1, <2>2, <2>3 DEF Watched
<1> QED
  BY <1>1, RemoteInvariant, PTL

\* A result is given again to a request that is repeated, and a validation
\* that is reported as finished ended with the code it reports, by itself or
\* because the watchdog stopped it, never because its client did; the
\* executor's tables keep their bounds.
THEOREM AnswersTrue == RemoteSpec => []AnswersAreTrue
<1>1. ASSUME RemoteInv
      PROVE  AnswersAreTrue
  <2>1. RemoteTypeOK
    <3>1. ASSUME NEW q \in Seq(WatchRecords), NEW w \in Range(q)
          PROVE  w.name \in Names
      <4>1. PICK i \in DOMAIN q : w = q[i]
        BY DEF Range
      <4>2. w \in WatchRecords
        BY <4>1
      <4> QED
        BY <4>2 DEF WatchRecords
    <3>2. \A w \in Range(watched) \cup Range(expired) : w.name \in Names
      BY <1>1, <3>1 DEF RemoteInv, HostShape
    <3> QED
      BY <1>1, <3>2 DEF RemoteTypeOK, RemoteInv, MainShape, SessionsShape, HostShape
  <2>2. AnswersAreRepeatable
    BY <1>1 DEF AnswersAreRepeatable, RemoteInv, AnswersInv
  <2>3. FinishedIsTrue
    <3>1. ASSUME NEW a \in answers
          PROVE  a.result.state = "finished" => <<a.name, a.result.exit>> \in exits
      <4>1. /\ a.key \in DOMAIN replays /\ a.name = <<a.key[1], a.key[2]>>
            /\ replays[a.key].result = a.result
        BY <1>1 DEF RemoteInv, AnswersInv
      <4>2. Told(a.name, a.result)
        BY <1>1, <4>1 DEF RemoteInv, ReplaysInv
      <4> QED
        BY <4>2 DEF Told
    <3> QED
      BY <3>1 DEF FinishedIsTrue
  <2> QED
    BY <2>1, <2>2, <2>3 DEF AnswersAreTrue
<1> QED
  BY <1>1, RemoteInvariant, PTL

-----------------------------------------------------------------------------
(* The output pump: the inductive invariant.                                *)

PumpErrors ==
    {"none", "frame_limit", "stdout_eof", "unterminated_frame", "output_limit", "poll_failed",
     "stdout_read_failed", "stderr_read_failed", "stderr_callback_failed", "stopped"}

Byte == Nat
Frame == Seq(Byte)

PumpTypes ==
    /\ written \in Seq(Byte) /\ outPipe \in Seq(Byte) /\ stdout_buffer \in Seq(Byte)
    /\ frames \in Seq(Frame) /\ received \in Seq(Frame)
    /\ script \in Seq(Byte) /\ use \in {"mcp", "discard"}
    /\ error \in PumpErrors /\ receiver \in {"idle", "waiting"} \cup PumpErrors

\* Every byte the child wrote is in one place.
StreamInv ==
    /\ use = "mcp" => Flat(received) \o Flat(frames) \o stdout_buffer \o outPipe = written
    /\ use = "discard" => /\ receiver = "idle" /\ received = <<>>
                          /\ frames = <<>> /\ stdout_buffer = <<>>

\* What the worker relies on when it reads, since it decided to.
Unframed == ~stdout_eof /\ ~Contains(stdout_buffer, Newline) /\ Len(stdout_buffer) <= max_frame_bytes
DecidedInv ==
    use = "mcp" => /\ worker = "poll" /\ poll_stdout => Unframed
                   /\ worker = "out" /\ "out" \in ready => Unframed

\* What the end of stdout and the errors about it mean.
EndInv ==
    /\ stdout_eof => ~outOpen /\ outPipe = <<>>
    /\ use = "mcp" /\ stdout_eof /\ error = "none" => stdout_buffer = <<>>
    /\ error = "stdout_eof" => worker = "done" /\ stdout_eof /\ stdout_buffer = <<>> /\ frames = <<>>
    /\ error = "unterminated_frame" => ~outOpen /\ written # <<>> /\ Last(written) # Newline
    /\ worker = "done" /\ error = "none" => stdout_eof
    /\ stop_requested => error # "none"

\* What the receiver was told of the end.
ToldInv ==
    /\ receiver = "stdout_eof" => /\ worker = "done" /\ ~outOpen /\ stdout_eof
                                /\ stdout_buffer = <<>> /\ frames = <<>>
    /\ receiver = "unterminated_frame" => ~outOpen /\ written # <<>> /\ Last(written) # Newline

PumpInv ==
    PumpTypes /\ StreamInv /\ DecidedInv /\ EndInv /\ ToldInv /\ QueueIsBounded

-----------------------------------------------------------------------------
(* Frames as they were on the wire.                                         *)

\* The loop behind Flat is defined.
LEMMA FlatExists ==
    ASSUME NEW fr, NEW n \in Nat
    PROVE  \E f : /\ f = [i \in 0 .. n |-> f[i]] /\ f[0] = <<>>
                 /\ \A i \in 1 .. n : f[i] = f[i - 1] \o Append(fr[i], Newline)
<1> DEFINE Loops(m, f) ==
             /\ f = [i \in 0 .. m |-> f[i]] /\ f[0] = <<>>
             /\ \A i \in 1 .. m : f[i] = f[i - 1] \o Append(fr[i], Newline)
           Bad == {m \in Nat : ~\E f : Loops(m, f)}
<1> SUFFICES ASSUME Bad # {}
             PROVE  FALSE
  OBVIOUS
<1>1. PICK m \in Bad : \A k \in Bad : m <= k
  BY LeastOf
<1>2. m \in Nat /\ ~\E f : Loops(m, f)
  OBVIOUS
<1>3. m # 0
  <2> SUFFICES ASSUME m = 0
               PROVE  FALSE
    OBVIOUS
  <2> DEFINE f == [i \in 0 .. 0 |-> <<>>]
  <2>1. f[0] = <<>> /\ f = [i \in 0 .. 0 |-> f[i]] /\ \A i \in 1 .. 0 : FALSE
    OBVIOUS
  <2> QED
    BY <1>2, <2>1
<1>4. m - 1 \in Nat /\ m - 1 \notin Bad
  <2>1. m - 1 \in Nat /\ ~(m <= m - 1)
    BY <1>2, <1>3
  <2> HIDE DEF Bad
  <2> QED
    BY <1>1, <2>1
<1>5. PICK f : Loops(m - 1, f)
  BY <1>4
<1> DEFINE last == f[m - 1] \o Append(fr[m], Newline)
<1> HIDE DEF last
<1> DEFINE g == [i \in 0 .. m |-> IF i < m THEN f[i] ELSE last]
<1>6. Loops(m, g)
  <2>1. g = [i \in 0 .. m |-> g[i]] /\ g[0] = <<>>
    BY <1>2, <1>3, <1>5
  <2>2. ASSUME NEW i \in 1 .. m
        PROVE  g[i] = g[i - 1] \o Append(fr[i], Newline)
    <3>1. g[i - 1] = f[i - 1] /\ g[i] = IF i < m THEN f[i] ELSE last
      BY <1>2
    <3>2. CASE i < m
      <4>1. i \in 1 .. m - 1
        BY <1>2, <3>2
      <4>2. f[i] = f[i - 1] \o Append(fr[i], Newline)
        BY <1>5, <4>1
      <4> QED
        BY <3>1, <3>2, <4>2
    <3>3. CASE ~(i < m)
      <4>1. i = m
        BY <1>2, <3>3
      <4> QED
        BY <3>1, <3>3, <4>1 DEF last
    <3> QED
      BY <3>2, <3>3
  <2> QED
    BY <2>1, <2>2
<1> QED
  BY <1>2, <1>6

\* f holds what the frames up to each of them were.
FlatBy(f, fr, n) ==
    /\ Flat(fr) = f[n] /\ f[0] = <<>>
    /\ \A i \in 1 .. n : f[i] = f[i - 1] \o Append(fr[i], Newline)

LEMMA FlatTurns ==
    ASSUME NEW fr, NEW n \in Nat, n = Len(fr)
    PROVE  \E f : FlatBy(f, fr, n)
<1> DEFINE Loops(f) ==
             f = [i \in 0 .. n |-> IF i = 0 THEN <<>> ELSE f[i - 1] \o Append(fr[i], Newline)]
           p == CHOOSE f : Loops(f)
<1>1. Loops(p)
  <2>1. PICK f : /\ f = [i \in 0 .. n |-> f[i]] /\ f[0] = <<>>
                 /\ \A i \in 1 .. n : f[i] = f[i - 1] \o Append(fr[i], Newline)
    BY FlatExists
  <2>2. ASSUME NEW i \in 0 .. n
        PROVE  f[i] = IF i = 0 THEN <<>> ELSE f[i - 1] \o Append(fr[i], Newline)
    <3>1. CASE i = 0
      BY <2>1, <3>1
    <3>2. CASE i # 0
      <4>1. i \in 1 .. n
        BY <3>2
      <4> QED
        BY <2>1, <3>2, <4>1
    <3> QED
      BY <3>1, <3>2
  <2>3. Loops(f)
    BY <2>1, <2>2
  <2> HIDE DEF Loops
  <2> QED
    BY <2>3
<1>2. Flat(fr) = p[n]
  BY DEF Flat
<1> HIDE DEF p
<1>3. 0 \in 0 .. n /\ \A i \in 1 .. n : i \in 0 .. n /\ i # 0
  OBVIOUS
<1>4. p[0] = <<>> /\ \A i \in 1 .. n : p[i] = p[i - 1] \o Append(fr[i], Newline)
  BY <1>1, <1>3
<1>5. FlatBy(p, fr, n)
  BY <1>2, <1>4 DEF FlatBy
<1> QED
  BY <1>5

LEMMA FlatNothing == Flat(<<>>) = <<>>
<1>1. Len(<<>>) = 0 /\ 0 \in Nat
  OBVIOUS
<1>2. PICK f : FlatBy(f, <<>>, 0)
  BY <1>1, FlatTurns
<1> QED
  BY <1>2 DEF FlatBy

\* The last frame comes behind the others.
LEMMA FlatAppend ==
    ASSUME NEW T, NEW fr \in Seq(T), NEW x \in T
    PROVE  Flat(Append(fr, x)) = Flat(fr) \o Append(x, Newline)
<1> DEFINE n == Len(fr)
           more == Append(fr, x)
<1>1. /\ n \in Nat /\ n + 1 \in Nat /\ Len(more) = n + 1 /\ more[n + 1] = x
      /\ \A i \in 1 .. n : more[i] = fr[i]
  OBVIOUS
<1> HIDE DEF more, n
<1>2. PICK f : /\ Flat(fr) = f[n] /\ f[0] = <<>>
               /\ \A i \in 1 .. n : f[i] = f[i - 1] \o Append(fr[i], Newline)
  <2>1. PICK f : FlatBy(f, fr, n)
    BY <1>1, FlatTurns DEF n
  <2> QED
    BY <2>1 DEF FlatBy
<1>3. PICK g : /\ Flat(more) = g[n + 1] /\ g[0] = <<>>
               /\ \A i \in 1 .. n + 1 : g[i] = g[i - 1] \o Append(more[i], Newline)
  <2>1. PICK g : FlatBy(g, more, n + 1)
    BY <1>1, FlatTurns
  <2> QED
    BY <2>1 DEF FlatBy
<1> DEFINE Bad == {m \in 0 .. n : f[m] # g[m]}
<1>4. Bad = {}
  <2> SUFFICES ASSUME Bad # {}
               PROVE  FALSE
    OBVIOUS
  <2>1. Bad \in SUBSET Nat
    BY <1>1
  <2>2. PICK m \in Bad : \A k \in Bad : m <= k
    BY <2>1, LeastOf
  <2>3. m \in 0 .. n /\ f[m] # g[m] /\ m # 0
    BY <1>2, <1>3
  <2>4. m \in 1 .. n /\ m \in 1 .. n + 1 /\ m - 1 \in 0 .. n /\ ~(m <= m - 1)
    BY <1>1, <2>3
  <2> HIDE DEF Bad
  <2>5. m - 1 \notin Bad
    BY <2>2, <2>4
  <2>6. f[m - 1] = g[m - 1]
    BY <2>4, <2>5 DEF Bad
  <2> QED
    BY <1>1, <1>2, <1>3, <2>3, <2>4, <2>6
<1>5. f[n] = g[n]
  BY <1>1, <1>4
<1>6. n + 1 \in 1 .. n + 1 /\ (n + 1) - 1 = n
  BY <1>1
<1>7. g[n + 1] = g[n] \o Append(x, Newline)
  BY <1>1, <1>3, <1>6
<1> QED
  BY <1>2, <1>3, <1>5, <1>7 DEF more

LEMMA ByteFacts == Newline \in Byte
BY DEF Newline, Byte

LEMMA FlatType ==
    ASSUME NEW fr \in Seq(Frame)
    PROVE  Flat(fr) \in Seq(Byte)
<1> DEFINE Bad == {n \in Nat : \E b \in Seq(Frame) : Len(b) = n /\ Flat(b) \notin Seq(Byte)}
<1>1. Bad = {}
  <2> SUFFICES ASSUME Bad # {}
               PROVE  FALSE
    OBVIOUS
  <2>1. PICK n \in Bad : \A k \in Bad : n <= k
    BY LeastOf
  <2>2. PICK b \in Seq(Frame) : Len(b) = n /\ Flat(b) \notin Seq(Byte)
    OBVIOUS
  <2>3. b # <<>>
    BY <2>2, FlatNothing
  <2>4. PICK c \in Seq(Frame), x \in Frame : b = Append(c, x)
    BY <2>3, SequenceEmptyOrAppend
  <2>5. Len(c) \in Nat /\ Len(b) = Len(c) + 1
    BY <2>4
  <2>6. Len(c) \notin Bad
    <3> HIDE DEF Bad
    <3> QED
      BY <2>1, <2>2, <2>5
  <2>7. Flat(c) \in Seq(Byte)
    BY <2>5, <2>6
  <2>8. Append(x, Newline) \in Seq(Byte)
    BY ByteFacts DEF Frame
  <2>9. Flat(b) = Flat(c) \o Append(x, Newline)
    BY <2>4, FlatAppend
  <2> QED
    BY <2>2, <2>7, <2>8, <2>9, ConcatProperties
<1>2. Len(fr) \in Nat
  OBVIOUS
<1> QED
  BY <1>1, <1>2

LEMMA ConcatAppend ==
    ASSUME NEW S, NEW a \in Seq(S), NEW c \in Seq(S), NEW x \in S
    PROVE  a \o Append(c, x) = Append(a \o c, x)
<1>1. Append(c, x) = c \o <<x>> /\ <<x>> \in Seq(S) /\ a \o c \in Seq(S)
  OBVIOUS
<1>2. Append(a \o c, x) = (a \o c) \o <<x>>
  BY <1>1, AppendIsConcat
<1>3. (a \o c) \o <<x>> = a \o (c \o <<x>>)
  <2> DEFINE e == <<x>>
  <2> HIDE DEF e
  <2>1. e \in Seq(S)
    BY <1>1 DEF e
  <2>2. (a \o c) \o e = a \o (c \o e)
    BY <2>1, ConcatAssociative
  <2> QED
    BY <2>2 DEF e
<1> QED
  BY <1>1, <1>2, <1>3

LEMMA FlatConcat ==
    ASSUME NEW a \in Seq(Frame), NEW d \in Seq(Frame)
    PROVE  Flat(a \o d) = Flat(a) \o Flat(d)
<1> DEFINE Bad == {n \in Nat : \E b \in Seq(Frame) :
                                  Len(b) = n /\ Flat(a \o b) # Flat(a) \o Flat(b)}
<1>1. Bad = {}
  <2> SUFFICES ASSUME Bad # {}
               PROVE  FALSE
    OBVIOUS
  <2>1. PICK n \in Bad : \A k \in Bad : n <= k
    BY LeastOf
  <2>2. PICK b \in Seq(Frame) : Len(b) = n /\ Flat(a \o b) # Flat(a) \o Flat(b)
    OBVIOUS
  <2>3. b # <<>>
    <3>1. a \o <<>> = a /\ Flat(a) \o <<>> = Flat(a)
      BY FlatType, ConcatEmptySeq
    <3> QED
      BY <2>2, <3>1, FlatNothing
  <2>4. PICK c \in Seq(Frame), x \in Frame : b = Append(c, x)
    BY <2>3, SequenceEmptyOrAppend
  <2>5. Len(c) \in Nat /\ Len(b) = Len(c) + 1
    BY <2>4
  <2>6. Len(c) \notin Bad
    <3> HIDE DEF Bad
    <3> QED
      BY <2>1, <2>2, <2>5
  <2>7. Flat(a \o c) = Flat(a) \o Flat(c)
    BY <2>5, <2>6
  <2>8. Append(x, Newline) \in Seq(Byte)
    BY ByteFacts DEF Frame
  <2>9. Flat(b) = Flat(c) \o Append(x, Newline)
    BY <2>4, FlatAppend
  <2>10. a \o b = Append(a \o c, x) /\ a \o c \in Seq(Frame)
    <3> HIDE DEF Bad
    <3>1. a \o c \in Seq(Frame)
      BY ConcatProperties
    <3>2. a \o Append(c, x) = Append(a \o c, x)
      BY ConcatAppend
    <3> QED
      BY <2>4, <3>1, <3>2
  <2>11. Flat(a \o b) = Flat(a \o c) \o Append(x, Newline)
    BY <2>10, FlatAppend
  <2>12. Flat(a) \in Seq(Byte) /\ Flat(c) \in Seq(Byte)
    BY FlatType
  <2>13. (Flat(a) \o Flat(c)) \o Append(x, Newline) = Flat(a) \o (Flat(c) \o Append(x, Newline))
    <3> DEFINE u == Flat(a)
               v == Flat(c)
               w == Append(x, Newline)
    <3>1. u \in Seq(Byte) /\ v \in Seq(Byte) /\ w \in Seq(Byte)
      BY <2>8, <2>12
    <3> HIDE DEF u, v, w, Bad
    <3>2. (u \o v) \o w = u \o (v \o w)
      BY <3>1, ConcatAssociative
    <3> QED
      BY <3>2 DEF u, v, w
  <2> QED
    BY <2>2, <2>7, <2>9, <2>11, <2>13
<1>2. Len(d) \in Nat
  OBVIOUS
<1> QED
  BY <1>1, <1>2

\* A receiver takes the first frame: nothing else moves.
LEMMA FlatMove ==
    ASSUME NEW a \in Seq(Frame), NEW fr \in Seq(Frame), fr # <<>>
    PROVE  /\ Head(fr) \in Frame /\ Tail(fr) \in Seq(Frame)
           /\ Append(a, Head(fr)) \in Seq(Frame)
           /\ Flat(Append(a, Head(fr))) \o Flat(Tail(fr)) = Flat(a) \o Flat(fr)
           /\ Len(Tail(fr)) = Len(fr) - 1 /\ queued_bytes(Tail(fr)) <= queued_bytes(fr)
<1>1. /\ Head(fr) \in Frame /\ Tail(fr) \in Seq(Frame) /\ <<Head(fr)>> \in Seq(Frame)
      /\ Len(Tail(fr)) = Len(fr) - 1
  BY HeadTailProperties
<1>2. Append(a, Head(fr)) \in Seq(Frame) /\ Append(a, Head(fr)) \o Tail(fr) = a \o fr
  <2> DEFINE h == <<Head(fr)>>
             t == Tail(fr)
  <2>1. h \in Seq(Frame) /\ t \in Seq(Frame) /\ Append(a, Head(fr)) = a \o h /\ fr = h \o t
    BY <1>1
  <2>2. Append(a, Head(fr)) \in Seq(Frame)
    BY <1>1
  <2> HIDE DEF h, t
  <2>3. (a \o h) \o t = a \o (h \o t)
    BY <2>1, ConcatAssociative
  <2> QED
    BY <2>1, <2>2, <2>3 DEF t
<1>3. Flat(Append(a, Head(fr))) \o Flat(Tail(fr)) = Flat(a) \o Flat(fr)
  BY <1>1, <1>2, FlatConcat, ZenonT(60)
<1>4. fr = <<Head(fr)>> \o Tail(fr)
  BY <1>1
<1>5. Flat(fr) = Flat(<<Head(fr)>>) \o Flat(Tail(fr))
  BY <1>1, <1>4, FlatConcat
<1>6. Flat(<<Head(fr)>>) \in Seq(Byte) /\ Flat(Tail(fr)) \in Seq(Byte)
  BY <1>1, FlatType
<1>7. Len(Flat(Tail(fr))) <= Len(Flat(fr))
  BY <1>5, <1>6
<1> QED
  BY <1>1, <1>2, <1>3, <1>7 DEF queued_bytes

LEMMA PrefixOfConcat ==
    ASSUME NEW a \in Seq(Byte), NEW b \in Seq(Byte)
    PROVE  IsPrefix(a, a \o b)
<1>1. Len(a) <= Len(a \o b) /\ Len(a) \in Nat
  OBVIOUS
<1>2. SubSeq(a, 1, Len(a)) = SubSeq(a \o b, 1, Len(a))
  <2> DEFINE s == SubSeq(a, 1, Len(a))
             t == SubSeq(a \o b, 1, Len(a))
  <2>1. /\ s \in Seq(Byte) /\ t \in Seq(Byte) /\ Len(s) = Len(a) /\ Len(t) = Len(a)
        /\ \A i \in 1 .. Len(a) : s[i] = a[i] /\ t[i] = a[i]
    BY <1>1
  <2> HIDE DEF s, t
  <2>2. s = t
    BY <2>1, SeqEqual
  <2> QED
    BY <2>2 DEF s, t
<1> QED
  BY <1>1, <1>2 DEF IsPrefix

\* The first newline is found where there is one.
LEMMA FindFacts ==
    ASSUME NEW b \in Seq(Byte)
    PROVE  /\ Contains(b, Newline) => /\ find(b) \in 1 .. Len(b) /\ b[find(b)] = Newline
                                      /\ \A j \in 1 .. find(b) - 1 : b[j] # Newline
           /\ ~Contains(b, Newline) => find(b) = 0
<1>1. CASE Contains(b, Newline)
  <2> DEFINE Newlines == {i \in 1 .. Len(b) : b[i] = Newline}
  <2>1. Newlines \in SUBSET Nat /\ Newlines # {}
    BY <1>1 DEF Contains
  <2>2. PICK i \in Newlines : \A k \in Newlines : i <= k
    BY <2>1, LeastOf
  <2>3. \A j \in 1 .. i - 1 : b[j] # Newline
    BY <2>2
  <2>4. \E k \in 1 .. Len(b) : b[k] = Newline /\ \A j \in 1 .. k - 1 : b[j] # Newline
    BY <2>2, <2>3
  <2> QED
    BY <1>1, <2>4 DEF find
<1>2. CASE ~Contains(b, Newline)
  BY <1>2 DEF find
<1> QED
  BY <1>1, <1>2

-----------------------------------------------------------------------------
(* Queueing what is buffered.                                               *)

Roomy(fr) == Len(fr) > 1 => queued_bytes(fr) <= max_queued_bytes
Queue == [frames : Seq(Frame), buffer : Seq(Byte), error : {"none", "frame_limit"}]

\* No byte is lost or added, and the queue keeps its bound.
QueuedFrom(q, fr, buffer) ==
    /\ q \in Queue
    /\ Flat(q.frames) \o q.buffer = Flat(fr) \o buffer
    /\ Len(q.buffer) <= Len(buffer)
    /\ Contains(q.buffer, Newline) => Contains(buffer, Newline)
    /\ Roomy(fr) => Roomy(q.frames)

LEMMA BytesAssociate ==
    ASSUME NEW u \in Seq(Byte), NEW w \in Seq(Byte), NEW r \in Seq(Byte)
    PROVE  (u \o w) \o r = u \o (w \o r)
BY ConcatAssociative

\* A whole frame goes from the buffer to the queue.
LEMMA FrameMoves ==
    ASSUME NEW fr \in Seq(Frame), NEW b \in Seq(Byte), Contains(b, Newline),
           NEW n, n = find(b)
    PROVE  /\ n \in 1 .. Len(b)
           /\ SubSeq(b, 1, n - 1) \in Frame /\ Append(fr, SubSeq(b, 1, n - 1)) \in Seq(Frame)
           /\ SubSeq(b, n + 1, Len(b)) \in Seq(Byte)
           /\ Len(SubSeq(b, n + 1, Len(b))) = Len(b) - n
           /\ \A i \in 1 .. Len(b) - n : SubSeq(b, n + 1, Len(b))[i] = b[n + i]
           /\ Flat(Append(fr, SubSeq(b, 1, n - 1))) \o SubSeq(b, n + 1, Len(b)) = Flat(fr) \o b
           /\ queued_bytes(Append(fr, SubSeq(b, 1, n - 1))) = queued_bytes(fr) + n
<1> DEFINE x == SubSeq(b, 1, n - 1)
           r == SubSeq(b, n + 1, Len(b))
           w == Append(x, Newline)
           u == Flat(fr)
<1>1. n \in 1 .. Len(b) /\ b[n] = Newline /\ Len(b) \in Nat
  BY FindFacts
<1>2. x \in Seq(Byte) /\ Len(x) = n - 1 /\ \A i \in 1 .. n - 1 : x[i] = b[i]
  BY <1>1
<1>3. r \in Seq(Byte) /\ Len(r) = Len(b) - n /\ \A i \in 1 .. Len(b) - n : r[i] = b[n + i]
  BY <1>1
<1> HIDE DEF x, r
<1>4. w \in Seq(Byte) /\ Len(w) = n /\ \A i \in 1 .. n : w[i] = b[i]
  <2>1. /\ w \in Seq(Byte) /\ Len(w) = Len(x) + 1 /\ w[Len(x) + 1] = Newline
        /\ \A i \in 1 .. Len(x) : w[i] = x[i]
    BY <1>2, ByteFacts, AppendProperties
  <2> QED
    BY <1>1, <1>2, <2>1
<1> HIDE DEF w
<1>5. w \o r = b
  <2>1. /\ w \o r \in Seq(Byte) /\ Len(w \o r) = Len(b)
        /\ \A i \in 1 .. Len(b) : (w \o r)[i] = IF i <= n THEN w[i] ELSE r[i - n]
    BY <1>1, <1>3, <1>4, ConcatProperties
  <2>2. \A i \in 1 .. Len(b) : (w \o r)[i] = b[i]
    <3> TAKE i \in 1 .. Len(b)
    <3>1. CASE i <= n
      BY <1>1, <1>4, <2>1, <3>1
    <3>2. CASE ~(i <= n)
      <4>1. i - n \in 1 .. Len(b) - n /\ n + (i - n) = i
        BY <1>1, <3>2
      <4> QED
        BY <1>3, <2>1, <3>2, <4>1
    <3> QED
      BY <3>1, <3>2
  <2> QED
    BY <2>1, <2>2, SeqEqual
<1>6. x \in Frame /\ Append(fr, x) \in Seq(Frame)
  BY <1>2, AppendProperties DEF Frame
<1>7. Flat(Append(fr, x)) = u \o w
  BY <1>6, FlatAppend DEF w
<1>8. u \in Seq(Byte)
  BY FlatType
<1> HIDE DEF u
<1>9. (u \o w) \o r = u \o (w \o r)
  BY <1>3, <1>4, <1>8, BytesAssociate
<1>10. Len(u \o w) = Len(u) + n
  BY <1>4, <1>8, ConcatProperties
<1>11. queued_bytes(Append(fr, x)) = queued_bytes(fr) + n
  BY <1>7, <1>10 DEF queued_bytes, u
<1>12. Flat(Append(fr, x)) \o r = Flat(fr) \o b
  BY <1>5, <1>7, <1>9 DEF u
<1> QED
  BY <1>1, <1>3, <1>6, <1>11, <1>12 DEF x, r

LEMMA QueueOneFacts ==
    ASSUME NEW fr \in Seq(Frame), NEW buffer \in Seq(Byte), NEW q, QueuedFrom(q, fr, buffer)
    PROVE  /\ QueuedFrom(QueueOne(q), fr, buffer)
           /\ QueueOne(q) = q \/ Len(QueueOne(q).buffer) < Len(q.buffer)
              \/ QueueOne(q).error # "none"
<1> DEFINE n == find(q.buffer)
           frame == IF n = 0 THEN Len(q.buffer) ELSE n - 1
<1>1. q \in Queue /\ q.frames \in Seq(Frame) /\ q.buffer \in Seq(Byte)
  BY DEF QueuedFrom, Queue
<1>2. CASE q.error # "none"
  <2>1. QueueOne(q) = q
    BY <1>2 DEF QueueOne
  <2> QED
    BY <2>1
<1>3. CASE q.error = "none" /\ frame > max_frame_bytes
  <2> DEFINE p == [frames |-> q.frames, buffer |-> q.buffer, error |-> "frame_limit"]
  <2>1. QueueOne(q) = p
    BY <1>3 DEF QueueOne
  <2>2. p.frames = q.frames /\ p.buffer = q.buffer /\ p.error = "frame_limit" /\ p \in Queue
    BY <1>1 DEF Queue
  <2> HIDE DEF p
  <2>3. QueuedFrom(p, fr, buffer)
    BY <2>2 DEF QueuedFrom
  <2> QED
    BY <2>1, <2>2, <2>3
<1>4. CASE q.error = "none" /\ ~(frame > max_frame_bytes) /\ (n = 0 \/ Backpressured(q, n))
  <2>1. QueueOne(q) = q
    BY <1>4 DEF QueueOne
  <2> QED
    BY <2>1
<1>5. CASE q.error = "none" /\ ~(frame > max_frame_bytes) /\ ~(n = 0 \/ Backpressured(q, n))
  <2> DEFINE x == SubSeq(q.buffer, 1, n - 1)
             more == Append(q.frames, x)
             rest == SubSeq(q.buffer, n + 1, Len(q.buffer))
             p == [frames |-> more, buffer |-> rest, error |-> "none"]
  <2>1. QueueOne(q) = p
    BY <1>5 DEF QueueOne
  <2>2. Contains(q.buffer, Newline)
    BY <1>1, <1>5, FindFacts
  <2>3. /\ n \in 1 .. Len(q.buffer) /\ more \in Seq(Frame) /\ rest \in Seq(Byte)
        /\ Len(rest) = Len(q.buffer) - n
        /\ Flat(more) \o rest = Flat(q.frames) \o q.buffer
        /\ queued_bytes(more) = queued_bytes(q.frames) + n
    BY <1>1, <2>2, FrameMoves, ZenonT(60)
  <2>4. Len(more) = Len(q.frames) + 1 /\ Len(q.frames) \in Nat /\ Len(q.buffer) \in Nat
    <3>1. x \in Frame
      BY <1>1, <2>2, FrameMoves
    <3> QED
      BY <1>1, <3>1, AppendProperties
  <2> HIDE DEF more, rest
  <2>5. p.frames = more /\ p.buffer = rest /\ p.error = "none" /\ p \in Queue
    BY <2>3 DEF Queue
  <2> HIDE DEF p, n
  <2>6. Len(rest) < Len(q.buffer)
    BY <2>3, <2>4
  <2>7. Roomy(more)
    <3>1. ~(q.frames # <<>> /\ queued_bytes(q.frames) + n > max_queued_bytes)
      BY <1>5 DEF Backpressured
    <3>2. CASE q.frames = <<>>
      <4>1. Len(more) = 1
        BY <2>4, <3>2
      <4> QED
        BY <4>1 DEF Roomy
    <3>3. CASE q.frames # <<>>
      <4>1. queued_bytes(q.frames) \in Nat
        BY <1>1, FlatType DEF queued_bytes
      <4>2. queued_bytes(q.frames) + n <= max_queued_bytes
        BY <2>3, <3>1, <3>3, <4>1, PumpAssumption
      <4> QED
        BY <2>3, <4>2 DEF Roomy
    <3> QED
      BY <3>2, <3>3
  <2>8. QueuedFrom(p, fr, buffer)
    <3>1. Len(buffer) \in Nat /\ Len(rest) \in Nat
      BY <2>3
    <3>2. Len(rest) <= Len(buffer) /\ Contains(buffer, Newline)
      BY <2>2, <2>4, <2>6, <3>1 DEF QueuedFrom
    <3> QED
      BY <2>3, <2>5, <2>7, <3>2 DEF QueuedFrom
  <2> QED
    BY <2>1, <2>5, <2>6, <2>8
<1> QED
  BY <1>2, <1>3, <1>4, <1>5

\* The loop of queue_buffered_frames_locked is defined.
QueueLoop(f, start, n) ==
    /\ f = [i \in 0 .. n |-> f[i]] /\ f[0] = start
    /\ \A i \in 1 .. n : f[i] = QueueOne(f[i - 1])

LEMMA QueueExists ==
    ASSUME NEW start, NEW n \in Nat
    PROVE  \E f : QueueLoop(f, start, n)
<1> USE DEF QueueLoop
<1> DEFINE Loops(m, f) ==
             /\ f = [i \in 0 .. m |-> f[i]] /\ f[0] = start
             /\ \A i \in 1 .. m : f[i] = QueueOne(f[i - 1])
           Bad == {m \in Nat : ~\E f : Loops(m, f)}
<1> SUFFICES ASSUME Bad # {}
             PROVE  FALSE
  OBVIOUS
<1>1. PICK m \in Bad : \A k \in Bad : m <= k
  BY LeastOf
<1>2. m \in Nat /\ ~\E f : Loops(m, f)
  OBVIOUS
<1>3. m # 0
  <2> SUFFICES ASSUME m = 0
               PROVE  FALSE
    OBVIOUS
  <2> DEFINE f == [i \in 0 .. 0 |-> start]
  <2>1. f[0] = start /\ f = [i \in 0 .. 0 |-> f[i]] /\ \A i \in 1 .. 0 : FALSE
    OBVIOUS
  <2> QED
    BY <1>2, <2>1
<1>4. m - 1 \in Nat /\ m - 1 \notin Bad
  <2>1. m - 1 \in Nat /\ ~(m <= m - 1)
    BY <1>2, <1>3
  <2> HIDE DEF Bad
  <2> QED
    BY <1>1, <2>1
<1>5. PICK f : Loops(m - 1, f)
  BY <1>4
<1> DEFINE g == [i \in 0 .. m |-> IF i < m THEN f[i] ELSE QueueOne(f[m - 1])]
<1>6. Loops(m, g)
  <2>1. g = [i \in 0 .. m |-> g[i]] /\ g[0] = start
    BY <1>2, <1>3, <1>5
  <2>2. ASSUME NEW i \in 1 .. m
        PROVE  g[i] = QueueOne(g[i - 1])
    <3>1. g[i - 1] = f[i - 1] /\ g[i] = IF i < m THEN f[i] ELSE QueueOne(f[m - 1])
      BY <1>2
    <3>2. CASE i < m
      <4>1. i \in 1 .. m - 1
        BY <1>2, <3>2
      <4>2. f[i] = QueueOne(f[i - 1])
        BY <1>5, <4>1
      <4> QED
        BY <3>1, <3>2, <4>2
    <3>3. CASE ~(i < m)
      <4>1. i = m
        BY <1>2, <3>3
      <4> QED
        BY <3>1, <3>3, <4>1
    <3> QED
      BY <3>2, <3>3
  <2> QED
    BY <2>1, <2>2
<1> QED
  BY <1>2, <1>6

\* f holds the queue after each turn.
QueuedBy(f, fr, buffer, n) ==
    /\ queue_buffered_frames_locked(fr, buffer) = f[n]
    /\ f[0] = [frames |-> fr, buffer |-> buffer, error |-> "none"]
    /\ \A i \in 1 .. n : f[i] = QueueOne(f[i - 1])

LEMMA QueueTurns ==
    ASSUME NEW fr, NEW buffer, NEW n \in Nat, n = Len(buffer) + 1
    PROVE  \E f : QueuedBy(f, fr, buffer, n)
<1> DEFINE start == [frames |-> fr, buffer |-> buffer, error |-> "none"]
           Loops(f) ==
             f = [i \in 0 .. n |-> IF i = 0 THEN start ELSE QueueOne(f[i - 1])]
           p == CHOOSE f : Loops(f)
<1>2. queue_buffered_frames_locked(fr, buffer) = p[n]
  BY DEF queue_buffered_frames_locked
<1> HIDE DEF start
<1>1. Loops(p)
  <2>0. PICK f : QueueLoop(f, start, n)
    BY QueueExists
  <2>1. /\ f = [i \in 0 .. n |-> f[i]] /\ f[0] = start
        /\ \A i \in 1 .. n : f[i] = QueueOne(f[i - 1])
    BY <2>0 DEF QueueLoop
  <2>2. ASSUME NEW i \in 0 .. n
        PROVE  f[i] = IF i = 0 THEN start ELSE QueueOne(f[i - 1])
    <3>1. CASE i = 0
      BY <2>1, <3>1
    <3>2. CASE i # 0
      <4>1. i \in 1 .. n
        BY <3>2
      <4> QED
        BY <2>1, <3>2, <4>1
    <3> QED
      BY <3>1, <3>2
  <2>3. Loops(f)
    BY <2>1, <2>2
  <2> HIDE DEF Loops
  <2> QED
    BY <2>3
<1> HIDE DEF p
<1>3. 0 \in 0 .. n /\ \A i \in 1 .. n : i \in 0 .. n /\ i # 0
  OBVIOUS
<1>4. p[0] = start /\ \A i \in 1 .. n : p[i] = QueueOne(p[i - 1])
  BY <1>1, <1>3
<1>5. QueuedBy(p, fr, buffer, n)
  BY <1>2, <1>4 DEF QueuedBy, start
<1> QED
  BY <1>5

\* What is queued comes from the buffer, and what stays there without a
\* newline is no longer than a frame may be, unless the limit was hit.
LEMMA QueueFacts ==
    ASSUME NEW fr \in Seq(Frame), NEW buffer \in Seq(Byte),
           NEW q, q = queue_buffered_frames_locked(fr, buffer)
    PROVE  /\ QueuedFrom(q, fr, buffer)
           /\ q.error = "none" /\ ~Contains(q.buffer, Newline) => Len(q.buffer) <= max_frame_bytes
<1> DEFINE n == Len(buffer) + 1
           start == [frames |-> fr, buffer |-> buffer, error |-> "none"]
           Good(p, i) ==
             /\ QueuedFrom(p, fr, buffer)
             /\ QueueOne(p) = p \/ p.error # "none" \/ Len(p.buffer) + i <= Len(buffer)
<1>1. n \in Nat /\ n = Len(buffer) + 1 /\ Len(buffer) \in Nat
  OBVIOUS
<1> HIDE DEF n
<1>2. PICK f : QueuedBy(f, fr, buffer, n)
  BY <1>1, QueueTurns
<1>3. f[n] = q /\ f[0] = start /\ \A i \in 1 .. n : f[i] = QueueOne(f[i - 1])
  BY <1>2 DEF QueuedBy
<1>4. Good(start, 0)
  <2>1. start.frames = fr /\ start.buffer = buffer /\ start \in Queue
    BY DEF Queue
  <2> HIDE DEF start
  <2>2. QueuedFrom(start, fr, buffer)
    BY <1>1, <2>1 DEF QueuedFrom
  <2> QED
    BY <1>1, <2>1, <2>2
<1>5. ASSUME NEW p, NEW i \in Nat, Good(p, i)
      PROVE  Good(QueueOne(p), i + 1)
  <2> DEFINE r == QueueOne(p)
  <2>1. QueuedFrom(r, fr, buffer) /\ (r = p \/ Len(r.buffer) < Len(p.buffer) \/ r.error # "none")
    BY <1>5, QueueOneFacts
  <2>2. r.buffer \in Seq(Byte) /\ p.buffer \in Seq(Byte)
    BY <1>5, <2>1 DEF QueuedFrom, Queue
  <2>3. Len(r.buffer) \in Nat /\ Len(p.buffer) \in Nat
    BY <2>2
  <2>4. p.error # "none" => r = p
    BY DEF QueueOne
  <2>7. r = p \/ p.error # "none" \/ Len(p.buffer) + i <= Len(buffer)
    BY <1>5
  <2> HIDE DEF r
  <2>5. r = p => QueueOne(r) = r
    BY DEF r
  <2>6. QueueOne(r) = r \/ r.error # "none" \/ Len(r.buffer) + (i + 1) <= Len(buffer)
    <3>1. CASE r = p
      BY <2>5, <3>1
    <3>2. CASE r # p /\ r.error = "none"
      <4>1. Len(r.buffer) < Len(p.buffer) /\ Len(p.buffer) + i <= Len(buffer)
        BY <2>1, <2>4, <2>7, <3>2
      <4> DEFINE k == Len(r.buffer)
                 l == Len(p.buffer)
                 all == Len(buffer)
      <4>2. k \in Nat /\ l \in Nat /\ all \in Nat /\ k < l /\ l + i <= all
        BY <1>1, <2>3, <4>1
      <4> HIDE DEF k, l, all
      <4>3. k + (i + 1) <= all
        BY <4>2
      <4> QED
        BY <4>3 DEF k, all
    <3> QED
      BY <3>1, <3>2
  <2> QED
    BY <2>1, <2>6 DEF r
<1> HIDE DEF Good, start
<1> DEFINE Bad == {i \in 0 .. n : ~Good(f[i], i)}
<1>6. Bad = {}
  <2> SUFFICES ASSUME Bad # {}
               PROVE  FALSE
    OBVIOUS
  <2>1. Bad \in SUBSET Nat
    BY <1>1
  <2>2. PICK m \in Bad : \A k \in Bad : m <= k
    BY <2>1, LeastOf
  <2>3. m \in 0 .. n /\ ~Good(f[m], m) /\ m # 0
    BY <1>3, <1>4
  <2>4. m \in 1 .. n /\ m - 1 \in 0 .. n /\ m - 1 \in Nat /\ ~(m <= m - 1) /\ (m - 1) + 1 = m
    BY <1>1, <2>3
  <2> HIDE DEF Bad
  <2>5. m - 1 \notin Bad
    BY <2>2, <2>4
  <2>6. Good(f[m - 1], m - 1)
    BY <2>4, <2>5 DEF Bad
  <2>7. Good(QueueOne(f[m - 1]), (m - 1) + 1)
    BY <1>5, <2>4, <2>6
  <2> QED
    BY <1>3, <2>3, <2>4, <2>7
<1>7. Good(q, n)
  BY <1>1, <1>3, <1>6
<1>8. QueuedFrom(q, fr, buffer) /\ (QueueOne(q) = q \/ q.error # "none")
  <2>1. QueuedFrom(q, fr, buffer)
    BY <1>7 DEF Good
  <2>2. q.buffer \in Seq(Byte)
    BY <2>1 DEF QueuedFrom, Queue
  <2>3. Len(q.buffer) \in Nat
    BY <2>2
  <2>4. QueueOne(q) = q \/ q.error # "none" \/ Len(q.buffer) + n <= Len(buffer)
    BY <1>7 DEF Good
  <2>5. ~(Len(q.buffer) + n <= Len(buffer))
    <3> DEFINE k == Len(q.buffer)
               all == Len(buffer)
    <3>1. k \in Nat /\ all \in Nat /\ n = all + 1
      BY <1>1, <2>3
    <3> HIDE DEF k, all
    <3>2. ~(k + n <= all)
      BY <3>1
    <3> QED
      BY <3>2 DEF k, all
  <2> QED
    BY <2>1, <2>4, <2>5
<1>9. ASSUME q.error = "none", ~Contains(q.buffer, Newline)
      PROVE  Len(q.buffer) <= max_frame_bytes
  <2>1. q.buffer \in Seq(Byte) /\ Len(q.buffer) \in Nat /\ max_frame_bytes \in Nat
    BY <1>8, PumpAssumption DEF QueuedFrom, Queue
  <2>2. find(q.buffer) = 0
    BY <1>9, <2>1, FindFacts
  <2>3. Len(q.buffer) > max_frame_bytes => QueueOne(q).error = "frame_limit"
    BY <1>9, <2>2 DEF QueueOne
  <2> QED
    BY <1>8, <1>9, <2>1, <2>3
<1> QED
  BY <1>8, <1>9

-----------------------------------------------------------------------------
(* One step of the pump.                                                    *)

LEMMA StreamFacts ==
    ASSUME PumpTypes
    PROVE  /\ Flat(received) \in Seq(Byte) /\ Flat(frames) \in Seq(Byte)
           /\ Flat(received) \o Flat(frames) \in Seq(Byte)
           /\ Flat(received) \o Flat(frames) \o stdout_buffer \in Seq(Byte)
<1>1. /\ received \in Seq(Frame) /\ frames \in Seq(Frame) /\ stdout_buffer \in Seq(Byte)
  BY DEF PumpTypes
<1>2. Flat(received) \in Seq(Byte) /\ Flat(frames) \in Seq(Byte)
  BY <1>1, FlatType
<1>3. Flat(received) \o Flat(frames) \in Seq(Byte)
  BY <1>2, ConcatProperties
<1> QED
  BY <1>1, <1>2, <1>3, ConcatProperties

\* What the queue is made into, when the buffer is made b.
LEMMA BufferedFacts ==
    ASSUME PumpInv, NEW b \in Seq(Byte), NEW q, q = Buffered(b)
    PROVE  /\ q \in Queue /\ q.frames \in Seq(Frame) /\ q.buffer \in Seq(Byte)
           /\ q.error \in {"none", "frame_limit"}
           /\ use = "discard" \/ stdout_eof =>
                 q.frames = frames /\ q.buffer = stdout_buffer /\ q.error = "none"
           /\ use = "mcp" /\ ~stdout_eof =>
                 /\ QueuedFrom(q, frames, b)
                 /\ q.error = "none" /\ ~Contains(q.buffer, Newline) =>
                       Len(q.buffer) <= max_frame_bytes
<1>1. frames \in Seq(Frame) /\ stdout_buffer \in Seq(Byte) /\ use \in {"mcp", "discard"}
  BY DEF PumpInv, PumpTypes
<1>2. CASE use = "discard" \/ stdout_eof
  <2>1. q = [frames |-> frames, buffer |-> stdout_buffer, error |-> "none"]
    BY <1>2 DEF Buffered, discard_stdout
  <2> QED
    BY <1>1, <1>2, <2>1 DEF Queue
<1>3. CASE use = "mcp" /\ ~stdout_eof
  <2>1. q = queue_buffered_frames_locked(frames, b)
    BY <1>3 DEF Buffered, discard_stdout
  <2>2. /\ QueuedFrom(q, frames, b)
        /\ q.error = "none" /\ ~Contains(q.buffer, Newline) => Len(q.buffer) <= max_frame_bytes
    BY <1>1, <2>1, QueueFacts
  <2>3. q \in Queue
    BY <2>2 DEF QueuedFrom
  <2>4. q.frames \in Seq(Frame) /\ q.buffer \in Seq(Byte) /\ q.error \in {"none", "frame_limit"}
    BY <2>3 DEF Queue
  <2> QED
    BY <1>3, <2>2, <2>3, <2>4
<1> QED
  BY <1>1, <1>2, <1>3

\* A step that leaves the stream alone keeps the invariant if what it decides
\* is right and the error it sets says nothing of the end.
LEMMA UnmovedStep ==
    ASSUME PumpInv,
           UNCHANGED <<use, script, written, outPipe, frames, stdout_buffer, stdout_eof, received>>,
           outOpen' => outOpen,
           receiver' = receiver \/ (receiver' = "waiting" /\ use = "mcp"),
           NEW e \in PumpErrors \ {"stdout_eof", "unterminated_frame"},
           error' = IF error = "none" THEN e ELSE error,
           worker = "done" => worker' = "done",
           worker' = "done" /\ error' = "none" => stdout_eof,
           stop_requested' => error' # "none",
           use = "mcp" /\ worker' = "poll" /\ poll_stdout' => Unframed,
           use = "mcp" /\ worker' = "out" /\ "out" \in ready' => Unframed
    PROVE  PumpInv'
<1> USE DEF PumpInv
<1>1. PumpTypes'
  BY DEF PumpTypes, PumpErrors
<1>2. StreamInv'
  BY DEF StreamInv
<1>3. DecidedInv'
  BY DEF DecidedInv, Unframed
<1>4. EndInv'
  <2>1. /\ error' = "none" => error = "none"
        /\ error' = "stdout_eof" => error = "stdout_eof"
        /\ error' = "unterminated_frame" => error = "unterminated_frame"
    OBVIOUS
  <2> QED
    BY <2>1 DEF EndInv
<1>5. ToldInv'
  BY DEF ToldInv
<1>6. QueueIsBounded'
  BY DEF QueueIsBounded
<1> QED
  BY <1>1, <1>2, <1>3, <1>4, <1>5, <1>6

\* The steps that leave the stream alone.
LEMMA NotReadyStep ==
    ASSUME PumpInv, worker # "done", UNCHANGED <<child_, pipes, locked, polled, threads>>,
           worker' \in {"decide", "err"}
    PROVE  PumpInv'
<1>1. error' = IF error = "none" THEN "none" ELSE error
  BY DEF locked
<1>2. stop_requested' => error' # "none"
  BY DEF PumpInv, EndInv, locked
<1>3. UNCHANGED <<use, script, written, outPipe, frames, stdout_buffer, stdout_eof, received,
                  outOpen, receiver>>
  BY DEF child_, pipes, locked, threads
<1> HIDE DEF PumpInv
<1> QED
  BY <1>1, <1>2, <1>3, UnmovedStep DEF PumpErrors

LEMMA PollStep ==
    ASSUME PumpInv, poll
    PROVE  PumpInv'
<1>1. error' = IF error = "none" THEN "none" ELSE error
  BY DEF poll, locked
<1>2. UNCHANGED <<use, script, written, outPipe, frames, stdout_buffer, stdout_eof, received,
                  outOpen, receiver, stop_requested, error>>
  BY DEF poll, locked, pipes, KeepOthers, child_, threads
<1>3. stop_requested => error # "none"
  BY DEF PumpInv, EndInv
<1>4. worker = "poll" /\ worker' = (IF stop_requested THEN "done" ELSE "out") /\ ready' = Ready
  BY DEF poll
<1>5. use = "mcp" /\ worker' = "out" /\ "out" \in ready' => Unframed
  <2>1. "out" \in Ready => poll_stdout
    BY DEF Ready
  <2> QED
    BY <1>4, <2>1 DEF PumpInv, DecidedInv
<1> QED
  BY <1>1, <1>2, <1>3, <1>4, <1>5, UnmovedStep DEF PumpErrors

LEMMA StderrStep ==
    ASSUME PumpInv, read_stderr_once
    PROVE  PumpInv'
<1>1. UNCHANGED <<use, script, written, outPipe, frames, stdout_buffer, stdout_eof, received,
                  outOpen, receiver, stop_requested>>
  BY DEF read_stderr_once, locked, KeepOthers, child_, threads
<1>2. stop_requested => error # "none"
  BY DEF PumpInv, EndInv
<1>3. PICK e \in {"none", "output_limit"} :
          /\ error' = IF error = "none" THEN e ELSE error
          /\ worker' = IF e = "none" THEN "decide" ELSE "done"
  <2>1. CASE worker' = "decide" /\ error' = error
    BY <2>1
  <2>2. CASE \E n \in 1 .. ChunkBytes :
                /\ set_error_locked(IF account_output(n) THEN "none" ELSE "output_limit")
                /\ worker' = IF account_output(n) THEN "decide" ELSE "done"
    <3>1. PICK n \in 1 .. ChunkBytes :
                /\ set_error_locked(IF account_output(n) THEN "none" ELSE "output_limit")
                /\ worker' = IF account_output(n) THEN "decide" ELSE "done"
      BY <2>2
    <3>2. CASE account_output(n)
      BY <3>1, <3>2 DEF set_error_locked
    <3>3. CASE ~account_output(n)
      BY <3>1, <3>3 DEF set_error_locked
    <3> QED
      BY <3>2, <3>3
  <2> QED
    BY <2>1, <2>2 DEF read_stderr_once, locked
<1>4. worker = "err"
  BY DEF read_stderr_once
<1> QED
  BY <1>1, <1>2, <1>3, <1>4, UnmovedStep DEF PumpErrors

LEMMA FailStep ==
    ASSUME PumpInv, WorkerFails
    PROVE  PumpInv'
<1>1. UNCHANGED <<use, script, written, outPipe, frames, stdout_buffer, stdout_eof, received,
                  outOpen, receiver, stop_requested>>
  BY DEF WorkerFails, pipes, KeepOthers, child_, threads
<1>2. PICK e \in {"poll_failed", "stdout_read_failed", "stderr_read_failed",
                  "stderr_callback_failed"} : error' = IF error = "none" THEN e ELSE error
  BY DEF WorkerFails, set_error_locked
<1>3. worker' = "done"
  BY DEF WorkerFails, Exit
<1> QED
  BY <1>1, <1>2, <1>3, UnmovedStep DEF PumpErrors

\* The users of the pump and the child, when no byte of stdout moves.
LEMMA UsersStep ==
    ASSUME PumpInv, Receive \/ finish_draining \/ Join \/ WriteStderr \/ CloseOutput
    PROVE  PumpInv'
<1>1. UNCHANGED <<use, script, written, outPipe, frames, stdout_buffer, stdout_eof, received,
                  stop_requested, error, worker, poll_stdout, ready>>
  BY DEF Receive, finish_draining, Join, WriteStderr, CloseOutput, KeepWorker, KeepPump,
         child_, pipes, locked, polled, threads
<1>2. outOpen' => outOpen
  BY DEF Receive, finish_draining, Join, WriteStderr, CloseOutput, KeepWorker, pipes
<1>3. receiver' = receiver \/ (receiver' = "waiting" /\ use = "mcp")
  BY DEF Receive, finish_draining, Join, WriteStderr, CloseOutput, KeepPump, threads
<1>4. error' = IF error = "none" THEN "none" ELSE error
  BY <1>1
<1>5. /\ worker' = "done" /\ error' = "none" => stdout_eof
      /\ stop_requested' => error' # "none"
      /\ use = "mcp" /\ worker' = "poll" /\ poll_stdout' => Unframed
      /\ use = "mcp" /\ worker' = "out" /\ "out" \in ready' => Unframed
  BY <1>1 DEF PumpInv, EndInv, DecidedInv
<1> QED
  BY <1>1, <1>2, <1>3, <1>4, <1>5, UnmovedStep DEF PumpErrors

LEMMA StopStep ==
    ASSUME PumpInv, stop
    PROVE  PumpInv'
<1>1. UNCHANGED <<use, script, written, outPipe, frames, stdout_buffer, stdout_eof, received,
                  outOpen, receiver, worker, poll_stdout, ready>>
  BY DEF stop, KeepWorker, child_, pipes, polled
<1>2. error' = IF error = "none" THEN "stopped" ELSE error
  BY DEF stop, set_error_locked
<1>3. /\ use = "mcp" /\ worker' = "poll" /\ poll_stdout' => Unframed
      /\ use = "mcp" /\ worker' = "out" /\ "out" \in ready' => Unframed
  BY <1>1 DEF PumpInv, DecidedInv
<1> QED
  BY <1>1, <1>2, <1>3, UnmovedStep DEF PumpErrors

\* The child writes a byte.
LEMMA WriteStep ==
    ASSUME PumpInv, WriteStdout
    PROVE  PumpInv'
<1> DEFINE x == script[Len(written) + 1]
<1>1. /\ written' = Append(written, x) /\ outPipe' = Append(outPipe, x) /\ outOpen /\ x \in Byte
      /\ UNCHANGED <<use, script, frames, stdout_buffer, stdout_eof, received, outOpen, receiver,
                     stop_requested, error, worker, poll_stdout, ready>>
  <2>1. written \in Seq(Byte) /\ script \in Seq(Byte) /\ Len(written) < Len(script)
    BY DEF PumpInv, PumpTypes, WriteStdout
  <2>2. Len(written) + 1 \in 1 .. Len(script)
    BY <2>1
  <2>3. x \in Byte
    BY <2>1, <2>2, ElementOfSeq
  <2> QED
    BY <2>3 DEF WriteStdout, KeepPump, child_, locked, polled, threads
<1> HIDE DEF x
<1>2. PumpTypes'
  <2>1. written' \in Seq(Byte) /\ outPipe' \in Seq(Byte)
    BY <1>1, AppendProperties DEF PumpInv, PumpTypes
  <2> QED
    BY <1>1, <2>1 DEF PumpInv, PumpTypes
<1>3. StreamInv'
  <2>1. ASSUME use = "mcp"
        PROVE  Flat(received) \o Flat(frames) \o stdout_buffer \o outPipe' = written'
    <3> DEFINE s == Flat(received) \o Flat(frames) \o stdout_buffer
    <3>1. s \in Seq(Byte) /\ s \o outPipe = written /\ outPipe \in Seq(Byte)
      BY <2>1, StreamFacts DEF PumpInv, StreamInv, PumpTypes
    <3> HIDE DEF s
    <3>2. s \o Append(outPipe, x) = Append(s \o outPipe, x)
      BY <1>1, <3>1, ConcatAppend
    <3> QED
      BY <1>1, <3>1, <3>2 DEF s
  <2> QED
    BY <1>1, <2>1 DEF PumpInv, StreamInv
<1>4. DecidedInv' /\ QueueIsBounded'
  BY <1>1 DEF PumpInv, DecidedInv, Unframed, QueueIsBounded
<1>5. EndInv' /\ ToldInv'
  BY <1>1 DEF PumpInv, EndInv, ToldInv
<1> QED
  BY <1>2, <1>3, <1>4, <1>5 DEF PumpInv

\* The receiver takes a frame or is told why there is none.
LEMMA RecvStep ==
    ASSUME PumpInv, recv_frame
    PROVE  PumpInv'
<1> USE DEF PumpInv
<1>1. /\ UNCHANGED <<use, script, written, outPipe, outOpen, stdout_buffer, error, stop_requested,
                     stdout_eof, worker, poll_stdout, ready>>
      /\ receiver = "waiting" /\ use = "mcp"
  <2>1. receiver = "waiting"
    BY DEF recv_frame
  <2> QED
    BY <2>1 DEF recv_frame, KeepWorker, child_, pipes, polled, locked, StreamInv, PumpTypes
<1>2. CASE frames # <<>> /\ ~stop_requested
  <2>1. received' = Append(received, Head(frames)) /\ frames' = Tail(frames) /\ receiver' = "idle"
    BY <1>2 DEF recv_frame
  <2>2. received \in Seq(Frame) /\ frames \in Seq(Frame)
    BY DEF PumpTypes
  <2>3. /\ received' \in Seq(Frame) /\ frames' \in Seq(Frame)
        /\ Flat(received') \o Flat(frames') = Flat(received) \o Flat(frames)
        /\ Len(frames') = Len(frames) - 1 /\ queued_bytes(frames') <= queued_bytes(frames)
    BY <1>2, <2>1, <2>2, FlatMove
  <2>4. PumpTypes'
    BY <1>1, <2>1, <2>3 DEF PumpTypes
  <2>5. StreamInv'
    <3>1. (Flat(received)) ' = Flat(received') /\ (Flat(frames))' = Flat(frames')
      BY DEF Flat
    <3> QED
      BY <1>1, <2>3, <3>1 DEF StreamInv
  <2>6. DecidedInv'
    BY <1>1 DEF DecidedInv, Unframed
  <2>7. error # "stdout_eof"
    BY <1>2 DEF EndInv
  <2>8. EndInv' /\ ToldInv'
    BY <1>1, <2>1, <2>7 DEF EndInv, ToldInv
  <2>9. QueueIsBounded'
    <3>1. queued_bytes(frames) \in Nat /\ queued_bytes(frames') \in Nat
      BY <2>2, <2>3, FlatType DEF queued_bytes
    <3>2. Len(frames') > 1 => queued_bytes(frames') <= max_queued_bytes
      <4>1. Len(frames) \in Nat /\ Len(frames') \in Nat
        BY <2>2, <2>3
      <4>2. Len(frames') > 1 => Len(frames) > 1
        BY <2>3, <4>1
      <4>3. Len(frames') > 1 => queued_bytes(frames) <= max_queued_bytes
        BY <4>2 DEF QueueIsBounded
      <4> QED
        BY <2>3, <3>1, <4>3, PumpAssumption
    <3>3. (queued_bytes(frames))' = queued_bytes(frames')
      BY DEF queued_bytes
    <3> QED
      BY <1>1, <3>2, <3>3 DEF QueueIsBounded
  <2> QED
    BY <2>4, <2>5, <2>6, <2>8, <2>9
<1>3. CASE ~(frames # <<>> /\ ~stop_requested)
  <2>1. /\ receiver' = IF error = "none" THEN "stdout_eof" ELSE error
        /\ UNCHANGED <<received, frames>>
    BY <1>3 DEF recv_frame, locked
  <2>2. frames # <<>> \/ error # "none" \/ stop_requested \/ worker = "done"
    BY DEF recv_frame
  <2>3. error = "none" => worker = "done" /\ frames = <<>>
    BY <1>3, <2>2 DEF EndInv
  <2>4. PumpTypes'
    BY <1>1, <2>1 DEF PumpTypes, PumpErrors
  <2>5. StreamInv' /\ QueueIsBounded'
    BY <1>1, <2>1 DEF StreamInv, QueueIsBounded
  <2>6. DecidedInv' /\ EndInv'
    BY <1>1, <2>1 DEF DecidedInv, Unframed, EndInv
  <2>7. ToldInv'
    BY <1>1, <2>1, <2>3 DEF ToldInv, EndInv
  <2> QED
    BY <2>4, <2>5, <2>6, <2>7
<1> QED
  BY <1>2, <1>3

\* A step of the worker that queues what is buffered: b is the buffer with what
\* was read, and rest what is still in the pipe.
LEMMA QueueStep ==
    ASSUME PumpInv, NEW b \in Seq(Byte), NEW q, q = Buffered(b),
           NEW rest \in Seq(Byte), outPipe' = rest,
           frames' = q.frames, stdout_buffer' = q.buffer,
           UNCHANGED <<use, script, written, receiver, received>>,
           use = "mcp" => ~stdout_eof /\ stdout_buffer \o outPipe = b \o rest,
           error' \in PumpErrors
    PROVE  /\ PumpTypes' /\ StreamInv' /\ Roomy(frames')
           /\ Len(stdout_buffer') <= Len(b) \/ use = "discard"
           /\ use = "discard" => stdout_buffer' = <<>> /\ frames' = <<>>
<1>1. /\ q.frames \in Seq(Frame) /\ q.buffer \in Seq(Byte)
      /\ use = "discard" => q.frames = frames /\ q.buffer = stdout_buffer
      /\ use = "mcp" => QueuedFrom(q, frames, b)
  BY BufferedFacts
<1>2. use \in {"mcp", "discard"} /\ PumpTypes /\ StreamInv /\ Roomy(frames)
  BY DEF PumpInv, PumpTypes, QueueIsBounded, Roomy
<1>3. PumpTypes'
  BY <1>1, <1>2 DEF PumpTypes
<1>4. CASE use = "discard"
  <2>1. frames' = <<>> /\ stdout_buffer' = <<>>
    BY <1>1, <1>2, <1>4 DEF StreamInv
  <2>2. StreamInv'
    BY <1>2, <1>4, <2>1 DEF StreamInv
  <2>3. Roomy(frames')
    BY <1>1, <1>2, <1>4
  <2> QED
    BY <1>3, <1>4, <2>1, <2>2, <2>3
<1>5. CASE use = "mcp"
  <2>1. /\ Flat(q.frames) \o q.buffer = Flat(frames) \o b /\ Roomy(q.frames)
        /\ Len(q.buffer) <= Len(b)
    BY <1>1, <1>2, <1>5 DEF QueuedFrom
  <2> DEFINE r == Flat(received)
             f == Flat(frames)
             g == Flat(q.frames)
             c == q.buffer
             old == stdout_buffer
             pipe == outPipe
  <2>2. /\ r \in Seq(Byte) /\ f \in Seq(Byte) /\ g \in Seq(Byte) /\ c \in Seq(Byte)
        /\ old \in Seq(Byte) /\ pipe \in Seq(Byte)
    BY <1>1, <1>2, StreamFacts, FlatType DEF PumpTypes
  <2>3. r \o f \o old \o pipe = written /\ old \o pipe = b \o rest /\ g \o c = f \o b
    BY <1>2, <1>5, <2>1 DEF StreamInv
  <2> HIDE DEF r, f, g, c, old, pipe
  <2> DEFINE s == r \o f
  <2>4. s \in Seq(Byte)
    BY <2>2, ConcatProperties
  <2>5. (r \o g) \o c = s \o b
    <3>1. r \in Seq(Byte) /\ g \in Seq(Byte) /\ c \in Seq(Byte)
      BY <2>2
    <3>2. (r \o g) \o c = r \o (g \o c)
      BY <3>1, BytesAssociate
    <3>3. r \in Seq(Byte) /\ f \in Seq(Byte)
      BY <2>2
    <3>4. (r \o f) \o b = r \o (f \o b)
      BY <3>3, BytesAssociate
    <3> QED
      BY <2>3, <3>2, <3>4
  <2> HIDE DEF s
  <2>6. (s \o b) \o rest = written
    <3>1. (s \o b) \o rest = s \o (b \o rest)
      BY <2>4, BytesAssociate
    <3>2. s \in Seq(Byte) /\ old \in Seq(Byte) /\ pipe \in Seq(Byte)
      BY <2>2, <2>4
    <3>3. (s \o old) \o pipe = s \o (old \o pipe)
      BY <3>2, BytesAssociate
    <3> QED
      BY <2>3, <3>1, <3>3 DEF s
  <2>7. r \o g \o c \o rest = written
    BY <2>5, <2>6
  <2>8. Flat(received') = r /\ Flat(frames') = g
    BY DEF r, g
  <2>9. (Flat(received))' = Flat(received') /\ (Flat(frames))' = Flat(frames')
    BY DEF Flat
  <2>10. StreamInv'
    <3>1. stdout_buffer' = c /\ outPipe' = rest /\ use' = "mcp" /\ written' = written
      BY <1>5 DEF c
    <3>2. (Flat(received))' \o (Flat(frames))' \o stdout_buffer' \o outPipe' = written'
      BY <2>7, <2>8, <2>9, <3>1
    <3> QED
      BY <3>1, <3>2 DEF StreamInv
  <2> QED
    BY <1>3, <1>5, <2>1, <2>10 DEF c
<1> QED
  BY <1>2, <1>4, <1>5

LEMMA DrainStep ==
    ASSUME PumpInv, drain_loop
    PROVE  PumpInv'
<1>1. /\ worker = "decide"
      /\ UNCHANGED <<use, script, written, outPipe, outOpen, receiver, received>>
  BY DEF drain_loop, pipes, KeepOthers, child_, threads
<1>2. CASE stop_requested \/ error # "none"
  <2>1. /\ worker' = "done"
        /\ UNCHANGED <<frames, stdout_buffer, error, stop_requested, stdout_eof>>
    BY <1>2 DEF drain_loop, Exit, locked
  <2>2. error # "none"
    BY <1>2 DEF PumpInv, EndInv
  <2>3. error' = IF error = "none" THEN "none" ELSE error
    BY <2>1
  <2> QED
    BY <1>1, <2>1, <2>2, <2>3, UnmovedStep DEF PumpErrors
<1>3. CASE ~(stop_requested \/ error # "none")
  <2>1. PICK q : /\ q = Buffered(stdout_buffer)
                 /\ frames' = q.frames /\ stdout_buffer' = q.buffer /\ set_error_locked(q.error)
                 /\ poll_stdout' = (~stdout_eof /\ stdout_poll_enabled_locked(q))
                 /\ worker' = IF error' # "none" \/ (stdout_eof /\ stderr_eof)
                              THEN "done" ELSE "poll"
                 /\ UNCHANGED <<stop_requested, stdout_eof>>
    BY <1>3 DEF drain_loop
  <2>2. error' = q.error /\ error = "none" /\ ~stop_requested
    BY <1>3, <2>1 DEF set_error_locked
  <2>3. stdout_buffer \in Seq(Byte) /\ outPipe \in Seq(Byte) /\ use \in {"mcp", "discard"}
    BY DEF PumpInv, PumpTypes
  <2>4. /\ q.error \in {"none", "frame_limit"}
        /\ use = "discard" \/ stdout_eof => q.frames = frames /\ q.buffer = stdout_buffer
        /\ use = "mcp" /\ ~stdout_eof /\ q.error = "none" /\ ~Contains(q.buffer, Newline) =>
              Len(q.buffer) <= max_frame_bytes
    BY <2>1, <2>3, BufferedFacts
  <2>5. error' \in PumpErrors
    BY <2>2, <2>4 DEF PumpErrors
  <2>6. DecidedInv'
    <3>1. ASSUME use = "mcp", worker' = "poll", poll_stdout'
          PROVE  Unframed'
      <4>1. ~stdout_eof /\ q.error = "none" /\ ~Contains(q.buffer, Newline)
        BY <2>1, <3>1 DEF stdout_poll_enabled_locked, discard_stdout
      <4>2. Len(q.buffer) <= max_frame_bytes
        BY <2>4, <3>1, <4>1
      <4> QED
        BY <2>1, <4>1, <4>2 DEF Unframed
    <3>2. worker' # "out"
      BY <2>1
    <3> QED
      BY <1>1, <3>1, <3>2 DEF DecidedInv
  <2>7. EndInv'
    <3>1. stdout_eof => stdout_buffer' = stdout_buffer
      BY <2>1, <2>4
    <3>2. error' # "stdout_eof" /\ error' # "unterminated_frame"
      BY <2>2, <2>4
    <3>3. worker' = "done" /\ error' = "none" => stdout_eof
      BY <2>1
    <3> QED
      BY <1>1, <2>1, <2>2, <3>1, <3>2, <3>3 DEF PumpInv, EndInv
  <2>8. ToldInv'
    BY <1>1 DEF PumpInv, ToldInv
  <2>9. CASE stdout_eof
    <3>1. UNCHANGED <<frames, stdout_buffer>>
      BY <2>1, <2>4, <2>9
    <3>2. PumpTypes' /\ StreamInv'
      BY <1>1, <2>5, <3>1 DEF PumpInv, PumpTypes, StreamInv
    <3>3. QueueIsBounded'
      BY <2>2, <3>1 DEF PumpInv, QueueIsBounded
    <3> QED
      BY <2>6, <2>7, <2>8, <3>2, <3>3 DEF PumpInv
  <2>10. CASE ~stdout_eof
    <3> DEFINE b == stdout_buffer
               rest == outPipe
    <3>1. /\ b \in Seq(Byte) /\ rest \in Seq(Byte) /\ q = Buffered(b) /\ outPipe' = rest
          /\ stdout_buffer \o outPipe = b \o rest
      BY <1>1, <2>1, <2>3
    <3>2. /\ PumpTypes' /\ StreamInv' /\ Roomy(frames')
          /\ Len(stdout_buffer') <= Len(b) \/ use = "discard"
          /\ use = "discard" => stdout_buffer' = <<>>
      <4> HIDE DEF b, rest
      <4> QED
        BY <1>1, <2>1, <2>5, <2>10, <3>1, QueueStep
    <3>3. QueueIsBounded'
      <4>1. Len(stdout_buffer') \in Nat /\ Len(stdout_buffer) \in Nat
        BY <2>3, <3>2 DEF PumpTypes
      <4>2. Len(stdout_buffer) <= max_frame_bytes + ChunkBytes
        BY <2>2 DEF PumpInv, QueueIsBounded
      <4>3. Len(stdout_buffer') <= max_frame_bytes + ChunkBytes
        <5>1. CASE use = "discard"
          BY <3>2, <5>1, PumpAssumption
        <5>2. CASE use # "discard"
          BY <3>2, <4>1, <4>2, <5>2, PumpAssumption
        <5> QED
          BY <5>1, <5>2
      <4>4. (queued_bytes(frames))' = queued_bytes(frames')
        BY DEF queued_bytes
      <4> QED
        BY <3>2, <4>3, <4>4 DEF QueueIsBounded, Roomy
    <3> QED
      BY <2>6, <2>7, <2>8, <3>2, <3>3 DEF PumpInv
  <2> QED
    BY <2>9, <2>10
<1> QED
  BY <1>2, <1>3

\* The last byte of a sequence that ends in another one.
LEMMA LastOfConcat ==
    ASSUME NEW s \in Seq(Byte), NEW b \in Seq(Byte), b # <<>>
    PROVE  s \o b # <<>> /\ Last(s \o b) = b[Len(b)] /\ Len(b) \in 1 .. Len(b)
<1>1. Len(b) \in Nat \ {0} /\ Len(s) \in Nat
  BY EmptySeq
<1>2. /\ s \o b \in Seq(Byte) /\ Len(s \o b) = Len(s) + Len(b)
      /\ \A i \in 1 .. Len(s) + Len(b) :
            (s \o b)[i] = IF i <= Len(s) THEN s[i] ELSE b[i - Len(s)]
  BY ConcatProperties
<1>3. Len(s) + Len(b) \in 1 .. Len(s) + Len(b) /\ ~(Len(s) + Len(b) <= Len(s))
      /\ (Len(s) + Len(b)) - Len(s) = Len(b)
  BY <1>1
<1>4. (s \o b)[Len(s \o b)] = b[Len(b)]
  BY <1>2, <1>3
<1>5. s \o b # <<>>
  BY <1>1, <1>2
<1> QED
  BY <1>1, <1>4, <1>5 DEF Last

LEMMA EofStep ==
    ASSUME PumpInv, worker = "out", "out" \in ready, ReadEof,
           UNCHANGED <<use, script, written, outOpen, receiver, received, stop_requested>>
    PROVE  PumpInv'
<1>1. PICK q : /\ q = Buffered(stdout_buffer) /\ frames' = q.frames /\ stdout_buffer' = q.buffer
               /\ set_error_locked(IF discard_stdout \/ q.error # "none" THEN q.error
                                   ELSE IF q.buffer # <<>> THEN "unterminated_frame"
                                   ELSE IF q.frames = <<>> THEN "stdout_eof" ELSE "none")
  BY DEF ReadEof
<1>2. /\ outPipe = <<>> /\ ~outOpen /\ stdout_eof' = TRUE /\ outPipe' = outPipe
      /\ worker' = IF error' = "none" \/ discard_stdout THEN "err" ELSE "done"
  BY DEF ReadEof
<1>3. stdout_buffer \in Seq(Byte) /\ <<>> \in Seq(Byte) /\ use \in {"mcp", "discard"} /\ error \in PumpErrors
  BY DEF PumpInv, PumpTypes
<1>4. use = "mcp" => ~stdout_eof /\ ~Contains(stdout_buffer, Newline)
  BY DEF PumpInv, DecidedInv, Unframed
<1>5. /\ q.error \in {"none", "frame_limit"} /\ q.buffer \in Seq(Byte)
      /\ use = "discard" => q.error = "none"
      /\ use = "mcp" => ~Contains(q.buffer, Newline)
  BY <1>1, <1>3, <1>4, BufferedFacts DEF QueuedFrom
<1> DEFINE e == IF use = "discard" \/ q.error # "none" THEN q.error
                ELSE IF q.buffer # <<>> THEN "unterminated_frame"
                ELSE IF q.frames = <<>> THEN "stdout_eof" ELSE "none"
<1>6. /\ error' = IF error = "none" THEN e ELSE error
      /\ e \in {"none", "frame_limit", "unterminated_frame", "stdout_eof"}
  BY <1>1, <1>5 DEF set_error_locked, discard_stdout
<1>7. error' \in PumpErrors
  BY <1>3, <1>6 DEF PumpErrors
<1>8. /\ PumpTypes' /\ StreamInv' /\ Roomy(frames')
      /\ Len(stdout_buffer') <= Len(stdout_buffer) \/ use = "discard"
      /\ use = "discard" => stdout_buffer' = <<>>
  <2> DEFINE b == stdout_buffer
             rest == outPipe
  <2>1. /\ b \in Seq(Byte) /\ rest \in Seq(Byte) /\ q = Buffered(b) /\ outPipe' = rest
        /\ stdout_buffer \o outPipe = b \o rest /\ Len(b) = Len(stdout_buffer)
    BY <1>1, <1>2, <1>3
  <2> HIDE DEF b, rest, e
  <2> QED
    BY <1>1, <1>4, <1>7, <2>1, QueueStep
<1>9. error # "stdout_eof"
  BY DEF PumpInv, EndInv
<1>10. DecidedInv'
  BY <1>2 DEF DecidedInv
<1>11. EndInv'
  <2>1. stdout_eof' => ~outOpen' /\ outPipe' = <<>>
    BY <1>2
  <2>2. use' = "mcp" /\ stdout_eof' /\ error' = "none" => stdout_buffer' = <<>>
    BY <1>1, <1>6
  <2>3. error' = "stdout_eof" =>
           worker' = "done" /\ stdout_eof' /\ stdout_buffer' = <<>> /\ frames' = <<>>
    <3> SUFFICES ASSUME error' = "stdout_eof"
                 PROVE  worker' = "done" /\ stdout_eof' /\ stdout_buffer' = <<>> /\ frames' = <<>>
      OBVIOUS
    <3>1. e = "stdout_eof"
      BY <1>6, <1>9
    <3>2. use = "mcp" /\ q.buffer = <<>> /\ q.frames = <<>>
      BY <1>3, <1>5, <3>1
    <3> QED
      BY <1>1, <1>2, <3>2 DEF discard_stdout
  <2>4. error' = "unterminated_frame" =>
           ~outOpen' /\ written' # <<>> /\ Last(written') # Newline
    <3>1. CASE error = "unterminated_frame"
      BY <3>1 DEF PumpInv, EndInv
    <3>2. CASE error # "unterminated_frame" /\ error' = "unterminated_frame"
      <4>1. e = "unterminated_frame"
        BY <1>6, <3>2
      <4>2. use = "mcp" /\ q.buffer # <<>>
        BY <1>3, <1>5, <4>1
      <4> DEFINE s == Flat(received') \o Flat(frames')
                 c == q.buffer
      <4>3. s \in Seq(Byte)
        <5>1. received' \in Seq(Frame) /\ frames' \in Seq(Frame)
          BY <1>8 DEF PumpTypes
        <5>2. Flat(received') \in Seq(Byte) /\ Flat(frames') \in Seq(Byte)
          BY <5>1, FlatType
        <5> QED
          BY <5>2, ConcatProperties
      <4>4. s \o c \o <<>> = written'
        <5>1. (Flat(received))' = Flat(received') /\ (Flat(frames))' = Flat(frames')
          BY DEF Flat
        <5> QED
          BY <1>1, <1>2, <1>8, <4>2, <5>1 DEF StreamInv
      <4>5. c \in Seq(Byte) /\ c # <<>> /\ ~Contains(c, Newline)
        BY <1>5, <4>2
      <4> HIDE DEF s, c
      <4>6. s \o c \in Seq(Byte)
        BY <4>3, <4>5, ConcatProperties
      <4>7. written' = s \o c
        BY <4>4, <4>6, ConcatEmptySeq
      <4>8. s \o c # <<>> /\ Last(s \o c) = c[Len(c)] /\ Len(c) \in 1 .. Len(c)
        BY <4>3, <4>5, LastOfConcat
      <4>9. c[Len(c)] # Newline
        BY <4>5, <4>8 DEF Contains
      <4>10. Last(written') = c[Len(c)] /\ written' # <<>>
        BY <4>7, <4>8
      <4> QED
        BY <1>2, <4>9, <4>10
    <3> QED
      BY <3>1, <3>2
  <2>5. stop_requested' => error' # "none"
    BY <1>6 DEF PumpInv, EndInv
  <2>6. (Last(written))' = Last(written')
    BY DEF Last
  <2> HIDE DEF e
  <2> QED
    BY <1>2, <2>1, <2>2, <2>3, <2>4, <2>5, <2>6 DEF EndInv
<1>12. ToldInv'
  BY DEF PumpInv, ToldInv
<1>13. QueueIsBounded'
  <2>1. ASSUME error' = "none"
        PROVE  Len(stdout_buffer') <= max_frame_bytes + ChunkBytes
    <3>1. error = "none"
      BY <1>6, <2>1
    <3>2. Len(stdout_buffer') \in Nat /\ Len(stdout_buffer) \in Nat
      BY <1>3, <1>8 DEF PumpTypes
    <3>3. Len(stdout_buffer) <= max_frame_bytes + ChunkBytes
      BY <3>1 DEF PumpInv, QueueIsBounded
    <3>4. CASE use = "discard"
      BY <1>8, <3>4, PumpAssumption
    <3>5. CASE use # "discard"
      BY <1>8, <3>2, <3>3, <3>5, PumpAssumption
    <3> QED
      BY <3>4, <3>5
  <2>2. (queued_bytes(frames))' = queued_bytes(frames')
    BY DEF queued_bytes
  <2> QED
    BY <1>8, <2>1, <2>2 DEF QueueIsBounded, Roomy
<1> QED
  BY <1>8, <1>10, <1>11, <1>12, <1>13 DEF PumpInv

LEMMA BytesStep ==
    ASSUME PumpInv, worker = "out", "out" \in ready,
           NEW n \in 1 .. ChunkBytes, n <= Len(outPipe), ReadBytes(n),
           UNCHANGED <<use, script, written, outOpen, receiver, received, stop_requested>>
    PROVE  PumpInv'
<1> DEFINE chunk == SubSeq(outPipe, 1, n)
           rest == SubSeq(outPipe, n + 1, Len(outPipe))
           b == stdout_buffer \o chunk
<1>1. /\ stdout_buffer \in Seq(Byte) /\ outPipe \in Seq(Byte) /\ use \in {"mcp", "discard"}
      /\ error \in PumpErrors /\ ChunkBytes \in Nat /\ max_frame_bytes \in Nat
  BY PumpAssumption DEF PumpInv, PumpTypes
<1>2. n \in Nat /\ n \in 1 .. Len(outPipe) /\ Len(outPipe) \in Nat /\ n <= ChunkBytes
  BY <1>1
<1>3. ~stdout_eof /\ outPipe # <<>>
  BY <1>1, <1>2 DEF PumpInv, EndInv
<1>4. rest \in Seq(Byte) /\ chunk \in Seq(Byte) /\ Len(chunk) = n
  BY <1>1, <1>2
<1>5. chunk \o rest = outPipe
  <2>1. 1 \in 1 .. Len(outPipe) + 1 /\ n \in 1 - 1 .. Len(outPipe) /\ Len(outPipe) \in n .. Len(outPipe)
    BY <1>2
  <2>2. SubSeq(outPipe, 1, n) \o SubSeq(outPipe, n + 1, Len(outPipe)) = SubSeq(outPipe, 1, Len(outPipe))
    BY <1>1, <2>1, ConcatAdjacentSubSeq
  <2>3. SubSeq(outPipe, 1, Len(outPipe)) = outPipe
    BY <1>1, SubSeqFull
  <2> QED
    BY <2>2, <2>3
<1>6. outPipe' = rest /\ stdout_eof' = stdout_eof
  BY DEF ReadBytes
<1> HIDE DEF chunk, rest
<1>7. b \in Seq(Byte) /\ Len(b) = Len(stdout_buffer) + n
  BY <1>1, <1>4, ConcatProperties
<1>8. b \o rest = stdout_buffer \o outPipe
  BY <1>1, <1>4, <1>5, BytesAssociate
<1>9. error # "stdout_eof"
  BY DEF PumpInv, EndInv
<1>10. CASE use = "discard"
  <2>1. /\ UNCHANGED <<frames, stdout_buffer>>
        /\ \E e \in {"none", "output_limit"} :
              /\ error' = IF error = "none" THEN e ELSE error
              /\ worker' = IF e = "none" THEN "err" ELSE "done"
    <3>1. CASE account_output(n)
      <4>1. PICK q : /\ q = Buffered(stdout_buffer \o SubSeq(outPipe, 1, n))
                     /\ frames' = q.frames /\ stdout_buffer' = q.buffer
                     /\ set_error_locked(q.error) /\ worker' = "err"
        BY <1>10, <3>1 DEF ReadBytes, discard_stdout
      <4>2. q = [frames |-> frames, buffer |-> stdout_buffer, error |-> "none"]
        BY <1>10, <4>1 DEF Buffered, discard_stdout
      <4> QED
        BY <4>1, <4>2 DEF set_error_locked
    <3>2. CASE ~account_output(n)
      BY <3>2 DEF ReadBytes, set_error_locked
    <3> QED
      BY <3>1, <3>2
  <2>2. PICK e \in {"none", "output_limit"} :
              /\ error' = IF error = "none" THEN e ELSE error
              /\ worker' = IF e = "none" THEN "err" ELSE "done"
    BY <2>1
  <2>3. PumpTypes' /\ StreamInv'
    BY <1>4, <1>6, <1>10, <2>1, <2>2 DEF PumpInv, PumpTypes, PumpErrors, StreamInv
  <2>4. DecidedInv' /\ ToldInv'
    BY <1>10 DEF PumpInv, DecidedInv, ToldInv
  <2>5. EndInv'
    BY <1>3, <1>6, <1>9, <2>1, <2>2 DEF PumpInv, EndInv
  <2>6. QueueIsBounded'
    BY <2>1, <2>2 DEF PumpInv, QueueIsBounded
  <2> QED
    BY <2>3, <2>4, <2>5, <2>6 DEF PumpInv
<1>11. CASE use = "mcp"
  <2>1. PICK q : /\ q = Buffered(b) /\ frames' = q.frames /\ stdout_buffer' = q.buffer
                 /\ set_error_locked(q.error)
                 /\ worker' = IF error' = "none" THEN "err" ELSE "done"
    BY <1>11 DEF ReadBytes, account_output, discard_stdout, chunk
  <2> HIDE DEF b
  <2>2. q.error \in {"none", "frame_limit"}
    BY <1>7, <2>1, BufferedFacts
  <2>3. error' = (IF error = "none" THEN q.error ELSE error) /\ error' \in PumpErrors
    BY <1>1, <2>1, <2>2 DEF set_error_locked, PumpErrors
  <2>4. PumpTypes' /\ StreamInv' /\ Roomy(frames') /\ Len(stdout_buffer') <= Len(b)
    BY <1>3, <1>4, <1>6, <1>7, <1>8, <1>11, <2>1, <2>3, QueueStep
  <2>5. DecidedInv' /\ ToldInv'
    BY <2>1 DEF PumpInv, DecidedInv, ToldInv
  <2>6. EndInv'
    BY <1>3, <1>6, <1>9, <2>1, <2>2, <2>3 DEF PumpInv, EndInv
  <2>7. QueueIsBounded'
    <3>1. Len(stdout_buffer) <= max_frame_bytes
      BY <1>11 DEF PumpInv, DecidedInv, Unframed
    <3>2. Len(stdout_buffer') \in Nat /\ Len(stdout_buffer) \in Nat
      BY <1>1, <2>4 DEF PumpTypes
    <3>3. Len(stdout_buffer') <= max_frame_bytes + ChunkBytes
      <4> DEFINE k == Len(stdout_buffer')
                 l == Len(stdout_buffer)
      <4>1. k \in Nat /\ l \in Nat /\ k <= l + n /\ l <= max_frame_bytes
        BY <1>7, <2>4, <3>1, <3>2
      <4> HIDE DEF k, l
      <4>2. k <= max_frame_bytes + ChunkBytes
        BY <1>1, <1>2, <4>1
      <4> QED
        BY <4>2 DEF k
    <3>4. (queued_bytes(frames))' = queued_bytes(frames')
      BY DEF queued_bytes
    <3> QED
      BY <2>4, <3>3, <3>4 DEF QueueIsBounded, Roomy
  <2> QED
    BY <2>4, <2>5, <2>6, <2>7 DEF PumpInv
<1> QED
  BY <1>1, <1>10, <1>11

LEMMA PumpStep ==
    ASSUME PumpInv, [PumpNext]_pumpVars
    PROVE  PumpInv'
<1>1. CASE drain_loop
  BY <1>1, DrainStep
<1>2. CASE poll
  BY <1>2, PollStep
<1>3. CASE read_stdout_once
  <2>1. /\ worker = "out"
        /\ UNCHANGED <<use, script, written, outOpen, receiver, received>>
    BY <1>3 DEF read_stdout_once, KeepOthers, child_, threads
  <2>2. CASE "out" \notin ready /\ worker' = "err" /\ UNCHANGED <<locked, outPipe>>
    <3>1. UNCHANGED <<child_, pipes, locked, polled, threads>>
      BY <1>3, <2>2 DEF read_stdout_once, pipes, KeepOthers
    <3> QED
      BY <2>1, <2>2, <3>1, NotReadyStep
  <2>3. CASE "out" \in ready /\ UNCHANGED stop_requested /\ ReadEof
    BY <2>1, <2>3, EofStep
  <2>4. CASE /\ "out" \in ready /\ UNCHANGED stop_requested
             /\ \E n \in 1 .. ChunkBytes : n <= Len(outPipe) /\ ReadBytes(n)
    BY <2>1, <2>4, BytesStep
  <2> QED
    BY <1>3, <2>2, <2>3, <2>4 DEF read_stdout_once
<1>4. CASE read_stderr_once
  BY <1>4, StderrStep
<1>5. CASE WorkerFails
  BY <1>5, FailStep
<1>6. CASE Receive \/ finish_draining \/ Join \/ WriteStderr \/ CloseOutput
  BY <1>6, UsersStep
<1>7. CASE recv_frame
  BY <1>7, RecvStep
<1>8. CASE stop
  BY <1>8, StopStep
<1>9. CASE WriteStdout
  BY <1>9, WriteStep
<1>10. CASE UNCHANGED pumpVars
  BY <1>10 DEF pumpVars, child_, pipes, locked, polled, threads, PumpInv, PumpTypes, StreamInv,
               DecidedInv, Unframed, EndInv, ToldInv, QueueIsBounded
<1> QED
  BY <1>1, <1>2, <1>3, <1>4, <1>5, <1>6, <1>7, <1>8, <1>9, <1>10 DEF PumpNext, Worker, Users

\* The inductive invariant of the pump: every byte the child wrote is in one
\* place; the worker reads only on behind a frame that has not ended; and what
\* an end of file, an error or an answer says of the stream is so.
THEOREM PumpInvariant == PumpSpec => []PumpInv
<1>1. PumpInit => PumpInv
  <2> SUFFICES ASSUME PumpInit
               PROVE  PumpInv
    OBVIOUS
  <2>1. PumpTypes
    BY PumpAssumption DEF PumpInit, PumpTypes, PumpErrors, Byte
  <2>2. StreamInv
    <3>1. Flat(<<>>) = <<>> /\ <<>> \o <<>> = <<>>
      BY FlatNothing
    <3> QED
      BY <3>1 DEF PumpInit, StreamInv
  <2>3. DecidedInv /\ EndInv /\ ToldInv
    BY DEF PumpInit, DecidedInv, EndInv, ToldInv
  <2>4. QueueIsBounded
    <3>1. Len(<<>>) = 0
      OBVIOUS
    <3> QED
      BY <3>1, PumpAssumption DEF PumpInit, QueueIsBounded
  <2> QED
    BY <2>1, <2>2, <2>3, <2>4 DEF PumpInv
<1>2. PumpInv /\ [PumpNext]_pumpVars => PumpInv'
  BY PumpStep
<1> QED
  BY <1>1, <1>2, PTL DEF PumpSpec

\* What is received is what the child wrote, however reads split it, at a
\* bounded cost; an end is told only when it was reached, and a broken frame
\* only when the child left one.
THEOREM PumpFaithful == PumpSpec => []PumpIsFaithful
<1>1. PumpInv => PumpIsFaithful
  <2> SUFFICES ASSUME PumpInv
               PROVE  FramesAreFaithful /\ QueueIsBounded
    BY DEF PumpIsFaithful
  <2>1. /\ PumpTypes /\ StreamInv /\ EndInv /\ ToldInv /\ QueueIsBounded
        /\ use \in {"mcp", "discard"} /\ written \in Seq(Byte)
        /\ stdout_buffer \in Seq(Byte) /\ outPipe \in Seq(Byte)
    BY DEF PumpInv, PumpTypes
  <2>2. IsPrefix(Flat(received), written)
    <3>1. CASE use = "discard"
      <4>1. received = <<>> /\ Flat(<<>>) = <<>> /\ <<>> \in Seq(Byte)
        BY <2>1, <3>1, FlatNothing DEF StreamInv
      <4>2. <<>> \o written = written
        BY <2>1, ConcatEmptySeq
      <4>3. IsPrefix(<<>>, <<>> \o written)
        BY <2>1, <4>1, PrefixOfConcat
      <4> QED
        BY <4>1, <4>2, <4>3
    <3>2. CASE use = "mcp"
      <4> DEFINE r == Flat(received)
                 f == Flat(frames)
                 c == stdout_buffer
                 p == outPipe
      <4>1. /\ r \in Seq(Byte) /\ f \in Seq(Byte) /\ c \in Seq(Byte) /\ p \in Seq(Byte)
            /\ r \o f \o c \o p = written
        BY <2>1, <3>2, StreamFacts DEF StreamInv
      <4> HIDE DEF r, f, c, p
      <4>2. f \o c \in Seq(Byte) /\ (r \o f) \o c = r \o (f \o c)
        BY <4>1, BytesAssociate, ConcatProperties
      <4> DEFINE d == f \o c
      <4>3. d \in Seq(Byte) /\ (r \o d) \o p = written
        BY <4>1, <4>2
      <4> HIDE DEF d
      <4>4. d \o p \in Seq(Byte) /\ (r \o d) \o p = r \o (d \o p)
        <5>1. r \in Seq(Byte) /\ p \in Seq(Byte)
          BY <4>1
        <5> QED
          BY <4>3, <5>1, BytesAssociate, ConcatProperties
      <4>5. IsPrefix(r, r \o (d \o p))
        BY <4>1, <4>4, PrefixOfConcat
      <4> QED
        BY <4>3, <4>4, <4>5 DEF r
    <3> QED
      BY <2>1, <3>1, <3>2
  <2>3. receiver = "stdout_eof" => ~outOpen /\ Flat(received) = written
    <3> SUFFICES ASSUME receiver = "stdout_eof"
                 PROVE  ~outOpen /\ Flat(received) = written
      OBVIOUS
    <3>1. use = "mcp" /\ ~outOpen /\ stdout_buffer = <<>> /\ frames = <<>> /\ outPipe = <<>>
      BY <2>1 DEF StreamInv, ToldInv, EndInv
    <3>2. Flat(received) \o <<>> \o <<>> \o <<>> = written
      BY <2>1, <3>1, FlatNothing DEF StreamInv
    <3>3. Flat(received) \in Seq(Byte)
      BY <2>1, StreamFacts
    <3>4. Flat(received) \o <<>> = Flat(received)
      BY <3>3, ConcatEmptySeq
    <3> QED
      BY <3>1, <3>2, <3>4
  <2> QED
    BY <2>1, <2>2, <2>3 DEF FramesAreFaithful, StreamInv, ToldInv
<1> QED
  BY <1>1, PumpInvariant, PTL

---------------------------------------------------------------------------
(* The guest's ways out.  The invariant of the local-service proxy.        *)

Exchanging == {"receive", "boundary1", "boundary2", "boundary3", "boundary4", "check", "connect",
               "recheck", "forward", "pending", "gate", "send", "delivered", "failed", "leave"}
WorkerStates == [pc : Exchanging \cup {"off", "poll", "exit"}, conn : Nat, alias : Nat,
                 peer : Nat, late : BOOLEAN, n : Nat]
Frames == {"good", "bad", "eof"}
ConnStates == [state : {"none", "held", "queued", "open", "closed"}, alias : Nat,
               in : Seq(Frames), out : Nat, wrote : Nat]

JobType == job \in Jobs /\ create(job)
PhaseType ==
    phase \in {"new", "streams", "mkdir", "opendir", "discard", "binding", "starting", "ready",
              "serving", "stopping", "unlink", "rmdir", "rmdir_seen", "gone"}
BoundRecords == [alias : Aliases \cup {0}, step : {"", "remember", "chmod", "listen", "undo"}, id : Nat]
BoundType == bound \in BoundRecords /\ (bound.alias = 0 => bound.step = "")
Undos == [todo : SUBSET Aliases, alias : Aliases \cup {0}, seen : Nat]
NamesType ==
    /\ dir \in Nat /\ home \in Nat /\ replaced \in Nat /\ undo \in Undos
    /\ socks \in [Aliases -> Nat] /\ listeners \in [Aliases -> Nat] /\ host \in [Aliases -> Nat]
FilesType == PhaseType /\ BoundType /\ NamesType
WorkersType == workers \in [Workers -> WorkerStates]
StreamsType == conn \in [Conns -> ConnStates] /\ marks \in Int
ServiceType == JobType /\ FilesType /\ WorkersType /\ StreamsType

KnownInv ==
    /\ phase \notin {"new", "gone"} => Served # {}
    /\ phase \in {"mkdir", "opendir", "discard", "binding"} => ~inherited
    /\ phase \in {"new", "streams"} =>
         /\ marks = -1 /\ \A i \in Workers : workers[i].pc = "off"
         /\ \A c \in Conns : conn[c].state = "none"
    /\ inherited /\ phase \in {"starting", "ready"} => conn[1].state # "none"
    /\ \A c \in Conns : IF conn[c].state = "none" THEN conn[c].in = <<>>
                        ELSE conn[c].alias \in Aliases
    /\ \A i \in Workers :
         /\ workers[i].pc \in Exchanging => workers[i].alias \in Aliases
         /\ workers[i].pc \in Exchanging \/ (inherited /\ workers[i].pc # "off") =>
              workers[i].conn \in Conns /\ conn[workers[i].conn].state # "none"
         /\ inherited /\ workers[i].pc # "off" => workers[i].conn = 1

PinnedInv ==
    /\ contacted \subseteq {1}
    /\ \A i \in Workers :
         /\ workers[i].pc = "recheck" /\ host[workers[i].alias] = 1 => workers[i].peer = 1
         /\ workers[i].pc = "forward" => workers[i].peer = 1

GrantsInv ==
    phase \in {"streams", "mkdir", "opendir", "binding", "serving", "ready", "starting"} =>
         \A g \in job.grants : \A e \in Endpoints : g # e.object /\ g \notin e.above

AuditInv ==
    /\ ReleaseIsAudited
    /\ \A i \in Workers : workers[i].pc \in {"boundary4", "delivered"} => Exchange(i) \in released

Unanswered == {"boundary1", "check", "connect", "recheck", "forward", "boundary2", "pending",
               "gate", "boundary3", "send"}
Over == {"failed", "leave", "exit"}
Resting == {"off", "poll", "receive", "delivered"}
\* The stream as its worker's state pc finds it: every frame the guest wrote
\* waits, is being answered or was, and once the guest has pipelined there is
\* one more behind the frame that may still be answered.
StreamSound(pc) ==
    /\ "eof" \notin ToSet(conn[1].in) /\ pc \notin Over =>
         conn[1].wrote = conn[1].out + Len(conn[1].in) + (IF pc \in Unanswered THEN 1 ELSE 0)
    /\ marks # -1 =>
         /\ pc \in Resting => conn[1].out = marks /\ Len(conn[1].in) >= 2
         /\ pc \in Unanswered => conn[1].out = marks /\ Len(conn[1].in) >= 1
         /\ pc = "boundary4" => Len(conn[1].in) >= 1
GuestStreamInv ==
    /\ ~inherited => marks = -1
    /\ inherited =>
         /\ \A c \in Conns : c # 1 => conn[c].state = "none"
         /\ "eof" \in ToSet(conn[1].in) => conn[1].wrote = job.frames
         /\ marks # -1 => conn[1].out <= marks + 1
         /\ \A i \in Workers : StreamSound(workers[i].pc)

IdsInv == \A a \in Aliases : socks[a] <= replaced + 1 /\ listeners[a] <= replaced + 1
FreshInv ==
    /\ phase \in {"new", "streams", "mkdir", "opendir", "discard"} =>
         home = 0 /\ \A a \in Aliases : listeners[a] = 0 /\ socks[a] = 0
    /\ home = 0 /\ phase \notin {"opendir", "discard", "gone"} => dir = 0
    /\ phase = "rmdir_seen" => home # 0
BoundInv == bound.alias # 0 /\ socks[bound.alias] = 1 => bound.id \in {0, 1}
\* A socket the session made is listed, or the one being made; one whose
\* preparation failed stays only when the rollback does not know it.
MadeInv ==
    \A a \in Aliases : socks[a] = 1 =>
      \/ listeners[a] = 1
      \/ /\ listeners[a] = 0 /\ bound.alias = a
         /\ phase = "binding" \/ bound.id = 0
\* Between the look and the unlink the identity seen is the recorded one.
LookedInv ==
    /\ phase \notin {"binding", "unlink"} => undo.alias = 0
    /\ phase = "binding" /\ undo.alias # 0 =>
         bound.step = "undo" /\ bound.id # 0 /\ undo.alias = bound.alias /\ undo.seen = bound.id
    /\ phase = "unlink" =>
         /\ undo.alias # 0 => /\ undo.alias \in Aliases /\ listeners[undo.alias] # 0
                              /\ undo.seen = listeners[undo.alias]
         /\ \A a \in Aliases : listeners[a] # 0 /\ a \notin undo.todo /\ a # undo.alias =>
              socks[a] # listeners[a]
UnlinkedInv ==
    phase \in {"rmdir", "rmdir_seen", "gone"} =>
      \A a \in Aliases : listeners[a] # 0 => socks[a] # listeners[a]
OwnInv == IdsInv /\ FreshInv /\ BoundInv /\ MadeInv /\ LookedInv /\ UnlinkedInv /\ OwnIsRemoved

ServiceInv == ServiceType /\ KnownInv /\ PinnedInv /\ GrantsInv /\ AuditInv /\ GuestStreamInv /\ OwnInv

ClientFields == {"pc", "req", "addr", "gin", "gfin", "uin", "ufin", "gout", "uout", "usent",
                 "hand", "late", "sentBody", "cert", "code", "answer", "guestReads", "upReads"}
IsClient(k) == k = [f \in ClientFields |-> k[f]]
GatewayType ==
    /\ gateway \in Gateways
    /\ DOMAIN client = Clients /\ client = [c \in Clients |-> client[c]]
    /\ \A c \in Clients :
         IsClient(client[c]) /\ client[c].req \in gateway.requests \cup {gateway.other}
    /\ endpointClient \in Clients \cup {0}

ProxyStates == {"none", "passed", "read", "authorise", "audit", "relay", "closed"}
EndpointStates == {"none", "queued", "head", "audit", "body", "forward", "dial", "write",
                   "answer", "respond", "failed", "closed"}

\* The rule names the host and the port of the request.
Covers(rule, r) ==
    /\ rule.port = r.port
    /\ \/ r.host.labels = rule.host
       \/ /\ rule.suffix /\ Len(rule.host) < Len(r.host.labels)
          /\ \A i \in 1..Len(rule.host) :
               rule.host[i] = r.host.labels[Len(r.host.labels) - Len(rule.host) + i]
\* The guest showed its credential, and a rule gives it this address.
Dialled(rules, r, a) ==
    /\ r.auth = "good"
    /\ \E m \in DOMAIN rules : Covers(rules[m], r) /\ (private_address(a) => rules[m].private)

\* A tunnel's address was dialled by a rule, and nothing went through the
\* tunnel before its event was recorded.
ProxyClient(c, k) ==
    /\ k.pc \in ProxyStates /\ k.code = 0
    /\ k.pc = "authorise" => normalise_host(k.req.host) # NoHost
    /\ k.addr # "" => Dialled(gateway.rules, k.req, k.addr)
    /\ k.pc = "relay" \/ k.usent # 0 \/ k.gout # 0 => <<c, "allowed">> \in trail
ProxyInv ==
    gateway.kind = "proxy" => endpointClient = 0 /\ \A c \in Clients : ProxyClient(c, client[c])

\* An answer that may be given to the guest as a complete one.
Complete(a, method) == (a.whole \/ no_body(a, method)) /\ ~a.upgrade

\* What the endpoint's thread has established by each of its steps.
Recorded == {"body", "forward", "dial", "write", "answer", "respond"}
EndpointThread(g, k) ==
    /\ k.pc \in EndpointStates
    /\ k.pc \in EndpointStates \ {"answer", "respond", "failed", "closed"} => k.addr = ""
    /\ k.pc # "closed" => k.code = 0
    /\ k.pc = "audit" \/ k.pc \in Recorded => k.req.nonce = g.nonce
    /\ k.pc \in {"forward", "dial", "write", "answer", "respond"} => k.sentBody = k.req.length
    /\ k.pc \in {"dial", "write", "answer", "respond"} => g.upstream \in g.allowed_upstreams
    /\ k.pc \in {"write", "answer", "respond"} => k.cert = "names host"
    /\ k.pc = "respond" => Complete(k.answer[1], k.req.method)
    /\ k.addr # "" => /\ k.req.nonce = g.nonce /\ k.sentBody = k.req.length
                      /\ k.addr \in g.allowed_upstreams /\ k.cert = "names host"
    /\ k.code = 200 => Complete(k.answer[1], k.req.method) /\ k.answer[1].fields = "valid"
EndpointClient(c, k) ==
    /\ EndpointThread(gateway, k)
    /\ k.pc \in Recorded \/ k.addr # "" => <<c, "allowed">> \in trail
EndpointInv ==
    gateway.kind # "proxy" => \A c \in Clients : EndpointClient(c, client[c])

GatewayInv == GatewayType /\ ProxyInv /\ EndpointInv

-----------------------------------------------------------------------------
\* The options never change, and neither does what follows from them.
LEMMA JobFixed == Next => job' = job
BY DEF Next, Prepare, Destroy, Guest, WorkerStep, Admit, MakeStream, MakeDirectory,
   OpenDirectory, DiscardDirectory, BindListener,
   FinishListener, RememberListener, RollBack, EndBinding, StartWorker, HandOver, GuestConnect,
   GuestWrite, GuestClose, Replace,
   DropSession, RequestStop, JoinWorkers, RemoveSockets, CheckDirectory, RemoveDirectory, Accept,
   Wake,
   EndWorker, ReceiveFrame,
   Boundary, Connect, Recheck, Forward, Pending, Gate, Send, Settle, AdoptFails, Expire, quiet

LEMMA JobDefs ==
    job' = job => /\ Workers' = Workers /\ Aliases' = Aliases /\ Served' = Served
                  /\ inherited' = inherited /\ Endpoints' = Endpoints
BY DEF Workers, Aliases, Served, inherited, Endpoints, Selected

LEMMA ServedKnown ==
    ASSUME JobType PROVE Served \subseteq Aliases /\ Aliases \subseteq Nat \ {0}
BY ServiceAssumption DEF JobType, Served, Aliases, Selected, Endpoints

\* A step of worker i leaves the other workers alone.
LEMMA Went ==
    ASSUME WorkersType, NEW i \in Workers, NEW pc \in Exchanging \cup {"off", "poll", "exit"},
           Goto(i, pc)
    PROVE  /\ workers' \in [Workers -> WorkerStates]
           /\ workers'[i].pc = pc /\ workers'[i].conn = workers[i].conn
           /\ workers'[i].alias = workers[i].alias /\ workers'[i].peer = workers[i].peer
           /\ workers'[i].late = workers[i].late /\ workers'[i].n = workers[i].n
           /\ \A j \in Workers : j # i => workers'[j] = workers[j]
BY DEF WorkersType, WorkerStates, Goto

LEMMA WorkerSet ==
    ASSUME WorkersType, NEW i \in Workers, NEW k \in WorkerStates, workers' = [workers EXCEPT ![i] = k]
    PROVE  /\ workers' \in [Workers -> WorkerStates] /\ workers'[i] = k
           /\ \A j \in Workers : j # i => workers'[j] = workers[j]
BY DEF WorkersType

LEMMA ConnSet ==
    ASSUME StreamsType, NEW c \in Conns, NEW k \in ConnStates, conn' = [conn EXCEPT ![c] = k]
    PROVE  /\ conn' \in [Conns -> ConnStates] /\ conn'[c] = k
           /\ \A d \in Conns : d # c => conn'[d] = conn[d]
BY DEF StreamsType

LEMMA Left ==
    ASSUME StreamsType, NEW c, conn' = Leave(c)
    PROVE  /\ conn' \in [Conns -> ConnStates]
           /\ \A d \in Conns :
                IF d = c THEN /\ conn'[d].state = "closed" /\ conn'[d].alias = conn[d].alias
                              /\ conn'[d].in = conn[d].in /\ conn'[d].out = conn[d].out
                              /\ conn'[d].wrote = conn[d].wrote
                ELSE conn'[d] = conn[d]
BY DEF StreamsType, ConnStates, Leave

\* A frame that arrives, and one that is read.
LEMMA Appended ==
    ASSUME StreamsType, NEW c \in Conns, NEW f \in Frames, NEW n \in Nat
    PROVE  /\ [conn[c] EXCEPT !.in = Append(conn[c].in, f), !.wrote = n] \in ConnStates
           /\ Len(Append(conn[c].in, f)) = Len(conn[c].in) + 1
           /\ ToSet(Append(conn[c].in, f)) = ToSet(conn[c].in) \cup {f}
<1>1. conn[c] \in ConnStates /\ conn[c].in \in Seq(Frames)
  BY DEF StreamsType, ConnStates
<1>2. Append(conn[c].in, f) \in Seq(Frames)
  BY <1>1, AppendRange
<1>3. [conn[c] EXCEPT !.in = Append(conn[c].in, f), !.wrote = n] \in ConnStates
  BY <1>1, <1>2 DEF ConnStates
<1>4. /\ Len(Append(conn[c].in, f)) = Len(conn[c].in) + 1
      /\ Range(Append(conn[c].in, f)) = Range(conn[c].in) \cup {f}
  BY <1>1, AppendRange
<1>5. ToSet(Append(conn[c].in, f)) = Range(Append(conn[c].in, f)) /\ ToSet(conn[c].in) = Range(conn[c].in)
  BY DEF ToSet, Range
<1> QED
  BY <1>3, <1>4, <1>5

LEMMA Taken ==
    ASSUME StreamsType, NEW c \in Conns, conn[c].in # <<>>
    PROVE  /\ [conn[c] EXCEPT !.in = Tail(conn[c].in)] \in ConnStates
           /\ Len(Tail(conn[c].in)) = Len(conn[c].in) - 1
           /\ ToSet(conn[c].in) = ToSet(Tail(conn[c].in)) \cup {Head(conn[c].in)}
<1>1. conn[c] \in ConnStates /\ conn[c].in \in Seq(Frames)
  BY DEF StreamsType, ConnStates
<1>2. /\ Tail(conn[c].in) \in Seq(Frames) /\ Len(Tail(conn[c].in)) = Len(conn[c].in) - 1
      /\ ToSet(conn[c].in) = ToSet(Tail(conn[c].in)) \cup {Head(conn[c].in)}
  BY <1>1, HeadTailRange, ZenonT(60) DEF ToSet, Range
<1>3. [conn[c] EXCEPT !.in = Tail(conn[c].in)] \in ConnStates
  BY <1>1, <1>2 DEF ConnStates
<1> QED
  BY <1>2, <1>3

LEMMA Unmoved ==
    ASSUME ServiceType, UNCHANGED quiet, workers' \in [Workers -> WorkerStates],
           conn' \in [Conns -> ConnStates], marks' = marks
    PROVE  ServiceType'
<1>1. Workers' = Workers /\ Aliases' = Aliases
  BY JobDefs DEF quiet
<1> QED
  BY <1>1 DEF ServiceType, JobType, FilesType, PhaseType, BoundType, BoundRecords, NamesType, Undos,
     WorkersType, StreamsType, quiet, made

\* Where a worker's step takes it, when it only moves on.
LEMMA Moves ==
    ASSUME NEW i \in Workers,
           EndWorker(i) \/ ReceiveFrame(i) \/ Boundary(i) \/ Recheck(i) \/ Forward(i) \/ Pending(i)
           \/ Gate(i) \/ Settle(i) \/ AdoptFails(i)
    PROVE  \E pc \in Exchanging \cup {"off", "poll", "exit"} : Goto(i, pc)
<1>1. \E pc \in {"exit", "leave", "failed", "boundary1", "check", "pending", "send", "delivered",
                 "forward", "boundary2", "gate", "boundary3", "poll"} : Goto(i, pc)
  <2>1. CASE EndWorker(i) \/ ReceiveFrame(i) \/ Recheck(i) \/ Forward(i) \/ Pending(i)
    BY <2>1 DEF EndWorker, ReceiveFrame, Recheck, Forward, Pending
  <2>2. CASE Boundary(i)
    BY <2>2 DEF Boundary
  <2>3. CASE Gate(i) \/ Settle(i) \/ AdoptFails(i)
    BY <2>3 DEF Gate, Settle, AdoptFails
  <2> QED
    BY <2>1, <2>2, <2>3
<1> QED
  BY <1>1 DEF Exchanging

LEMMA UnlinkTypes ==
    ASSUME NamesType, Unlink PROVE socks' \in [Aliases -> Nat] /\ undo' \in Undos
<1>1. PICK id \in {0, socks[undo.alias]} : socks' = [socks EXCEPT ![undo.alias] = id]
  BY DEF Unlink
<1>2. socks' \in [Aliases -> Nat]
  <2>1. CASE undo.alias \in Aliases
    <3>1. id \in Nat
      BY <1>1, <2>1 DEF NamesType
    <3> QED
      BY <1>1, <3>1 DEF NamesType
  <2>2. CASE undo.alias \notin Aliases
    <3>1. socks' = socks
      BY <1>1, <2>2 DEF NamesType
    <3> QED
      BY <3>1 DEF NamesType
  <2> QED
    BY <2>1, <2>2
<1>3. undo \in Undos
  BY DEF NamesType
<1>4. [undo EXCEPT !.alias = 0, !.seen = 0] \in Undos
  BY <1>3 DEF Undos
<1> QED
  BY <1>2, <1>4 DEF Unlink

LEMMA BoundIdIs == ASSUME bound \in BoundRecords PROVE bound.id \in Nat
BY DEF BoundRecords

\* What becomes of the record of a listener being made.
LEMMA BoundMoves ==
    ASSUME bound \in BoundRecords, bound.alias # 0, NEW n, n = 0 \/ n = bound.id
    PROVE  /\ NoBound \in BoundRecords /\ NoBound.alias = 0 /\ NoBound.step = ""
           /\ \A b \in {[bound EXCEPT !.step = "listen"], [bound EXCEPT !.step = "undo", !.id = n]} :
                b \in BoundRecords /\ b.alias = bound.alias /\ b.id \in {0, bound.id}
<1>0. n \in Nat
  <2>1. bound.id \in Nat
    BY BoundIdIs
  <2> QED
    BY <2>1
<1>1. /\ [bound EXCEPT !.step = "listen"] \in BoundRecords
      /\ [bound EXCEPT !.step = "listen"].alias = bound.alias
      /\ [bound EXCEPT !.step = "listen"].id = bound.id
  BY DEF BoundRecords
<1>2. /\ [bound EXCEPT !.step = "undo", !.id = n] \in BoundRecords
      /\ [bound EXCEPT !.step = "undo", !.id = n].alias = bound.alias
      /\ [bound EXCEPT !.step = "undo", !.id = n].id = n
  BY <1>0 DEF BoundRecords
<1>3. NoBound \in BoundRecords /\ NoBound.alias = 0 /\ NoBound.step = ""
  BY DEF BoundRecords, NoBound
<1> QED
  BY <1>1, <1>2, <1>3

LEMMA TypeKeeps ==
    ASSUME ServiceType, KnownInv, Next
    PROVE  ServiceType'
<1>0. /\ Workers' = Workers /\ Aliases' = Aliases /\ job' = job
      /\ Served \subseteq Aliases /\ Aliases \subseteq Nat \ {0}
  BY JobFixed, JobDefs, ServedKnown DEF ServiceType
<1>a. JobType' /\ (UNCHANGED workers => WorkersType') /\ (UNCHANGED <<conn, marks>> => StreamsType')
  BY <1>0 DEF ServiceType, JobType, WorkersType, StreamsType
<1>r. BoundRecords' = BoundRecords /\ Undos' = Undos
  BY <1>0 DEF BoundRecords, Undos
<1>b. UNCHANGED <<phase, bound, made, replaced, host>> => FilesType'
  BY <1>0, <1>r DEF ServiceType, FilesType, PhaseType, BoundType, NamesType, made
<1>n. ASSUME undo \in Undos, NEW a
      PROVE  /\ [undo EXCEPT !.todo = undo.todo \ {a}] \in Undos
             /\ [undo EXCEPT !.alias = 0, !.seen = 0] \in Undos
             /\ a \in Aliases => [undo EXCEPT !.todo = undo.todo \ {a}, !.alias = a,
                                                 !.seen = socks[a]] \in Undos
  BY <1>n DEF Undos, ServiceType, FilesType, NamesType
<1>l. ASSUME Unlink PROVE socks' \in [Aliases -> Nat] /\ undo' \in Undos
  BY <1>l, <1>n, UnlinkTypes DEF ServiceType, FilesType
<1>1. CASE Admit \/ EndBinding \/ DropSession \/ CheckDirectory
  <2>1. PhaseType' /\ BoundType'
    BY <1>r, <1>1 DEF Admit, EndBinding, DropSession, CheckDirectory, ServiceType, FilesType,
       PhaseType,
       BoundType
  <2>2. NamesType'
    BY <1>0, <1>1 DEF Admit, EndBinding, DropSession, CheckDirectory, made, ServiceType, FilesType,
       NamesType, Undos
  <2> QED
    BY <1>1, <1>a, <2>1, <2>2 DEF Admit, EndBinding, DropSession, CheckDirectory, history,
       ServiceType, FilesType
<1>j. CASE JoinWorkers
  <2>1. undo' \in Undos
    BY <1>0, <1>j DEF JoinWorkers, ServiceType, FilesType, NamesType, Undos
  <2>2. PhaseType' /\ BoundType'
    BY <1>r, <1>j DEF JoinWorkers, ServiceType, FilesType, PhaseType, BoundType
  <2>3. NamesType'
    BY <1>0, <1>j, <2>1 DEF JoinWorkers, ServiceType, FilesType, NamesType, Undos
  <2> QED
    BY <1>j, <1>a, <2>2, <2>3 DEF JoinWorkers, history, ServiceType, FilesType
<1>2. CASE MakeStream
  <2>1. (CHOOSE a \in Served : TRUE) \in Nat
    BY <1>0, <1>2 DEF MakeStream, KnownInv
  <2>2. create_inherited_socketpair \in ConnStates
    <3>1. <<>> \in Seq(Frames)
      BY EmptySequence
    <3> QED
      BY <2>1, <3>1 DEF create_inherited_socketpair, NoConn, ConnStates
  <2>3. StreamsType'
    BY <1>2, <2>2 DEF MakeStream, ServiceType, StreamsType, history
  <2>4. FilesType'
    BY <1>0, <1>r, <1>2 DEF MakeStream, made, ServiceType, FilesType, PhaseType, BoundType,
       NamesType
  <2> QED
    BY <1>2, <1>a, <2>3, <2>4 DEF MakeStream, ServiceType
<1>3. CASE MakeDirectory \/ OpenDirectory \/ DiscardDirectory
  <2>1. PhaseType' /\ BoundType'
    BY <1>r, <1>3 DEF MakeDirectory, OpenDirectory, DiscardDirectory, ServiceType, FilesType,
       PhaseType,
       BoundType
  <2>2. NamesType'
    BY <1>0, <1>3 DEF MakeDirectory, OpenDirectory, DiscardDirectory, ServiceType, FilesType,
       NamesType, Undos
  <2> QED
    BY <1>3, <1>a, <2>1, <2>2 DEF MakeDirectory, OpenDirectory, DiscardDirectory, history,
       ServiceType, FilesType
<1>4. CASE BindListener
  <2>1. PICK a \in Served :
         \/ /\ socks' = [socks EXCEPT ![a] = 1]
            /\ bound' = [alias |-> a, step |-> "remember", id |-> 0] /\ phase' = phase
         \/ phase' = "stopping" /\ UNCHANGED <<socks, bound>>
    BY <1>4, Zenon DEF BindListener
  <2>2. a \in Aliases /\ a # 0
    BY <1>0
  <2>3. PhaseType' /\ BoundType'
    <3>1. PhaseType'
      BY <2>1 DEF ServiceType, FilesType, PhaseType
    <3>2. [alias |-> a, step |-> "remember", id |-> 0] \in BoundRecords
      BY <2>2 DEF BoundRecords
    <3> QED
      <4>1. CASE bound' = [alias |-> a, step |-> "remember", id |-> 0]
        <5>1. bound'.alias # 0
          BY <2>2, <4>1
        <5> QED
          BY <1>r, <3>1, <3>2, <4>1, <5>1 DEF BoundType
      <4>2. CASE UNCHANGED bound
        BY <1>r, <3>1, <4>2 DEF ServiceType, FilesType, BoundType
      <4> QED
        BY <2>1, <4>1, <4>2
  <2>4. NamesType'
    BY <1>0, <1>4, <2>1 DEF BindListener, ServiceType, FilesType, NamesType, Undos
  <2> QED
    BY <1>4, <1>a, <2>3, <2>4 DEF BindListener, history, ServiceType, FilesType
<1>5. CASE RememberListener \/ FinishListener
  <2>0. bound \in BoundRecords /\ \A a \in Aliases : socks[a] \in Nat
    BY DEF ServiceType, FilesType, BoundType, NamesType
  <2>1. CASE RememberListener
    <3>1. PICK n : /\ n \in Nat /\ bound.alias # 0
                   /\ \/ bound' = [bound EXCEPT !.step = "chmod", !.id = n]
                      \/ bound' = [bound EXCEPT !.step = "chmod"]
      BY <2>0, <2>1 DEF RememberListener, BoundRecords
    <3>2. bound' \in BoundRecords /\ bound'.alias # 0
      BY <2>0, <3>1 DEF BoundRecords
    <3>3. UNCHANGED <<phase, made, replaced, host, workers, conn, marks>>
      BY <2>1 DEF RememberListener, history
    <3> QED
      BY <1>0, <1>r, <1>a, <3>2, <3>3 DEF ServiceType, FilesType, PhaseType, BoundType,
         NamesType, Undos,
         made
  <2>2. CASE FinishListener
    <3>1. /\ UNCHANGED <<phase, dir, home, socks, undo, replaced, host, workers, conn, marks>>
          /\ bound.alias # 0
          /\ \/ UNCHANGED listeners
             \/ listeners' = [listeners EXCEPT ![bound.alias] = inspect_socket(bound.alias)]
      BY <2>2 DEF FinishListener, history
    <3>2. bound' \in BoundRecords /\ (bound'.alias = 0 => bound'.step = "")
      <4>1. PICK n :
              /\ n = 0 \/ n = bound.id
              /\ \/ bound' = [bound EXCEPT !.step = "listen"]
                 \/ bound' = NoBound
                 \/ bound' = [bound EXCEPT !.step = "undo", !.id = n]
        BY <2>2 DEF FinishListener
      <4> QED
        <5>1. NoBound \in BoundRecords /\ NoBound.alias = 0 /\ NoBound.step = ""
          BY <2>0, <3>1, BoundMoves
        <5>2. ASSUME bound' \in {[bound EXCEPT !.step = "listen"],
                                 [bound EXCEPT !.step = "undo", !.id = n]}
              PROVE  bound' \in BoundRecords /\ bound'.alias # 0
          BY <2>0, <3>1, <4>1, <5>2, BoundMoves
        <5> QED
          BY <4>1, <5>1, <5>2
    <3>3. listeners' \in [Aliases -> Nat]
      BY <3>1 DEF ServiceType, FilesType, NamesType, inspect_socket
    <3> QED
      BY <1>0, <1>r, <1>a, <3>1, <3>2, <3>3 DEF ServiceType, FilesType, PhaseType, BoundType,
         NamesType,
         Undos
  <2> QED
    BY <1>5, <2>1, <2>2
<1>6. CASE RollBack \/ RemoveSockets
  <2>0. undo \in Undos
    BY DEF ServiceType, FilesType, NamesType
  <2>1. /\ UNCHANGED <<bound, dir, home, listeners, replaced, host, workers, conn, marks>>
        /\ phase' \in {phase, "stopping", "rmdir"}
    BY <1>6 DEF RollBack, RemoveSockets, history
  <2>2. socks' \in [Aliases -> Nat] /\ undo' \in Undos
    <3>1. CASE RollBack
      <4>1. bound.alias \in Aliases
        BY <3>1 DEF RollBack, ServiceType, FilesType, BoundType, BoundRecords
      <4> QED
        BY <1>l, <1>n, <2>0, <3>1, <4>1 DEF RollBack, Look, ServiceType, FilesType, NamesType
    <3>2. CASE RemoveSockets
      <4>1. ASSUME NEW a \in undo.todo, UNCHANGED socks,
                   Look(a) \/ undo' = [undo EXCEPT !.todo = @ \ {a}]
            PROVE  socks' \in [Aliases -> Nat] /\ undo' \in Undos
        <5>1. a \in Aliases
          BY <2>0 DEF Undos
        <5> QED
          BY <1>n, <2>0, <4>1, <5>1 DEF Look, ServiceType, FilesType, NamesType
      <4> QED
        BY <1>l, <3>2, <4>1 DEF RemoveSockets, ServiceType, FilesType, NamesType
    <3> QED
      BY <1>6, <3>1, <3>2
  <2>3. PhaseType' /\ BoundType'
    BY <1>r, <2>1 DEF ServiceType, FilesType, PhaseType, BoundType
  <2>4. NamesType'
    BY <1>0, <2>1, <2>2 DEF ServiceType, FilesType, NamesType, Undos
  <2> QED
    BY <1>a, <2>1, <2>3, <2>4 DEF ServiceType, FilesType
<1>7. CASE StartWorker
  <2>1. FilesType'
    BY <1>0, <1>r, <1>7 DEF StartWorker, ServiceType, FilesType, PhaseType, BoundType, NamesType,
       made
  <2>2. WorkersType'
    <3>1. CASE UNCHANGED workers
      BY <1>a, <3>1
    <3>2. ASSUME NEW i, workers' = [workers EXCEPT ![i] = [@ EXCEPT !.pc = "poll",
                                                     !.conn = IF inherited THEN 1 ELSE 0]]
          PROVE  WorkersType'
      BY <1>0, <3>2, ZenonT(60) DEF ServiceType, WorkersType, WorkerStates
    <3> QED
      BY <1>7, <3>1, <3>2 DEF StartWorker
  <2> QED
    BY <1>7, <1>a, <2>1, <2>2 DEF StartWorker, history, ServiceType
<1>8. CASE HandOver
  <2>1. FilesType'
    BY <1>0, <1>r, <1>8 DEF HandOver, ServiceType, FilesType, PhaseType, BoundType, NamesType, made
  <2>2. StreamsType'
    <3>1. CASE conn' = [conn EXCEPT ![1].state = "open"]
      <4>1. [conn[1] EXCEPT !.state = "open"] \in ConnStates
        BY ServiceAssumption DEF ServiceType, StreamsType, ConnStates
      <4> QED
        BY <1>8, <3>1, <4>1, ConnSet, ServiceAssumption DEF HandOver, ServiceType, StreamsType,
           history
    <3> QED
      BY <1>8, <3>1 DEF HandOver, ServiceType, StreamsType, history
  <2> QED
    BY <1>8, <1>a, <2>1, <2>2 DEF HandOver, ServiceType
<1>9. ASSUME NEW c \in Conns, GuestConnect(c) PROVE ServiceType'
  <2>1. PICK a \in Served : conn' = [conn EXCEPT ![c].state = "queued", ![c].alias = a]
    BY <1>9 DEF GuestConnect
  <2>2. a \in Nat
    BY <1>0
  <2>3. [conn[c] EXCEPT !.state = "queued", !.alias = a] \in ConnStates
    BY <2>2 DEF ServiceType, StreamsType, ConnStates
  <2>4. StreamsType'
    BY <1>9, <2>1, <2>3, ConnSet DEF GuestConnect, ServiceType, StreamsType, history
  <2> QED
    BY <1>9, <1>a, <1>b, <2>4 DEF GuestConnect, ServiceType, made
<1>10. ASSUME NEW c \in Conns, GuestWrite(c) PROVE ServiceType'
  <2>1. PICK f \in {"good", "bad"} :
          conn' = [conn EXCEPT ![c].in = Append(@, f), ![c].wrote = @ + 1]
    BY <1>10 DEF GuestWrite
  <2>2. f \in Frames /\ conn[c].wrote + 1 \in Nat
    BY DEF Frames, ServiceType, StreamsType, ConnStates
  <2>3. [conn[c] EXCEPT !.in = Append(conn[c].in, f), !.wrote = conn[c].wrote + 1] \in ConnStates
    BY <2>2, Appended DEF ServiceType
  <2>4. conn' \in [Conns -> ConnStates]
    BY <2>1, <2>3, ConnSet DEF ServiceType
  <2>5. marks' \in Int
    BY <1>10 DEF GuestWrite, ServiceType, StreamsType, ConnStates
  <2> QED
    BY <1>10, <1>a, <1>b, <2>4, <2>5 DEF GuestWrite, ServiceType, StreamsType, made
<1>11. ASSUME NEW c \in Conns, GuestClose(c) PROVE ServiceType'
  <2>1. "eof" \in Frames /\ job.frames \in Nat
    BY ServiceAssumption DEF Frames, ServiceType, JobType
  <2>2. [conn[c] EXCEPT !.in = Append(conn[c].in, "eof"), !.wrote = job.frames] \in ConnStates
    BY <2>1, Appended DEF ServiceType
  <2>3. StreamsType'
    BY <1>11, <2>2, ConnSet DEF GuestClose, ServiceType, StreamsType, history
  <2> QED
    BY <1>11, <1>a, <1>b, <2>3 DEF GuestClose, ServiceType, made
<1>12. CASE Replace
  <2>1. replaced' = replaced + 1 /\ replaced \in Nat /\ UNCHANGED <<phase, bound, home, listeners, undo>>
    BY <1>12 DEF Replace, ServiceType, FilesType, PhaseType, BoundType, NamesType
  <2>2. replaced + 2 \in Nat
    BY <2>1
  <2>3. host' \in [Aliases -> Nat]
    BY <1>12, <2>2 DEF Replace, ServiceType, FilesType, NamesType
  <2>4. socks' \in [Aliases -> Nat]
    BY <1>12, <2>2 DEF Replace, ServiceType, FilesType, NamesType
  <2>5. dir' \in Nat
    BY <1>12, <2>2 DEF Replace, ServiceType, FilesType, NamesType
  <2>6. NamesType'
    BY <1>0, <2>1, <2>3, <2>4, <2>5 DEF ServiceType, FilesType, NamesType, Undos
  <2>7. PhaseType' /\ BoundType'
    BY <1>r, <2>1 DEF ServiceType, FilesType, PhaseType, BoundType
  <2> QED
    BY <1>12, <1>a, <2>6, <2>7 DEF Replace, history, ServiceType, FilesType
<1>14. CASE RequestStop
  <2>1. StreamsType'
    BY <1>14 DEF RequestStop, ServiceType, StreamsType, ConnStates, history
  <2> QED
    BY <1>14, <1>a, <1>b, <2>1 DEF RequestStop, ServiceType, made
<1>16. CASE RemoveDirectory
  <2>1. PhaseType' /\ BoundType'
    BY <1>r, <1>16 DEF RemoveDirectory, ServiceType, FilesType, PhaseType, BoundType
  <2>2. NamesType'
    BY <1>0, <1>16 DEF RemoveDirectory, ServiceType, FilesType, NamesType, Undos
  <2> QED
    BY <1>16, <1>a, <2>1, <2>2 DEF RemoveDirectory, history, ServiceType, FilesType
<1>18. ASSUME NEW i \in Workers, Accept(i) PROVE ServiceType'
  <2>1. PICK c \in Conns :
          /\ conn' = [conn EXCEPT ![c].state = "open"]
          /\ workers' = [workers EXCEPT ![i] = [Idle EXCEPT !.pc = "receive", !.conn = c,
                                                !.alias = conn[c].alias, !.n = 1]]
    BY <1>18 DEF Accept
  <2>2. c \in Nat /\ conn[c].alias \in Nat
    BY ServiceAssumption DEF ServiceType, StreamsType, ConnStates
  <2>3. [Idle EXCEPT !.pc = "receive", !.conn = c, !.alias = conn[c].alias, !.n = 1] \in WorkerStates
    BY <2>2 DEF Idle, WorkerStates, Exchanging
  <2>4. [conn[c] EXCEPT !.state = "open"] \in ConnStates
    BY DEF ServiceType, StreamsType, ConnStates
  <2> QED
    BY <1>18, <2>1, <2>3, <2>4, WorkerSet, ConnSet, Unmoved DEF Accept, ServiceType, history
<1>19. ASSUME NEW i \in Workers, Wake(i) PROVE ServiceType'
  <2>1. conn[1].alias \in Nat /\ workers[i].n + 1 \in Nat
    BY ServiceAssumption DEF ServiceType, StreamsType, ConnStates, WorkersType, WorkerStates
  <2>2. [Idle EXCEPT !.pc = "receive", !.conn = 1, !.alias = conn[1].alias, !.n = workers[i].n + 1]
          \in WorkerStates
    BY <2>1 DEF Idle, WorkerStates, Exchanging
  <2> QED
    BY <1>19, <2>2, WorkerSet, Unmoved DEF Wake, ServiceType, StreamsType, history
<1>20. ASSUME NEW i \in Workers, EndWorker(i) \/ Settle(i) PROVE ServiceType'
  <2>1. conn' \in [Conns -> ConnStates]
    BY <1>20, Left DEF EndWorker, Settle, ServiceType, StreamsType
  <2>2. workers' \in [Workers -> WorkerStates]
    BY <1>20, Moves, Went DEF ServiceType
  <2> QED
    BY <1>20, <2>1, <2>2, Unmoved DEF EndWorker, Settle, history
<1>21. ASSUME NEW i \in Workers, ReceiveFrame(i) PROVE ServiceType'
  <2> DEFINE c == workers[i].conn
  <2>1. conn' \in [Conns -> ConnStates]
    <3>1. CASE UNCHANGED conn
      BY <3>1 DEF ServiceType, StreamsType
    <3>2. CASE conn[c].in # <<>> /\ conn' = [conn EXCEPT ![c].in = Tail(@)]
      <4>1. CASE c \in Conns
        BY <3>2, <4>1, Taken, ConnSet DEF ServiceType
      <4> QED
        BY <3>2, <4>1 DEF ServiceType, StreamsType
    <3> QED
      BY <1>21, <3>1, <3>2 DEF ReceiveFrame
  <2>2. workers' \in [Workers -> WorkerStates]
    BY <1>21, Moves, Went DEF ServiceType
  <2> QED
    BY <1>21, <2>1, <2>2, Unmoved DEF ReceiveFrame, history
<1>22. ASSUME NEW i \in Workers,
              Boundary(i) \/ Recheck(i) \/ Gate(i) \/ Forward(i) \/ Pending(i) \/ AdoptFails(i)
       PROVE ServiceType'
  <2>1. workers' \in [Workers -> WorkerStates]
    BY <1>22, Moves, Went DEF ServiceType
  <2>2. UNCHANGED <<quiet, conn, marks>>
    BY <1>22 DEF Boundary, Recheck, Gate, Forward, Pending, AdoptFails, history
  <2> QED
    BY <2>1, <2>2, Unmoved DEF ServiceType, StreamsType
<1>23. ASSUME NEW i \in Workers, Connect(i) PROVE ServiceType'
  <2>1. UNCHANGED <<quiet, conn, marks>>
    BY <1>23 DEF Connect, history
  <2>2. workers' \in [Workers -> WorkerStates]
    <3>1. CASE \E pc \in {"connect", "failed"} : Goto(i, pc)
      BY <3>1, Went DEF Exchanging, ServiceType
    <3>2. CASE /\ workers[i].pc = "connect"
               /\ workers' = [workers EXCEPT ![i].pc = "recheck", ![i].peer = host[workers[i].alias]]
      <4>1. host[workers[i].alias] \in Nat
        BY <3>2 DEF ServiceType, FilesType, PhaseType, BoundType, NamesType, KnownInv, Exchanging
      <4>2. [workers[i] EXCEPT !.pc = "recheck", !.peer = host[workers[i].alias]] \in WorkerStates
        BY <4>1 DEF ServiceType, WorkersType, WorkerStates, Exchanging
      <4> QED
        BY <3>2, <4>2, WorkerSet, ZenonT(60) DEF ServiceType
    <3> QED
      BY <1>23, <3>1, <3>2 DEF Connect
  <2> QED
    BY <2>1, <2>2, Unmoved DEF ServiceType, StreamsType
<1>27. ASSUME NEW i \in Workers, Send(i) \/ Expire(i) PROVE ServiceType'
  <2>1. conn' \in [Conns -> ConnStates]
    <3>1. CASE conn' = [conn EXCEPT ![workers[i].conn].out = @ + 1]
      <4> DEFINE c == workers[i].conn
      <4>1. CASE c \in Conns
        <5>0. conn[c] \in ConnStates /\ conn[c].out + 1 \in Nat
          BY <4>1 DEF ServiceType, StreamsType, ConnStates
        <5>1. [conn[c] EXCEPT !.out = conn[c].out + 1] \in ConnStates
          BY <5>0 DEF ConnStates
        <5> QED
          BY <3>1, <4>1, <5>1, ConnSet DEF ServiceType
      <4> QED
        BY <3>1, <4>1 DEF ServiceType, StreamsType
    <3> QED
      BY <1>27, <3>1 DEF Send, Expire, ServiceType, StreamsType
  <2>2. workers' \in [Workers -> WorkerStates]
    <3>1. CASE \E pc \in {"boundary4", "failed"} : Goto(i, pc)
      BY <3>1, Went DEF Exchanging, ServiceType
    <3>2. CASE workers' = [workers EXCEPT ![i].pc = "failed", ![i].late = TRUE]
      BY <3>2, ZenonT(60) DEF ServiceType, WorkersType, WorkerStates, Exchanging
    <3>3. CASE workers' = [workers EXCEPT ![i].late = TRUE]
      BY <3>3 DEF ServiceType, WorkersType, WorkerStates
    <3> QED
      BY <1>27, <3>1, <3>2, <3>3 DEF Send, Expire
  <2> QED
    BY <1>27, <2>1, <2>2, Unmoved DEF Send, Expire, history
<1> QED
  BY <1>1, <1>j, <1>2, <1>3, <1>4, <1>5, <1>6, <1>7, <1>8, <1>9, <1>10, <1>11, <1>12, <1>14, <1>16,
     <1>18, <1>19, <1>20, <1>21, <1>22, <1>23, <1>27
  DEF Next, Prepare, Destroy, Guest, WorkerStep
\* What a step of worker i leaves alone once its connection is taken.
LEMMA Kept ==
    ASSUME ServiceType, NEW i \in Workers,
           EndWorker(i) \/ ReceiveFrame(i) \/ Boundary(i) \/ Connect(i) \/ Recheck(i) \/ Forward(i)
           \/ Pending(i) \/ Gate(i) \/ Send(i) \/ Settle(i) \/ AdoptFails(i) \/ Expire(i)
    PROVE  /\ \A j \in Workers : j # i => workers'[j] = workers[j]
           /\ workers'[i].conn = workers[i].conn /\ workers'[i].alias = workers[i].alias
           /\ workers'[i].n = workers[i].n
           /\ UNCHANGED <<quiet, marks>>
           /\ Connect(i) \/ workers'[i].peer = workers[i].peer
           /\ workers[i].pc # "off" /\ (workers'[i].pc \in Exchanging => workers[i].pc \in Exchanging)
<1>1. CASE EndWorker(i) \/ ReceiveFrame(i) \/ Boundary(i) \/ Recheck(i) \/ Forward(i) \/ Pending(i)
           \/ Gate(i) \/ Settle(i) \/ AdoptFails(i)
  <2>1. PICK pc \in Exchanging \cup {"off", "poll", "exit"} : Goto(i, pc)
    BY <1>1, Moves
  <2>2. UNCHANGED <<quiet, marks>>
    BY <1>1 DEF EndWorker, ReceiveFrame, Boundary, Recheck, Forward, Pending, Gate, Settle,
                AdoptFails, history
  <2>3. workers[i].pc # "off" /\ (workers[i].pc \in Exchanging \/ EndWorker(i))
    BY <1>1 DEF EndWorker, ReceiveFrame, Boundary, Recheck, Forward, Pending, Gate, Settle,
                AdoptFails, Exchanging
  <2>4. EndWorker(i) => workers'[i].pc = "exit"
    BY <2>1, Went DEF EndWorker, ServiceType
  <2> QED
    BY <2>1, <2>2, <2>3, <2>4, Went DEF ServiceType, Exchanging
<1>2. CASE Connect(i)
  <2>1. CASE \E pc \in {"connect", "failed"} : Goto(i, pc)
    BY <1>2, <2>1, Went DEF Exchanging, ServiceType, Connect, history
  <2>2. CASE workers' = [workers EXCEPT ![i].pc = "recheck", ![i].peer = host[workers[i].alias]]
    BY <1>2, <2>2 DEF ServiceType, WorkersType, WorkerStates, Exchanging, Connect, history
  <2> QED
    BY <1>2, <2>1, <2>2 DEF Connect
<1>3. CASE Send(i)
  <2>1. CASE \E pc \in {"boundary4", "failed"} : Goto(i, pc)
    BY <1>3, <2>1, Went DEF Exchanging, ServiceType, Send
  <2>2. CASE workers' = [workers EXCEPT ![i].pc = "failed", ![i].late = TRUE]
    BY <1>3, <2>2 DEF ServiceType, WorkersType, WorkerStates, Exchanging, Send
  <2> QED
    BY <1>3, <2>1, <2>2 DEF Send
<1>4. CASE Expire(i)
  BY <1>4 DEF ServiceType, WorkersType, WorkerStates, Expire, Exchanging, history
<1> QED
  BY <1>1, <1>2, <1>3, <1>4

\* A worker that starts takes no connection, one that is off does.
LEMMA Started ==
    ASSUME ServiceType, StartWorker
    PROVE  \/ UNCHANGED workers
           \/ \E i \in Workers :
                /\ workers[i].pc = "off" /\ workers'[i].pc = "poll"
                /\ workers'[i].conn = IF inherited THEN 1 ELSE 0
                /\ \A j \in Workers : j # i => workers'[j] = workers[j]
<1>1. CASE UNCHANGED workers
  BY <1>1
<1>2. CASE ~UNCHANGED workers
  <2> DEFINE idle == {i \in Workers : workers[i].pc = "off"}
             i == CHOOSE x \in idle : \A y \in idle : x <= y
  <2>1. workers' = [workers EXCEPT ![i] = [@ EXCEPT !.pc = "poll",
                                                    !.conn = IF inherited THEN 1 ELSE 0]]
    BY <1>2 DEF StartWorker
  <2> HIDE DEF i
  <2>2. i \in Workers
    BY <1>2, <2>1 DEF ServiceType, WorkersType
  <2>3. \E x \in idle : TRUE
    BY <1>2 DEF StartWorker
  <2>4. idle \subseteq Nat
    BY DEF Workers
  <2>5. \E x \in idle : \A y \in idle : x <= y
    BY <2>3, <2>4, LeastOf
  <2>6. i \in idle
    BY <2>5 DEF i
  <2> QED
    BY <2>1, <2>2, <2>6 DEF ServiceType, WorkersType, WorkerStates
<1> QED
  BY <1>1, <1>2

LEMMA Taking ==
    ASSUME ServiceType, NEW i \in Workers, Accept(i) \/ Wake(i)
    PROVE  /\ \A j \in Workers : j # i => workers'[j] = workers[j]
           /\ workers[i].pc = "poll" /\ workers'[i].pc = "receive" /\ UNCHANGED <<quiet, history>>
           /\ \E c \in Conns :
                /\ workers'[i].conn = c /\ workers'[i].alias = conn[c].alias
                /\ \/ ~inherited /\ conn[c].state = "queued" /\ conn' = [conn EXCEPT ![c].state = "open"]
                   \/ inherited /\ c = 1 /\ conn[1].in # <<>> /\ conn' = conn
<1>1. CASE Accept(i)
  <2>1. PICK c \in Conns :
          /\ conn[c].state = "queued" /\ conn' = [conn EXCEPT ![c].state = "open"]
          /\ workers' = [workers EXCEPT ![i] = [Idle EXCEPT !.pc = "receive", !.conn = c,
                                                !.alias = conn[c].alias, !.n = 1]]
    BY <1>1 DEF Accept
  <2>2. workers'[i] = [Idle EXCEPT !.pc = "receive", !.conn = c, !.alias = conn[c].alias, !.n = 1]
    BY <2>1 DEF ServiceType, WorkersType
  <2>3. workers'[i].pc = "receive" /\ workers'[i].conn = c /\ workers'[i].alias = conn[c].alias
    BY <2>2 DEF Idle
  <2> QED
    BY <1>1, <2>1, <2>3 DEF Accept, ServiceType, WorkersType
<1>2. CASE Wake(i)
  <2>1. workers'[i] = [Idle EXCEPT !.pc = "receive", !.conn = 1, !.alias = conn[1].alias,
                                   !.n = workers[i].n + 1]
    BY <1>2 DEF Wake, ServiceType, WorkersType
  <2>2. workers'[i].pc = "receive" /\ workers'[i].conn = 1 /\ workers'[i].alias = conn[1].alias
    BY <2>1 DEF Idle
  <2> QED
    BY <1>2, <2>2, ServiceAssumption DEF Wake, ServiceType, WorkersType
<1> QED
  BY <1>1, <1>2

\* The actions that change a connection.
ConnStep ==
    \/ MakeStream \/ HandOver \/ RequestStop
    \/ \E c \in Conns : GuestConnect(c) \/ GuestWrite(c) \/ GuestClose(c)
    \/ \E i \in Workers : Accept(i) \/ EndWorker(i) \/ ReceiveFrame(i) \/ Send(i) \/ Settle(i)
LEMMA ConnSteps == ASSUME Next PROVE ConnStep \/ UNCHANGED conn
BY DEF ConnStep, Next, Prepare, Destroy, Guest, WorkerStep, Admit, MakeDirectory, OpenDirectory,
   DiscardDirectory, BindListener,
   FinishListener, RememberListener, RollBack, EndBinding, StartWorker, Replace, DropSession,
   JoinWorkers, RemoveSockets, CheckDirectory,
   RemoveDirectory, Wake, Boundary, Connect, Recheck, Forward, Pending, Gate, AdoptFails, Expire

\* A connection that was made stays made and keeps its alias.
LEMMA ConnKept ==
    ASSUME ServiceType, KnownInv, Next, NEW c \in Conns, conn[c].state # "none"
    PROVE  conn'[c].state # "none" /\ conn'[c].alias = conn[c].alias
<1> USE DEF ServiceType, StreamsType, ConnStates
<1>1. CASE UNCHANGED conn
  BY <1>1
<1>2. CASE MakeStream
  <2>1. phase = "streams"
    BY <1>2 DEF MakeStream
  <2> QED
    BY <2>1 DEF KnownInv
<1>3. CASE HandOver
  <2>1. conn' = conn \/ conn' = [conn EXCEPT ![1].state = "open"]
    BY <1>3 DEF HandOver
  <2>2. conn'[c] = conn[c] \/ conn'[c] = [conn[c] EXCEPT !.state = "open"]
    BY <2>1
  <2>3. conn[c] \in ConnStates
    OBVIOUS
  <2> QED
    BY <2>2, <2>3
<1>4. CASE RequestStop
  BY <1>4 DEF RequestStop
<1>5. ASSUME NEW d \in Conns, GuestConnect(d)
      PROVE  conn'[c].state # "none" /\ conn'[c].alias = conn[c].alias
  BY <1>5 DEF GuestConnect
<1>6. ASSUME NEW d \in Conns, GuestWrite(d)
      PROVE  conn'[c].state # "none" /\ conn'[c].alias = conn[c].alias
  BY <1>6 DEF GuestWrite
<1>7. ASSUME NEW d \in Conns, GuestClose(d)
      PROVE  conn'[c].state # "none" /\ conn'[c].alias = conn[c].alias
  BY <1>7 DEF GuestClose
<1>8. ASSUME NEW i \in Workers, Accept(i)
      PROVE  conn'[c].state # "none" /\ conn'[c].alias = conn[c].alias
  BY <1>8 DEF Accept
<1>9. ASSUME NEW i \in Workers, EndWorker(i) \/ Settle(i)
      PROVE  conn'[c].state # "none" /\ conn'[c].alias = conn[c].alias
  <2>1. \E d : conn' = Leave(d) \/ conn' = conn
    BY <1>9 DEF EndWorker, Settle
  <2> QED
    BY <2>1 DEF Leave
<1>10. ASSUME NEW i \in Workers, ReceiveFrame(i)
      PROVE  conn'[c].state # "none" /\ conn'[c].alias = conn[c].alias
  <2>1. PICK d : conn' = [conn EXCEPT ![d].in = Tail(@)] \/ conn' = conn
    BY <1>10 DEF ReceiveFrame
  <2>2. conn'[c] = conn[c] \/ conn'[c] = [conn[c] EXCEPT !.in = Tail(conn[c].in)]
    BY <2>1
  <2>3. conn[c] \in ConnStates
    OBVIOUS
  <2> QED
    BY <2>2, <2>3
<1>11. ASSUME NEW i \in Workers, Send(i)
      PROVE  conn'[c].state # "none" /\ conn'[c].alias = conn[c].alias
  <2>1. PICK d : conn' = [conn EXCEPT ![d].out = @ + 1] \/ conn' = conn
    BY <1>11 DEF Send
  <2>2. conn'[c] = conn[c] \/ conn'[c] = [conn[c] EXCEPT !.out = conn[c].out + 1]
    BY <2>1
  <2>3. conn[c] \in ConnStates
    OBVIOUS
  <2> QED
    BY <2>2, <2>3
<1> QED
  BY <1>1, <1>2, <1>3, <1>4, <1>5, <1>6, <1>7, <1>8, <1>9, <1>10, <1>11, ConnSteps DEF ConnStep

\* The actions that move the preparation or the destructor.
PhaseStep ==
    \/ Admit \/ MakeStream \/ MakeDirectory \/ OpenDirectory \/ DiscardDirectory \/ BindListener
    \/ RememberListener \/ FinishListener \/ RollBack \/ EndBinding \/ StartWorker \/ HandOver
    \/ DropSession \/ JoinWorkers \/ RemoveSockets \/ CheckDirectory \/ RemoveDirectory
LEMMA PhaseSteps == ASSUME Next PROVE PhaseStep \/ UNCHANGED phase
BY DEF PhaseStep, Next, Prepare, Destroy, Guest, WorkerStep, Accept, EndWorker, ReceiveFrame, Send,
   Settle, Replace, RequestStop, GuestConnect, GuestWrite, GuestClose,
   Wake, Boundary, Connect, Recheck, Forward, Pending, Gate, AdoptFails, Expire, quiet

\* The actions that move a worker.
MoveStep(i) ==
    EndWorker(i) \/ ReceiveFrame(i) \/ Boundary(i) \/ Connect(i) \/ Recheck(i) \/ Forward(i)
    \/ Pending(i) \/ Gate(i) \/ Send(i) \/ Settle(i) \/ AdoptFails(i) \/ Expire(i)
LEMMA MoveSteps ==
    ASSUME Next
    PROVE  \/ StartWorker \/ UNCHANGED workers
           \/ \E i \in Workers : Accept(i) \/ Wake(i) \/ MoveStep(i)
BY DEF MoveStep, Next, Prepare, Destroy, Guest, WorkerStep, Admit, MakeStream, MakeDirectory,
   OpenDirectory, DiscardDirectory,
   BindListener, FinishListener, RememberListener, RollBack, EndBinding, HandOver, GuestConnect,
   GuestWrite, GuestClose,
   Replace,
   DropSession, RequestStop, JoinWorkers, RemoveSockets, CheckDirectory, RemoveDirectory
\* A connection is made with an alias of the session, and until then nothing
\* happens to it.
LEMMA ConnBorn ==
    ASSUME ServiceType, KnownInv, Next, NEW c \in Conns, conn[c].state = "none"
    PROVE  conn'[c] = conn[c] \/ (conn'[c].state # "none" /\ conn'[c].alias \in Aliases)
<1>0. Served \subseteq Aliases /\ conn[c].in = <<>> /\ conn[c] \in ConnStates
  BY ServedKnown DEF ServiceType, StreamsType, KnownInv
<1>1. CASE UNCHANGED conn
  BY <1>1
<1>2. CASE MakeStream
  <2>1. (CHOOSE a \in Served : TRUE) \in Aliases
    BY <1>0, <1>2 DEF MakeStream, KnownInv
  <2>2. /\ create_inherited_socketpair.state = "held"
        /\ create_inherited_socketpair.alias \in Aliases
    BY <2>1 DEF create_inherited_socketpair, NoConn
  <2> QED
    BY <1>2, <2>2 DEF MakeStream
<1>3. CASE HandOver
  <2>1. conn' = conn \/ (conn' = [conn EXCEPT ![1].state = "open"] /\ c # 1)
    BY <1>3 DEF HandOver, KnownInv
  <2> QED
    BY <2>1 DEF ServiceType, StreamsType
<1>4. CASE RequestStop
  BY <1>4 DEF RequestStop
<1>5. ASSUME NEW d \in Conns, GuestConnect(d)
      PROVE  conn'[c] = conn[c] \/ (conn'[c].state # "none" /\ conn'[c].alias \in Aliases)
  <2>1. PICK a \in Served : conn' = [conn EXCEPT ![d].state = "queued", ![d].alias = a]
    BY <1>5 DEF GuestConnect
  <2>2. conn'[c] = conn[c] \/ conn'[c] = [conn[c] EXCEPT !.state = "queued", !.alias = a]
    BY <2>1 DEF ServiceType, StreamsType
  <2> QED
    BY <1>0, <2>2 DEF ConnStates
<1>6. ASSUME NEW d \in Conns, GuestWrite(d) \/ GuestClose(d) PROVE conn'[c] = conn[c]
  BY <1>6 DEF GuestWrite, GuestClose, ServiceType, StreamsType
<1>7. ASSUME NEW i \in Workers, Accept(i) PROVE conn'[c] = conn[c]
  BY <1>7 DEF Accept, ServiceType, StreamsType
<1>8. ASSUME NEW i \in Workers, EndWorker(i) \/ Settle(i) PROVE conn'[c] = conn[c]
  <2>1. \/ conn' = conn
        \/ conn' = Leave(workers[i].conn) /\ workers[i].pc \in Exchanging
        \/ conn' = Leave(1) /\ inherited /\ workers[i].pc = "poll"
    BY <1>8 DEF EndWorker, Settle, Exchanging
  <2>2. conn' = conn \/ \E d : conn' = Leave(d) /\ conn[d].state # "none"
    BY <2>1 DEF KnownInv
  <2> QED
    BY <2>2 DEF Leave, ServiceType, StreamsType
<1>9. ASSUME NEW i \in Workers, ReceiveFrame(i) PROVE conn'[c] = conn[c]
  <2>1. conn' = conn \/ (\E d : conn' = [conn EXCEPT ![d].in = Tail(@)] /\ conn[d].in # <<>>)
    BY <1>9 DEF ReceiveFrame
  <2> QED
    BY <1>0, <2>1 DEF ServiceType, StreamsType
<1>10. ASSUME NEW i \in Workers, Send(i) PROVE conn'[c] = conn[c]
  <2>1. conn' = conn \/ conn' = [conn EXCEPT ![workers[i].conn].out = @ + 1]
    BY <1>10 DEF Send
  <2>2. conn[workers[i].conn].state # "none"
    BY <1>10 DEF Send, KnownInv, Exchanging
  <2> QED
    BY <2>1, <2>2 DEF ServiceType, StreamsType
<1> QED
  BY <1>1, <1>2, <1>3, <1>4, <1>5, <1>6, <1>7, <1>8, <1>9, <1>10, ConnSteps DEF ConnStep

LEMMA KnownKeeps ==
    ASSUME ServiceType, KnownInv, Next
    PROVE  KnownInv'
<1>0. /\ Workers' = Workers /\ Aliases' = Aliases /\ Served' = Served /\ inherited' = inherited
      /\ 1 \in Conns
  BY JobFixed, JobDefs, ServiceAssumption
<1>1. phase' \notin {"new", "gone"} => Served # {}
  <2>1. CASE UNCHANGED phase
    BY <2>1 DEF KnownInv
  <2>2. CASE Admit
    BY <2>2 DEF Admit
  <2>3. CASE PhaseStep /\ ~Admit
    <3>1. phase \notin {"new", "gone"}
      BY <2>3 DEF PhaseStep, MakeStream, MakeDirectory, OpenDirectory, DiscardDirectory,
         BindListener, FinishListener, RememberListener, RollBack, EndBinding,
                  StartWorker, HandOver, DropSession, JoinWorkers, RemoveSockets, CheckDirectory,
                  RemoveDirectory
    <3> QED
      BY <3>1 DEF KnownInv
  <2> QED
    BY <2>1, <2>2, <2>3, PhaseSteps
<1>2. phase' \in {"mkdir", "opendir", "discard", "binding"} => ~inherited
  BY PhaseSteps DEF KnownInv, PhaseStep, Admit, MakeStream, MakeDirectory, OpenDirectory,
     DiscardDirectory, BindListener,
     FinishListener, RememberListener, RollBack, EndBinding, StartWorker, HandOver, DropSession,
     JoinWorkers, RemoveSockets, CheckDirectory,
     RemoveDirectory
<1>3. ASSUME phase' \in {"new", "streams"}
      PROVE  /\ marks' = -1 /\ \A i \in Workers : workers'[i].pc = "off"
             /\ \A c \in Conns : conn'[c].state = "none"
  <2>1. phase \in {"new", "streams"} /\ ~MakeStream /\ ~StartWorker /\ ~HandOver /\ ~RequestStop
    BY <1>3, PhaseSteps DEF PhaseStep, Admit, MakeStream, MakeDirectory, OpenDirectory,
       DiscardDirectory, BindListener,
       FinishListener, RememberListener, RollBack, EndBinding, StartWorker, HandOver,
       DropSession, JoinWorkers, RemoveSockets, CheckDirectory,
       RemoveDirectory, RequestStop
  <2>2. /\ marks = -1 /\ \A i \in Workers : workers[i].pc = "off"
        /\ \A c \in Conns : conn[c].state = "none"
    BY <2>1 DEF KnownInv
  <2>3. \A i \in Workers : ~Accept(i) /\ ~Wake(i) /\ ~MoveStep(i)
    BY <2>2, Kept DEF Accept, Wake, MoveStep
  <2>4. \A c \in Conns : ~GuestConnect(c) /\ ~GuestWrite(c) /\ ~GuestClose(c)
    BY <2>1, <2>2 DEF GuestConnect, GuestWrite, GuestClose
  <2>5. UNCHANGED workers
    BY <2>1, <2>3, MoveSteps
  <2>6. UNCHANGED conn
    BY <2>1, <2>3, <2>4, ConnSteps DEF ConnStep, MoveStep
  <2>7. UNCHANGED marks
    BY <2>1, <2>3, <2>4 DEF Next, Prepare, Destroy, Guest, WorkerStep, MoveStep, Admit,
       MakeDirectory, OpenDirectory, DiscardDirectory, BindListener, FinishListener,
       RememberListener, RollBack, EndBinding, Replace, DropSession, JoinWorkers,
       RemoveSockets, CheckDirectory, RemoveDirectory, history
  <2> QED
    BY <2>2, <2>5, <2>6, <2>7
<1>4. ASSUME inherited, phase' \in {"starting", "ready"} PROVE conn'[1].state # "none"
  <2>1. CASE MakeStream
    <3>1. create_inherited_socketpair.state = "held"
      BY DEF create_inherited_socketpair, NoConn
    <3> QED
      BY <1>0, <1>4, <2>1, <3>1 DEF MakeStream
  <2>2. CASE ~MakeStream
    <3>1. phase \in {"starting", "ready"}
      BY <1>4, <2>2, PhaseSteps DEF PhaseStep, Admit, MakeDirectory, OpenDirectory,
         DiscardDirectory, BindListener,
         FinishListener, RememberListener, RollBack, EndBinding, StartWorker, HandOver,
         DropSession, JoinWorkers, RemoveSockets, CheckDirectory,
         RemoveDirectory, KnownInv
    <3> QED
      BY <1>0, <1>4, <3>1, ConnKept DEF KnownInv
  <2> QED
    BY <2>1, <2>2
<1>5. ASSUME NEW c \in Conns
      PROVE  IF conn'[c].state = "none" THEN conn'[c].in = <<>> ELSE conn'[c].alias \in Aliases
  BY ConnKept, ConnBorn DEF KnownInv
<1>6. ASSUME NEW i \in Workers
      PROVE  /\ workers'[i].pc \in Exchanging => workers'[i].alias \in Aliases
             /\ workers'[i].pc \in Exchanging \/ (inherited /\ workers'[i].pc # "off") =>
                  workers'[i].conn \in Conns /\ conn'[workers'[i].conn].state # "none"
             /\ inherited /\ workers'[i].pc # "off" => workers'[i].conn = 1
  <2>1. CASE workers'[i] = workers[i]
    BY <2>1, ConnKept DEF KnownInv
  <2>2. CASE StartWorker /\ workers'[i] # workers[i]
    <3>1. workers'[i].pc = "poll" /\ workers'[i].conn = IF inherited THEN 1 ELSE 0
      BY <2>2, Started
    <3>2. phase = "starting"
      BY <2>2 DEF StartWorker
    <3> QED
      BY <1>0, <3>1, <3>2, ConnKept DEF KnownInv, Exchanging
  <2>3. CASE Accept(i) \/ Wake(i)
    <3>1. PICK c \in Conns :
            /\ workers'[i].conn = c /\ workers'[i].alias = conn[c].alias
            /\ \/ ~inherited /\ conn[c].state = "queued"
               \/ inherited /\ c = 1 /\ conn[1].in # <<>>
      BY <2>3, Taking
    <3>2. conn[c].state # "none"
      BY <3>1 DEF KnownInv
    <3>3. conn[c].alias \in Aliases
      BY <3>2 DEF KnownInv
    <3> QED
      BY <3>1, <3>2, <3>3, ConnKept
  <2>4. CASE MoveStep(i)
    <3>1. /\ workers'[i].conn = workers[i].conn /\ workers'[i].alias = workers[i].alias
          /\ workers[i].pc # "off" /\ (workers'[i].pc \in Exchanging => workers[i].pc \in Exchanging)
      BY <2>4, Kept DEF MoveStep
    <3> QED
      BY <3>1, ConnKept DEF KnownInv
  <2>5. ASSUME NEW j \in Workers, j # i, Accept(j) \/ Wake(j) \/ MoveStep(j)
        PROVE  workers'[i] = workers[i]
    BY <2>5, Taking, Kept DEF MoveStep
  <2> QED
    BY <2>1, <2>2, <2>3, <2>4, <2>5, MoveSteps
<1> QED
  BY <1>0, <1>1, <1>2, <1>3, <1>4, <1>5, <1>6 DEF KnownInv
\* No object that takes an endpoint's name has the pinned identity.
LEMMA HostKeeps ==
    ASSUME ServiceType, Next, NEW a \in Aliases, host'[a] = 1
    PROVE  host[a] = 1
<1>1. CASE UNCHANGED host
  BY <1>1
<1>2. CASE Replace
  <2>1. replaced \in Nat /\ host \in [Aliases -> Nat]
    BY DEF ServiceType, FilesType, NamesType
  <2>2. CASE UNCHANGED host
    BY <2>2
  <2>3. CASE \E b \in Aliases, id \in {0, replaced + 2} : host' = [host EXCEPT ![b] = id]
    BY <2>1, <2>3
  <2> QED
    BY <1>2, <2>2, <2>3 DEF Replace
<1> QED
  BY <1>1, <1>2, ZenonT(60) DEF Next, Prepare, Destroy, Guest, WorkerStep, Admit, MakeStream,
     MakeDirectory, OpenDirectory, DiscardDirectory,
     BindListener, FinishListener, RememberListener, RollBack, EndBinding, StartWorker, HandOver,
     GuestConnect, GuestWrite,
     GuestClose, DropSession, RequestStop, JoinWorkers, RemoveSockets, CheckDirectory,
     RemoveDirectory, Accept,
     Wake,
     EndWorker, ReceiveFrame, Boundary, Connect, Recheck, Forward, Pending, Gate, Send, Settle,
     AdoptFails, Expire, quiet

LEMMA PinnedKeeps ==
    ASSUME ServiceType, KnownInv, PinnedInv, Next
    PROVE  PinnedInv'
<1>0. Workers' = Workers
  BY JobFixed, JobDefs
<1>1. contacted' \subseteq {1}
  <2>1. CASE UNCHANGED contacted
    BY <2>1 DEF PinnedInv
  <2>2. ASSUME NEW i \in Workers, Forward(i) PROVE contacted' \subseteq {1}
    BY <2>2 DEF Forward, PinnedInv
  <2> QED
    BY <2>1, <2>2 DEF Next, Prepare, Destroy, Guest, WorkerStep, Admit, MakeStream,
       MakeDirectory, OpenDirectory, DiscardDirectory,
       BindListener, FinishListener, RememberListener, RollBack, EndBinding, StartWorker,
       HandOver, GuestConnect, GuestWrite,
       GuestClose, Replace, DropSession, RequestStop, JoinWorkers, RemoveSockets, CheckDirectory,
       RemoveDirectory,
       Accept, Wake, EndWorker, ReceiveFrame, Boundary, Connect, Recheck, Pending, Gate, Send,
       Settle, AdoptFails, Expire, history
<1>2. ASSUME NEW i \in Workers
      PROVE  /\ workers'[i].pc = "recheck" /\ host'[workers'[i].alias] = 1 => workers'[i].peer = 1
             /\ workers'[i].pc = "forward" => workers'[i].peer = 1
  <2>1. CASE workers'[i] = workers[i]
    BY <2>1, HostKeeps DEF PinnedInv, KnownInv, Exchanging
  <2>2. CASE StartWorker /\ workers'[i] # workers[i]
    BY <2>2, Started
  <2>3. CASE Accept(i) \/ Wake(i)
    BY <2>3, Taking
  <2>4. CASE MoveStep(i)
    <3>1. CASE Connect(i)
      <4>1. CASE \E pc \in {"connect", "failed"} : Goto(i, pc)
        BY <4>1, Went DEF Exchanging, ServiceType
      <4>2. CASE workers' = [workers EXCEPT ![i].pc = "recheck", ![i].peer = host[workers[i].alias]]
        <5>1. /\ workers'[i].pc = "recheck" /\ workers'[i].peer = host[workers[i].alias]
              /\ workers'[i].alias = workers[i].alias
          BY <4>2 DEF ServiceType, WorkersType, WorkerStates
        <5> QED
          BY <3>1, <5>1 DEF Connect, quiet
      <4> QED
        BY <3>1, <4>1, <4>2 DEF Connect
    <3>2. CASE Recheck(i)
      <4>1. \/ Goto(i, "failed")
            \/ Goto(i, "forward") /\ workers[i].pc = "recheck" /\ host[workers[i].alias] = 1
        BY <3>2 DEF Recheck, endpoint_current
      <4>2. Goto(i, "forward") => workers'[i].pc = "forward" /\ workers'[i].peer = workers[i].peer
        BY Went DEF Exchanging, ServiceType
      <4>3. Goto(i, "failed") => workers'[i].pc = "failed"
        BY Went DEF Exchanging, ServiceType
      <4> QED
        BY <4>1, <4>2, <4>3 DEF PinnedInv
    <3>3. CASE Expire(i)
      <4>1. /\ workers'[i].pc = workers[i].pc /\ workers'[i].peer = workers[i].peer
            /\ workers'[i].alias = workers[i].alias /\ host' = host
        BY <3>3 DEF Expire, ServiceType, WorkersType, WorkerStates, quiet
      <4> QED
        BY <4>1 DEF PinnedInv
    <3>4. CASE Send(i)
      <4>1. workers'[i].pc \in {"boundary4", "failed"}
        BY <3>4 DEF Send, Goto, ServiceType, WorkersType, WorkerStates
      <4> QED
        BY <4>1
    <3>5. CASE EndWorker(i) \/ ReceiveFrame(i) \/ Boundary(i) \/ Forward(i) \/ Pending(i) \/ Gate(i)
               \/ Settle(i) \/ AdoptFails(i)
      <4>1. PICK pc \in {"exit", "leave", "failed", "boundary1", "check", "pending", "send",
                         "delivered", "boundary2", "gate", "boundary3", "poll"} : Goto(i, pc)
        <5>1. CASE EndWorker(i) \/ ReceiveFrame(i) \/ Forward(i) \/ Pending(i)
          BY <5>1 DEF EndWorker, ReceiveFrame, Forward, Pending
        <5>2. CASE Boundary(i)
          BY <5>2 DEF Boundary
        <5>3. CASE Gate(i) \/ Settle(i) \/ AdoptFails(i)
          BY <5>3 DEF Gate, Settle, AdoptFails
        <5> QED
          BY <3>5, <5>1, <5>2, <5>3
      <4>2. workers'[i].pc = pc
        BY <4>1, Went DEF Exchanging, ServiceType
      <4> QED
        BY <4>1, <4>2
    <3> QED
      BY <2>4, <3>1, <3>2, <3>3, <3>4, <3>5 DEF MoveStep
  <2>5. ASSUME NEW j \in Workers, j # i, Accept(j) \/ Wake(j) \/ MoveStep(j)
        PROVE  workers'[i] = workers[i]
    BY <2>5, Taking, Kept DEF MoveStep
  <2> QED
    BY <2>1, <2>2, <2>3, <2>4, <2>5, MoveSteps
<1> QED
  BY <1>0, <1>1, <1>2 DEF PinnedInv

LEMMA GrantsKeeps ==
    ASSUME GrantsInv, Next
    PROVE  GrantsInv'
<1>0. job' = job /\ Endpoints' = Endpoints
  BY JobFixed, JobDefs
<1>1. CASE phase \in {"streams", "mkdir", "opendir", "binding", "serving", "ready", "starting"}
  BY <1>0, <1>1 DEF GrantsInv
<1>2. CASE Admit
  BY <1>0, <1>2 DEF Admit, GrantsInv, validate_path_grants, directory_ancestors
<1>3. CASE ~Admit /\ phase \notin {"streams", "mkdir", "opendir", "binding", "serving", "ready", "starting"}
  <2>1. phase' \notin {"streams", "mkdir", "opendir", "binding", "serving", "ready", "starting"}
    BY <1>3, PhaseSteps DEF PhaseStep, MakeStream, MakeDirectory, OpenDirectory,
       DiscardDirectory, BindListener,
       FinishListener, RememberListener, RollBack, EndBinding, StartWorker, HandOver,
       DropSession, JoinWorkers, RemoveSockets, CheckDirectory,
       RemoveDirectory
  <2> QED
    BY <2>1 DEF GrantsInv
<1> QED
  BY <1>1, <1>2, <1>3
\* Events and releases are only added, by these steps.
LEMMA Recording ==
    ASSUME Next
    PROVE  /\ \/ UNCHANGED released
              \/ \E i \in Workers : Send(i) /\ released' = released \cup {Exchange(i)}
           /\ \/ UNCHANGED audit
              \/ \E i \in Workers :
                   \/ Pending(i) /\ audit' = audit \cup {<<Exchange(i), "delivery_pending">>}
                   \/ Settle(i) /\ workers[i].pc = "delivered"
                      /\ audit' = audit \cup {<<Exchange(i), "delivered">>}
                   \/ Settle(i) /\ audit' = audit \cup {<<Exchange(i), "delivery_failed">>}
<1>1. \/ UNCHANGED <<released, audit>>
      \/ \E i \in Workers : Send(i) \/ Pending(i) \/ Settle(i)
  BY DEF Next, Prepare, Destroy, Guest, WorkerStep, Admit, MakeStream, MakeDirectory,
     OpenDirectory, DiscardDirectory,
     BindListener, FinishListener, RememberListener, RollBack, EndBinding, StartWorker, HandOver,
     GuestConnect, GuestWrite,
     GuestClose, Replace, DropSession, RequestStop, JoinWorkers, RemoveSockets, CheckDirectory,
     RemoveDirectory,
     Accept, Wake, EndWorker, ReceiveFrame, Boundary, Connect, Recheck, Forward, Gate,
     AdoptFails, Expire, history
<1>2. ASSUME NEW i \in Workers, Send(i)
      PROVE  UNCHANGED audit /\ (UNCHANGED released \/ released' = released \cup {Exchange(i)})
  BY <1>2 DEF Send
<1>3. ASSUME NEW i \in Workers, Pending(i)
      PROVE  /\ UNCHANGED released
             /\ UNCHANGED audit \/ audit' = audit \cup {<<Exchange(i), "delivery_pending">>}
  BY <1>3 DEF Pending, append_delivery_audit
<1>4. ASSUME NEW i \in Workers, Settle(i)
      PROVE  /\ UNCHANGED released
             /\ \/ UNCHANGED audit \/ audit' = audit \cup {<<Exchange(i), "delivery_failed">>}
                \/ workers[i].pc = "delivered" /\ audit' = audit \cup {<<Exchange(i), "delivered">>}
  BY <1>4 DEF Settle, append_delivery_audit
<1> QED
  BY <1>1, <1>2, <1>3, <1>4

LEMMA AuditKeeps ==
    ASSUME ServiceType, AuditInv, Next
    PROVE  AuditInv'
<1> USE DEF AuditInv, ReleaseIsAudited
<1>0. Workers' = Workers /\ DOMAIN workers' = Workers /\ DOMAIN workers = Workers
  <2>1. Workers' = Workers
    BY JobFixed, JobDefs
  <2>2. DOMAIN workers' = DOMAIN workers
    <3>1. CASE UNCHANGED workers
      BY <3>1
    <3>2. CASE StartWorker
      BY <3>2 DEF StartWorker, ServiceType, WorkersType
    <3>3. ASSUME NEW i \in Workers, Accept(i) \/ Wake(i) PROVE DOMAIN workers' = DOMAIN workers
      BY <3>3 DEF Accept, Wake
    <3>4. ASSUME NEW i \in Workers, MoveStep(i) PROVE DOMAIN workers' = DOMAIN workers
      <4>1. CASE Connect(i) \/ Send(i) \/ Expire(i)
        BY <4>1 DEF Connect, Send, Expire, Goto
      <4>2. CASE ~(Connect(i) \/ Send(i) \/ Expire(i))
        BY <3>4, <4>2, Moves DEF Goto, MoveStep
      <4> QED
        BY <4>1, <4>2
    <3> QED
      BY <3>1, <3>2, <3>3, <3>4, MoveSteps
  <2> QED
    BY <2>1, <2>2 DEF ServiceType, WorkersType
<1>1. audit \subseteq audit' /\ released \subseteq released'
  BY Recording
<1>2. \A x \in released' : <<x, "delivery_pending">> \in audit'
  <2>1. ASSUME NEW i \in Workers, Send(i) PROVE <<Exchange(i), "delivery_pending">> \in audit
    BY <1>0, <2>1 DEF Send
  <2> QED
    BY <1>1, <2>1, Recording
<1>3. \A x \in audit' : x[2] = "delivered" => x[1] \in released'
  <2>1. CASE UNCHANGED audit
    BY <1>1, <2>1
  <2>2. ASSUME NEW i \in Workers, NEW e \in {"delivery_pending", "delivery_failed", "delivered"},
               e = "delivered" => workers[i].pc = "delivered",
               audit' = audit \cup {<<Exchange(i), e>>}
        PROVE  \A x \in audit' : x[2] = "delivered" => x[1] \in released'
    <3>1. e = "delivered" => Exchange(i) \in released
      BY <2>2
    <3> QED
      BY <1>1, <2>2, <3>1
  <2> QED
    BY <2>1, <2>2, Recording
<1>4. ASSUME NEW i \in Workers
      PROVE  /\ workers'[i].pc \in {"boundary3", "send"} =>
                  <<Exchange(i)', "delivery_pending">> \in audit'
             /\ workers'[i].pc \in {"boundary4", "delivered"} => Exchange(i)' \in released'
  <2>1. CASE workers'[i] = workers[i]
    <3>1. Exchange(i)' = Exchange(i)
      BY <2>1 DEF Exchange
    <3> QED
      BY <1>0, <1>1, <2>1, <3>1
  <2>2. CASE StartWorker /\ workers'[i] # workers[i]
    BY <2>2, Started
  <2>3. CASE Accept(i) \/ Wake(i)
    BY <2>3, Taking
  <2>4. CASE MoveStep(i)
    <3>0. Exchange(i)' = Exchange(i)
      BY <2>4, Kept DEF MoveStep, Exchange
    <3>1. CASE Connect(i)
      <4>1. workers'[i].pc \in {"connect", "failed", "recheck"}
        BY <3>1 DEF Connect, Goto, ServiceType, WorkersType, WorkerStates
      <4> QED
        BY <4>1
    <3>2. CASE Expire(i)
      <4>1. workers'[i].pc = workers[i].pc
        BY <3>2 DEF Expire, ServiceType, WorkersType, WorkerStates
      <4> QED
        BY <1>0, <1>1, <3>0, <4>1
    <3>3. CASE Send(i)
      <4>1. CASE workers'[i].pc = "failed"
        BY <4>1
      <4>2. CASE Goto(i, "boundary4") /\ released' = released \cup {Exchange(i)}
        <5>1. workers'[i].pc = "boundary4"
          BY <4>2, Went DEF Exchanging, ServiceType
        <5> QED
          BY <3>0, <4>2, <5>1
      <4>3. Goto(i, "failed") => workers'[i].pc = "failed"
        BY Went DEF Exchanging, ServiceType
      <4>4. workers' = [workers EXCEPT ![i].pc = "failed", ![i].late = TRUE] => workers'[i].pc = "failed"
        BY DEF ServiceType, WorkersType, WorkerStates
      <4> QED
        BY <3>3, <4>1, <4>2, <4>3, <4>4 DEF Send
    <3>4. CASE Boundary(i)
      <4>1. PICK pc \in {"failed", "check", "pending", "send", "delivered"} :
              /\ Goto(i, pc)
              /\ pc = "send" => workers[i].pc = "boundary3"
              /\ pc = "delivered" => workers[i].pc = "boundary4"
        BY <3>4 DEF Boundary
      <4>2. workers'[i].pc = pc
        BY <4>1, Went DEF Exchanging, ServiceType
      <4> QED
        BY <1>0, <1>1, <3>0, <4>1, <4>2
    <3>5. CASE Gate(i)
      <4>1. PICK pc \in {"failed", "leave", "boundary3"} :
              Goto(i, pc) /\ (pc = "boundary3" => <<Exchange(i), "delivery_pending">> \in audit)
        BY <3>5 DEF Gate
      <4>2. workers'[i].pc = pc
        BY <4>1, Went DEF Exchanging, ServiceType
      <4> QED
        BY <1>1, <3>0, <4>1, <4>2
    <3>6. CASE EndWorker(i) \/ ReceiveFrame(i) \/ Recheck(i) \/ Forward(i) \/ Pending(i)
               \/ Settle(i) \/ AdoptFails(i)
      <4>1. PICK pc \in {"exit", "leave", "failed", "boundary1", "forward", "boundary2", "gate",
                         "poll"} : Goto(i, pc)
        BY <3>6 DEF EndWorker, ReceiveFrame, Recheck, Forward, Pending, Settle, AdoptFails
      <4>2. workers'[i].pc = pc
        BY <4>1, Went DEF Exchanging, ServiceType
      <4> QED
        BY <4>1, <4>2
    <3> QED
      BY <2>4, <3>1, <3>2, <3>3, <3>4, <3>5, <3>6 DEF MoveStep
  <2>5. ASSUME NEW j \in Workers, j # i, Accept(j) \/ Wake(j) \/ MoveStep(j)
        PROVE  workers'[i] = workers[i]
    BY <2>5, Taking, Kept DEF MoveStep
  <2> QED
    BY <2>1, <2>2, <2>3, <2>4, <2>5, MoveSteps
<1> QED
  BY <1>0, <1>2, <1>3, <1>4
\* The actions that touch the session's names.
LEMMA FileSteps ==
    ASSUME Next PROVE PhaseStep \/ Replace \/ UNCHANGED <<phase, bound, made, replaced>>
BY ZenonT(60) DEF PhaseStep, Next, Prepare, Destroy, Guest, WorkerStep, RequestStop, Accept,
   Wake, EndWorker,
   ReceiveFrame, Send, Settle, GuestConnect, GuestWrite, GuestClose, Boundary, Connect, Recheck,
   Forward, Pending, Gate, AdoptFails, Expire, quiet

\* What an unlink of the name last looked at can do to the sockets.
LEMMA UnlinkIs ==
    ASSUME NamesType, Unlink, 0 \notin Aliases
    PROVE  /\ undo'.alias = 0 /\ undo'.todo = undo.todo
           /\ \A a \in Aliases :
                /\ socks'[a] = socks[a] \/ (a = undo.alias /\ socks'[a] = 0)
                /\ a = undo.alias /\ socks[a] = undo.seen => socks'[a] = 0
<1>1. PICK id \in {0, socks[undo.alias]} :
        /\ socks[undo.alias] = undo.seen => id = 0
        /\ socks' = [socks EXCEPT ![undo.alias] = id]
  BY DEF Unlink
<1>2. undo'.alias = 0 /\ undo'.todo = undo.todo
  BY DEF Unlink, NamesType, Undos
<1> QED
  BY <1>1, <1>2 DEF NamesType

LEMMA OwnKeeps ==
    ASSUME ServiceType, KnownInv, OwnInv, Next
    PROVE  OwnInv'
<1>0. Aliases' = Aliases /\ Served \subseteq Aliases /\ Aliases \subseteq Nat \ {0}
  BY JobFixed, JobDefs, ServedKnown DEF ServiceType
<1>t. /\ dir \in Nat /\ home \in Nat /\ replaced \in Nat /\ replaced + 2 \in Nat
      /\ socks \in [Aliases -> Nat] /\ listeners \in [Aliases -> Nat] /\ DOMAIN socks = Aliases
      /\ undo \in Undos
  BY DEF ServiceType, FilesType, NamesType
<1>i. \A b \in Aliases : /\ socks[b] \in Nat /\ listeners[b] \in Nat
                         /\ socks[b] <= replaced + 1 /\ listeners[b] <= replaced + 1
  BY <1>t DEF OwnInv, IdsInv
<1>b. bound \in BoundRecords /\ (bound.alias = 0 => bound.step = "")
  BY DEF ServiceType, FilesType, BoundType
<1>d. DOMAIN socks' = Aliases
  BY <1>0, TypeKeeps DEF ServiceType, FilesType, NamesType
<1>1. CASE UNCHANGED <<phase, bound, made, replaced>>
  BY <1>0, <1>1 DEF OwnInv, IdsInv, FreshInv, BoundInv, MadeInv, LookedInv, UnlinkedInv,
     OwnIsRemoved, made
<1>2. CASE Admit \/ MakeStream \/ MakeDirectory \/ OpenDirectory \/ DiscardDirectory
  <2>1. /\ UNCHANGED <<bound, socks, listeners, undo, replaced>>
        /\ phase \in {"new", "streams", "mkdir", "opendir", "discard"}
        /\ phase' \in {"mkdir", "streams", "gone", "starting", "opendir", "discard", "binding"}
    BY <1>2 DEF Admit, MakeStream, MakeDirectory, OpenDirectory, DiscardDirectory, made
  <2>2. home = 0 /\ \A a \in Aliases : listeners[a] = 0 /\ socks[a] = 0
    BY <2>1 DEF OwnInv, FreshInv
  <2>3. phase \notin {"opendir", "discard"} => dir = 0
    BY <2>1, <2>2 DEF OwnInv, FreshInv
  <2>4. undo.alias = 0
    BY <2>1 DEF OwnInv, LookedInv
  <2>5. /\ phase' # "binding" => home' = 0
        /\ phase' = "binding" => home' # 0
        /\ phase' \in {"mkdir", "streams", "starting"} => dir' = 0
        /\ phase' = "gone" => dir' # 1
    BY <1>2, <1>t, <2>2, <2>3 DEF Admit, MakeStream, MakeDirectory, OpenDirectory, DiscardDirectory,
       made
  <2>6. IdsInv' /\ BoundInv'
    BY <1>0, <1>i, <2>1 DEF OwnInv, IdsInv, BoundInv
  <2>7. FreshInv' /\ MadeInv' /\ LookedInv'
    BY <1>0, <2>1, <2>2, <2>4, <2>5 DEF FreshInv, MadeInv, LookedInv
  <2>8. UnlinkedInv' /\ OwnIsRemoved'
    BY <1>0, <1>d, <2>1, <2>2, <2>5 DEF UnlinkedInv, OwnIsRemoved
  <2> QED
    BY <2>6, <2>7, <2>8 DEF OwnInv
<1>4. CASE BindListener
  <2>1. PICK a \in Served :
         /\ listeners[a] = 0
         /\ \/ /\ socks[a] = 0 /\ socks' = [socks EXCEPT ![a] = 1] /\ phase' = "binding"
               /\ bound' = [alias |-> a, step |-> "remember", id |-> 0]
            \/ phase' = "stopping" /\ UNCHANGED <<socks, bound>>
    BY <1>4 DEF BindListener
  <2>2. /\ UNCHANGED <<dir, home, listeners, undo, replaced>> /\ phase = "binding"
        /\ bound.alias = 0
    BY <1>4 DEF BindListener
  <2>3. undo.alias = 0
    BY <1>0, <1>t, <2>2 DEF OwnInv, LookedInv
  <2>4. CASE phase' = "stopping" /\ UNCHANGED <<socks, bound>>
    <3>1. IdsInv' /\ FreshInv' /\ BoundInv' /\ LookedInv'
      BY <1>0, <2>2, <2>3, <2>4 DEF OwnInv, IdsInv, FreshInv, BoundInv, LookedInv
    <3>2. MadeInv' /\ UnlinkedInv' /\ OwnIsRemoved'
      BY <1>0, <2>2, <2>4 DEF OwnInv, MadeInv, UnlinkedInv, OwnIsRemoved
    <3> QED
      BY <3>1, <3>2 DEF OwnInv
  <2>5. CASE /\ socks[a] = 0 /\ socks' = [socks EXCEPT ![a] = 1] /\ phase' = "binding"
             /\ bound' = [alias |-> a, step |-> "remember", id |-> 0]
    <3>1. bound'.alias = a /\ bound'.id = 0
      BY <2>5
    <3>2. socks'[a] = 1 /\ \A b \in Aliases : b # a => socks'[b] = socks[b]
      BY <1>0, <1>t, <2>5
    <3>3. \A b \in Aliases : b # a /\ socks[b] = 1 => listeners[b] = 1
      BY <1>0, <2>2 DEF OwnInv, MadeInv
    <3>4. \A b \in Aliases : socks'[b] <= replaced' + 1 /\ listeners'[b] <= replaced' + 1
      BY <1>t, <2>2, <3>2 DEF OwnInv, IdsInv
    <3>5. IdsInv' /\ FreshInv' /\ BoundInv' /\ LookedInv'
      BY <1>0, <2>2, <2>3, <2>5, <3>1, <3>4 DEF OwnInv, IdsInv, FreshInv, BoundInv, LookedInv
    <3>6. MadeInv' /\ UnlinkedInv' /\ OwnIsRemoved'
      BY <1>0, <2>1, <2>2, <2>5, <3>1, <3>2, <3>3 DEF MadeInv, UnlinkedInv, OwnIsRemoved
    <3> QED
      BY <3>5, <3>6 DEF OwnInv
  <2> QED
    BY <2>1, <2>4, <2>5
<1>5. CASE RememberListener
  <2>1. /\ UNCHANGED <<phase, made, replaced>> /\ phase = "binding" /\ bound.alias # 0
        /\ bound.step = "remember"
    BY <1>5 DEF RememberListener
  <2>2. bound'.alias = bound.alias /\ bound'.id \in {bound.id, socks[bound.alias]}
    BY <1>5, <1>b DEF RememberListener, BoundRecords
  <2>3. undo.alias = 0
    BY <1>0, <1>t, <2>1 DEF OwnInv, LookedInv
  <2>4. IdsInv' /\ FreshInv' /\ BoundInv' /\ LookedInv'
    BY <1>0, <2>1, <2>2, <2>3 DEF OwnInv, IdsInv, FreshInv, BoundInv, LookedInv, made
  <2>5. MadeInv' /\ UnlinkedInv' /\ OwnIsRemoved'
    BY <1>0, <2>1, <2>2 DEF OwnInv, MadeInv, UnlinkedInv, OwnIsRemoved, made
  <2> QED
    BY <2>4, <2>5 DEF OwnInv
<1>6. CASE FinishListener
  <2>1. /\ UNCHANGED <<phase, dir, home, socks, undo, replaced>> /\ phase = "binding"
        /\ bound.alias # 0 /\ bound.alias \in Aliases /\ bound.step \in {"chmod", "listen"}
    BY <1>6, <1>b DEF FinishListener, BoundRecords
  <2>2. undo.alias = 0
    BY <1>0, <1>t, <2>1 DEF OwnInv, LookedInv
  <2>3. CASE UNCHANGED listeners /\ bound'.alias = bound.alias /\ bound'.id \in {0, bound.id}
    <3>1. IdsInv' /\ FreshInv' /\ BoundInv' /\ LookedInv'
      BY <1>0, <2>1, <2>2, <2>3 DEF OwnInv, IdsInv, FreshInv, BoundInv, LookedInv
    <3>2. MadeInv' /\ UnlinkedInv' /\ OwnIsRemoved'
      BY <1>0, <2>1, <2>3 DEF OwnInv, MadeInv, UnlinkedInv, OwnIsRemoved
    <3> QED
      BY <3>1, <3>2 DEF OwnInv
  <2>4. CASE /\ listeners' = [listeners EXCEPT ![bound.alias] = inspect_socket(bound.alias)]
             /\ bound'.alias = 0
    <3>1. \A b \in Aliases : listeners'[b] = IF b = bound.alias THEN socks[b] ELSE listeners[b]
      BY <1>t, <2>4 DEF inspect_socket
    <3>2. \A b \in Aliases : socks[b] = 1 => listeners'[b] = 1
      BY <3>1 DEF OwnInv, MadeInv
    <3>3. \A b \in Aliases : socks'[b] <= replaced' + 1 /\ listeners'[b] <= replaced' + 1
      BY <1>i, <2>1, <3>1
    <3>4. IdsInv' /\ FreshInv' /\ BoundInv' /\ LookedInv'
      BY <1>0, <2>1, <2>2, <2>4, <3>3 DEF OwnInv, IdsInv, FreshInv, BoundInv, LookedInv
    <3>5. MadeInv' /\ UnlinkedInv' /\ OwnIsRemoved'
      BY <1>0, <2>1, <3>2 DEF MadeInv, UnlinkedInv, OwnIsRemoved
    <3> QED
      BY <3>4, <3>5 DEF OwnInv
  <2>5. \/ UNCHANGED listeners /\ bound'.alias = bound.alias /\ bound'.id \in {0, bound.id}
        \/ /\ listeners' = [listeners EXCEPT ![bound.alias] = inspect_socket(bound.alias)]
           /\ bound'.alias = 0
    <3>1. PICK n : /\ n = 0 \/ n = bound.id
            /\ \/ UNCHANGED listeners /\ bound' = [bound EXCEPT !.step = "listen"]
               \/ UNCHANGED listeners /\ bound' = [bound EXCEPT !.step = "undo", !.id = n]
               \/ /\ listeners' = [listeners EXCEPT ![bound.alias] = inspect_socket(bound.alias)]
                  /\ bound' = NoBound
      BY <1>6 DEF FinishListener
    <3> QED
      BY <1>b, <2>1, <3>1, BoundMoves
  <2> QED
    BY <2>3, <2>4, <2>5
<1>7. CASE RollBack
  <2>1. /\ UNCHANGED <<bound, dir, home, listeners, replaced>> /\ phase = "binding"
        /\ bound.step = "undo" /\ bound.alias # 0 /\ bound.alias \in Aliases
    BY <1>7, <1>b DEF RollBack, BoundRecords
  <2>2. CASE undo.alias = 0 /\ rollback(bound.alias) /\ Look(bound.alias) /\ UNCHANGED <<phase, socks>>
    <3>1. bound.id # 0 /\ undo'.alias = bound.alias /\ undo'.seen = bound.id
      BY <1>t, <2>2 DEF rollback, Look, Undos
    <3>2. IdsInv' /\ FreshInv' /\ BoundInv' /\ LookedInv'
      BY <1>0, <2>1, <2>2, <3>1 DEF OwnInv, IdsInv, FreshInv, BoundInv, LookedInv
    <3>3. MadeInv' /\ UnlinkedInv' /\ OwnIsRemoved'
      BY <1>0, <2>1, <2>2 DEF OwnInv, MadeInv, UnlinkedInv, OwnIsRemoved
    <3> QED
      BY <3>2, <3>3 DEF OwnInv
  <2>3. CASE undo.alias = 0 /\ ~rollback(bound.alias) /\ phase' = "stopping" /\ UNCHANGED <<socks, undo>>
    <3>1. socks[bound.alias] = 1 => bound.id = 0
      BY <2>1, <2>3 DEF rollback, OwnInv, BoundInv
    <3>2. IdsInv' /\ FreshInv' /\ BoundInv' /\ LookedInv'
      BY <1>0, <2>1, <2>3 DEF OwnInv, IdsInv, FreshInv, BoundInv, LookedInv
    <3>3. MadeInv' /\ UnlinkedInv' /\ OwnIsRemoved'
      BY <1>0, <2>1, <2>3, <3>1 DEF OwnInv, MadeInv, UnlinkedInv, OwnIsRemoved
    <3> QED
      BY <3>2, <3>3 DEF OwnInv
  <2>4. CASE undo.alias # 0 /\ Unlink /\ phase' = "stopping"
    <3>1. /\ undo'.alias = 0
          /\ \A a \in Aliases :
                /\ socks'[a] = socks[a] \/ (a = undo.alias /\ socks'[a] = 0)
                /\ a = undo.alias /\ socks[a] = undo.seen => socks'[a] = 0
      BY <1>0, <2>4, UnlinkIs DEF ServiceType, FilesType
    <3>2. bound.id # 0 /\ undo.alias = bound.alias /\ undo.seen = bound.id
      BY <2>1, <2>4 DEF OwnInv, LookedInv
    <3>3. socks'[bound.alias] # 1
      BY <2>1, <3>1, <3>2 DEF OwnInv, BoundInv
    <3>4. \A a \in Aliases : socks'[a] = 1 => socks[a] = 1 /\ a # bound.alias
      BY <3>1, <3>3
    <3>5. \A b \in Aliases : socks'[b] <= replaced' + 1 /\ listeners'[b] <= replaced' + 1
      BY <1>i, <1>t, <2>1, <3>1
    <3>6. IdsInv' /\ FreshInv' /\ BoundInv' /\ LookedInv'
      BY <1>0, <2>1, <2>4, <3>1, <3>3, <3>5 DEF OwnInv, IdsInv, FreshInv, BoundInv, LookedInv
    <3>7. MadeInv' /\ UnlinkedInv' /\ OwnIsRemoved'
      BY <1>0, <2>1, <2>4, <3>4 DEF OwnInv, MadeInv, UnlinkedInv, OwnIsRemoved
    <3> QED
      BY <3>6, <3>7 DEF OwnInv
  <2> QED
    BY <1>7, <2>2, <2>3, <2>4 DEF RollBack
<1>8. CASE EndBinding \/ StartWorker \/ HandOver \/ DropSession
  <2>1. /\ UNCHANGED <<bound, made, replaced>> /\ (phase = "binding" => bound.alias = 0)
        /\ phase \in {"binding", "starting", "ready", "serving"}
        /\ phase' \in {"starting", "ready", "serving", "stopping"}
    BY <1>8 DEF EndBinding, StartWorker, HandOver, DropSession
  <2>2. undo.alias = 0
    BY <1>0, <1>t, <2>1 DEF OwnInv, LookedInv
  <2>3. IdsInv' /\ FreshInv' /\ BoundInv' /\ LookedInv'
    BY <1>0, <2>1, <2>2 DEF OwnInv, IdsInv, FreshInv, BoundInv, LookedInv, made
  <2>4. MadeInv' /\ UnlinkedInv' /\ OwnIsRemoved'
    BY <1>0, <2>1 DEF OwnInv, MadeInv, UnlinkedInv, OwnIsRemoved, made
  <2> QED
    BY <2>3, <2>4 DEF OwnInv
<1>9. CASE JoinWorkers
  <2>1. /\ UNCHANGED <<bound, dir, home, socks, listeners, replaced>> /\ phase = "stopping"
        /\ phase' = "unlink" /\ undo' = [undo EXCEPT !.todo = { a \in Aliases : listeners[a] # 0 }]
    BY <1>9 DEF JoinWorkers
  <2>2. undo'.alias = 0 /\ undo'.todo = { a \in Aliases : listeners[a] # 0 }
    BY <1>t, <2>1 DEF OwnInv, LookedInv, Undos
  <2>3. IdsInv' /\ FreshInv' /\ BoundInv' /\ LookedInv'
    BY <1>0, <2>1, <2>2 DEF OwnInv, IdsInv, FreshInv, BoundInv, LookedInv
  <2>4. MadeInv' /\ UnlinkedInv' /\ OwnIsRemoved'
    BY <1>0, <2>1 DEF OwnInv, MadeInv, UnlinkedInv, OwnIsRemoved
  <2> QED
    BY <2>3, <2>4 DEF OwnInv
<1>10. CASE RemoveSockets
  <2>1. UNCHANGED <<bound, dir, home, listeners, replaced>> /\ phase = "unlink"
    BY <1>10 DEF RemoveSockets
  <2>2. ASSUME NEW a \in undo.todo, undo.alias = 0, UNCHANGED <<phase, socks>>,
               IF Unlinked(a) THEN Look(a) ELSE undo' = [undo EXCEPT !.todo = @ \ {a}]
        PROVE  OwnInv'
    <3>1. /\ undo'.todo = undo.todo \ {a}
          /\ IF Unlinked(a) THEN undo'.alias = a /\ undo'.seen = socks[a] ELSE undo'.alias = 0
      BY <1>t, <2>2 DEF Look, Undos
    <3>2. a \in Aliases
      BY <1>t DEF Undos
    <3>3. IdsInv' /\ FreshInv' /\ BoundInv'
      BY <1>0, <2>1, <2>2 DEF OwnInv, IdsInv, FreshInv, BoundInv
    <3>4. LookedInv'
      BY <1>0, <2>1, <2>2, <3>1, <3>2 DEF OwnInv, LookedInv, Unlinked
    <3>5. MadeInv' /\ UnlinkedInv' /\ OwnIsRemoved'
      BY <1>0, <2>1, <2>2 DEF OwnInv, MadeInv, UnlinkedInv, OwnIsRemoved
    <3> QED
      BY <3>3, <3>4, <3>5 DEF OwnInv
  <2>3. CASE undo.alias # 0 /\ Unlink /\ UNCHANGED phase
    <3>1. /\ undo'.alias = 0 /\ undo'.todo = undo.todo
          /\ \A a \in Aliases :
                /\ socks'[a] = socks[a] \/ (a = undo.alias /\ socks'[a] = 0)
                /\ a = undo.alias /\ socks[a] = undo.seen => socks'[a] = 0
      BY <1>0, <2>3, UnlinkIs DEF ServiceType, FilesType
    <3>2. listeners[undo.alias] # 0 /\ undo.seen = listeners[undo.alias]
      BY <2>1, <2>3 DEF OwnInv, LookedInv
    <3>3. \A a \in Aliases : listeners[a] # 0 /\ a \notin undo.todo => socks'[a] # listeners[a]
      BY <2>1, <3>1, <3>2 DEF OwnInv, LookedInv
    <3>4. \A a \in Aliases : socks'[a] = 1 => socks[a] = 1
      BY <3>1
    <3>5. \A b \in Aliases : socks'[b] <= replaced' + 1 /\ listeners'[b] <= replaced' + 1
      BY <1>i, <1>t, <2>1, <3>1
    <3>6. IdsInv' /\ FreshInv' /\ LookedInv'
      BY <1>0, <2>1, <2>3, <3>1, <3>3, <3>5 DEF OwnInv, IdsInv, FreshInv, LookedInv
    <3>7. BoundInv'
      BY <1>b, <2>1, <3>4 DEF OwnInv, BoundInv, BoundRecords
    <3>8. MadeInv' /\ UnlinkedInv' /\ OwnIsRemoved'
      BY <1>0, <2>1, <2>3, <3>4 DEF OwnInv, MadeInv, UnlinkedInv, OwnIsRemoved
    <3> QED
      BY <3>6, <3>7, <3>8 DEF OwnInv
  <2>4. CASE undo.alias = 0 /\ undo.todo = {} /\ phase' = "rmdir" /\ UNCHANGED <<socks, undo>>
    <3>1. \A a \in Aliases : listeners[a] # 0 => socks[a] # listeners[a]
      BY <1>0, <2>1, <2>4 DEF OwnInv, LookedInv
    <3>2. IdsInv' /\ FreshInv' /\ BoundInv' /\ LookedInv'
      BY <1>0, <2>1, <2>4 DEF OwnInv, IdsInv, FreshInv, BoundInv, LookedInv
    <3>3. MadeInv' /\ UnlinkedInv' /\ OwnIsRemoved'
      BY <1>0, <2>1, <2>4, <3>1 DEF OwnInv, MadeInv, UnlinkedInv, OwnIsRemoved
    <3> QED
      BY <3>2, <3>3 DEF OwnInv
  <2> QED
    BY <1>10, <2>2, <2>3, <2>4 DEF RemoveSockets
<1>11. CASE CheckDirectory \/ RemoveDirectory
  <2>1. /\ UNCHANGED <<bound, home, socks, listeners, undo, replaced>>
        /\ phase \in {"rmdir", "rmdir_seen"} /\ phase' \in {"rmdir_seen", "gone"}
        /\ phase' = "rmdir_seen" => home # 0 /\ dir' = dir
    BY <1>11 DEF CheckDirectory, RemoveDirectory, made
  <2>2. \A a \in Aliases : listeners[a] # 0 => socks[a] # listeners[a]
    BY <2>1 DEF OwnInv, UnlinkedInv
  <2>3. ASSUME NEW a \in Aliases, socks[a] # 0
        PROVE  socks[a] > 1 \/ (bound.alias # 0 /\ bound.id = 0 /\ socks[bound.alias] = 1)
    <3>1. socks[a] > 1 \/ socks[a] = 1
      BY <1>t, <2>3
    <3> QED
      BY <1>0, <2>1, <2>2, <2>3, <3>1 DEF OwnInv, MadeInv
  <2>4. /\ phase' = "gone" /\ home = 0 => dir' # 1
        /\ phase' = "gone" /\ home # 0 /\ dir' = home => \E a \in Aliases : socks[a] # 0
    BY <1>11, <1>t DEF CheckDirectory, RemoveDirectory, OwnInv, FreshInv, made
  <2>5. OwnIsRemoved'
    BY <1>t, <1>d, <2>1, <2>2, <2>3, <2>4 DEF OwnIsRemoved
  <2>6. IdsInv' /\ FreshInv' /\ BoundInv' /\ LookedInv'
    BY <1>0, <2>1 DEF OwnInv, IdsInv, FreshInv, BoundInv, LookedInv
  <2>7. MadeInv' /\ UnlinkedInv'
    BY <1>0, <2>1, <2>2 DEF OwnInv, MadeInv, UnlinkedInv
  <2> QED
    BY <2>5, <2>6, <2>7 DEF OwnInv
<1>12. CASE Replace
  <2>1. /\ UNCHANGED <<phase, bound, home, listeners, undo>> /\ replaced' = replaced + 1
        /\ phase # "gone"
    BY <1>12 DEF Replace
  <2>2. dir' = dir \/ dir # 0
    BY <1>12 DEF Replace
  <2>3. /\ \A a \in Aliases : socks'[a] = socks[a] \/ socks'[a] = 0 \/ socks'[a] = replaced + 2
        /\ home = 0 => UNCHANGED socks
    BY <1>t, <1>12 DEF Replace
  <2>4. \A b \in Aliases : socks'[b] <= replaced' + 1 /\ listeners'[b] <= replaced' + 1
    BY <1>i, <1>t, <2>1, <2>3
  <2>5. \A b \in Aliases : socks'[b] = 1 => socks[b] = 1
    BY <1>t, <2>3
  <2>6. \A b \in Aliases : listeners[b] # 0 /\ socks[b] # listeners[b] => socks'[b] # listeners[b]
    BY <1>i, <1>t, <2>3
  <2>7. IdsInv' /\ FreshInv'
    BY <1>0, <2>1, <2>2, <2>3, <2>4 DEF OwnInv, IdsInv, FreshInv
  <2>8. BoundInv'
    BY <1>b, <2>1, <2>5 DEF OwnInv, BoundInv, BoundRecords
  <2>9. MadeInv' /\ UnlinkedInv' /\ OwnIsRemoved'
    BY <1>0, <2>1, <2>5, <2>6 DEF OwnInv, MadeInv, UnlinkedInv, OwnIsRemoved
  <2>10. LookedInv'
    BY <1>0, <2>1, <2>6 DEF OwnInv, LookedInv
  <2> QED
    BY <2>7, <2>8, <2>9, <2>10 DEF OwnInv
<1> QED
  BY <1>1, <1>2, <1>4, <1>5, <1>6, <1>7, <1>8, <1>9, <1>10, <1>11, <1>12, FileSteps DEF PhaseStep

LEMMA ForeignKeeps ==
    ASSUME ServiceType, OwnInv, Next
    PROVE  ForeignIsKept
<1>0. 0 \notin Aliases
  BY ServedKnown DEF ServiceType
<1>t. /\ dir \in Nat /\ replaced \in Nat
      /\ socks \in [Aliases -> Nat] /\ listeners \in [Aliases -> Nat] /\ DOMAIN socks = Aliases
  BY DEF ServiceType, FilesType, NamesType
<1>1. CASE UNCHANGED <<dir, socks>>
  BY <1>1 DEF ForeignIsKept
<1>2. CASE Replace
  BY <1>t, <1>2 DEF Replace, ForeignIsKept
<1>3. CASE MakeDirectory
  <2>1. UNCHANGED socks /\ dir = 0
    BY <1>3 DEF MakeDirectory, OwnInv, FreshInv
  <2> QED
    BY <2>1 DEF ForeignIsKept
<1>4. CASE BindListener
  <2>1. UNCHANGED dir /\ \A a \in Aliases : socks'[a] = socks[a] \/ socks[a] = 0
    BY <1>t, <1>4 DEF BindListener
  <2> QED
    BY <1>t, <2>1 DEF ForeignIsKept
<1>5. CASE RollBack \/ RemoveSockets
  <2>1. UNCHANGED dir /\ (UNCHANGED socks \/ (Unlink /\ undo.alias # 0))
    BY <1>5 DEF RollBack, RemoveSockets
  <2>2. CASE Unlink /\ undo.alias # 0
    <3>1. \A a \in Aliases : socks'[a] = socks[a] \/ a = undo.alias
      BY <1>0, <2>2, UnlinkIs DEF ServiceType, FilesType
    <3>2. undo.seen \in RecordedAs(undo.alias)
      BY <1>5, <2>2 DEF RollBack, RemoveSockets, OwnInv, LookedInv, RecordedAs
    <3> QED
      BY <1>t, <2>1, <3>1, <3>2 DEF ForeignIsKept, InWindow
  <2> QED
    BY <1>1, <2>1, <2>2
<1>6. CASE DiscardDirectory \/ RemoveDirectory
  BY <1>t, <1>6 DEF DiscardDirectory, RemoveDirectory, ForeignIsKept
<1> QED
  BY <1>1, <1>2, <1>3, <1>4, <1>5, <1>6, FileSteps
  DEF PhaseStep, Admit, MakeStream, OpenDirectory, RememberListener, FinishListener, EndBinding,
      StartWorker, HandOver, DropSession, JoinWorkers, CheckDirectory, made
\* An inherited stream has one worker.
LEMMA OneWorker == ASSUME inherited PROVE Workers \subseteq {1}
<1>1. Served \subseteq {job.adapter[1].alias}
  BY DEF Served, Selected
<1>2. Served = {} \/ Served = {job.adapter[1].alias}
  BY <1>1
<1>3. Cardinality(Served) \in {0, 1}
  BY <1>2, FS_EmptySet, FS_Singleton
<1> QED
  BY <1>3 DEF Workers

\* Two states of the stream hold the same bytes, answers and writes.
SameStream ==
    conn'[1].in = conn[1].in /\ conn'[1].out = conn[1].out /\ conn'[1].wrote = conn[1].wrote

\* What a step of the stream's worker can do: fail, go on within the same part
\* of the exchange, read a frame, answer it, or be done with it.
LEMMA StreamMoves ==
    ASSUME ServiceType, KnownInv, inherited, NEW i \in Workers, MoveStep(i)
    PROVE  /\ UNCHANGED marks
           /\ \A c \in Conns : c # 1 => conn'[c] = conn[c]
           /\ \/ workers'[i].pc \in Over /\ SameStream
              \/ /\ workers'[i].pc \in Over /\ conn[1].in # <<>> /\ conn'[1].in = Tail(conn[1].in)
                 /\ conn'[1].out = conn[1].out /\ conn'[1].wrote = conn[1].wrote
              \/ workers[i].pc \in Resting /\ workers'[i].pc \in Resting /\ SameStream
              \/ workers[i].pc \in Unanswered /\ workers'[i].pc \in Unanswered /\ SameStream
              \/ workers[i].pc = "boundary4" /\ workers'[i].pc = "boundary4" /\ SameStream
              \/ workers[i].pc \in Over /\ workers'[i].pc \in Over /\ SameStream
              \/ /\ workers[i].pc = "receive" /\ workers'[i].pc = "boundary1" /\ conn[1].in # <<>>
                 /\ Head(conn[1].in) = "good" /\ conn'[1].in = Tail(conn[1].in)
                 /\ conn'[1].out = conn[1].out /\ conn'[1].wrote = conn[1].wrote
              \/ /\ workers[i].pc = "send" /\ workers'[i].pc = "boundary4"
                 /\ conn'[1].in = conn[1].in /\ conn'[1].out = conn[1].out + 1
                 /\ conn'[1].wrote = conn[1].wrote
              \/ /\ workers[i].pc = "boundary4" /\ workers'[i].pc = "delivered" /\ SameStream
                 /\ conn[1].in = <<>>
<1> USE DEF Over, Unanswered, Resting
<1>0. /\ 1 \in Conns /\ workers[i].conn = 1 /\ conn[1] \in ConnStates
      /\ conn \in [Conns -> ConnStates] /\ UNCHANGED marks
  BY ServiceAssumption, Kept DEF ServiceType, StreamsType, KnownInv, MoveStep
<1>1. UNCHANGED conn => SameStream /\ \A c \in Conns : c # 1 => conn'[c] = conn[c]
  BY DEF SameStream
<1>2. conn' = Leave(1) => SameStream /\ \A c \in Conns : c # 1 => conn'[c] = conn[c]
  BY <1>0, Left DEF SameStream, ServiceType
<1>3. \A pc \in Exchanging \cup {"off", "poll", "exit"} : Goto(i, pc) => workers'[i].pc = pc
  BY Went DEF ServiceType
<1> USE DEF Exchanging
<1>4. CASE EndWorker(i)
  BY <1>0, <1>2, <1>3, <1>4 DEF EndWorker
<1>5. CASE ReceiveFrame(i)
  <2>1. CASE UNCHANGED conn /\ (Goto(i, "leave") \/ Goto(i, "failed"))
    BY <1>0, <1>1, <1>3, <2>1
  <2>2. CASE /\ conn[1].in # <<>> /\ conn' = [conn EXCEPT ![1].in = Tail(@)]
             /\ \/ Goto(i, "failed")
                \/ Head(conn[1].in) = "good" /\ Goto(i, "boundary1")
    <3>1. /\ conn'[1] = [conn[1] EXCEPT !.in = Tail(conn[1].in)]
          /\ \A c \in Conns : c # 1 => conn'[c] = conn[c]
      BY <1>0, <2>2
    <3>2. /\ conn'[1].in = Tail(conn[1].in)
          /\ conn'[1].out = conn[1].out /\ conn'[1].wrote = conn[1].wrote
      BY <1>0, <3>1 DEF ConnStates
    <3> QED
      BY <1>0, <1>3, <1>5, <2>2, <3>1, <3>2 DEF ReceiveFrame
  <2> QED
    BY <1>0, <1>5, <2>1, <2>2 DEF ReceiveFrame, receive_frame
<1>6. CASE Boundary(i)
  <2>1. \/ Goto(i, "failed")
        \/ workers[i].pc = "boundary1" /\ Goto(i, "check")
        \/ workers[i].pc = "boundary2" /\ Goto(i, "pending")
        \/ workers[i].pc = "boundary3" /\ Goto(i, "send")
        \/ workers[i].pc = "boundary4" /\ Goto(i, "delivered") /\ conn[1].in = <<>>
    BY <1>0, <1>6 DEF Boundary, boundary_clean
  <2> QED
    BY <1>0, <1>1, <1>3, <1>6, <2>1 DEF Boundary
<1>7. CASE Connect(i)
  <2>1. CASE Goto(i, "failed") \/ (workers[i].pc = "check" /\ Goto(i, "connect"))
    BY <1>0, <1>1, <1>3, <1>7, <2>1 DEF Connect
  <2>2. CASE /\ workers[i].pc = "connect"
             /\ workers' = [workers EXCEPT ![i].pc = "recheck", ![i].peer = host[workers[i].alias]]
    <3>1. workers'[i].pc = "recheck"
      BY <2>2 DEF ServiceType, WorkersType, WorkerStates
    <3> QED
      BY <1>0, <1>1, <1>7, <2>2, <3>1 DEF Connect
  <2> QED
    BY <1>7, <2>1, <2>2 DEF Connect
<1>8. CASE Recheck(i) \/ Forward(i) \/ Pending(i) \/ Gate(i) \/ AdoptFails(i)
  <2>1. \/ Goto(i, "failed") \/ Goto(i, "leave")
        \/ workers[i].pc = "recheck" /\ Goto(i, "forward")
        \/ workers[i].pc = "forward" /\ Goto(i, "boundary2")
        \/ workers[i].pc = "pending" /\ Goto(i, "gate")
        \/ workers[i].pc = "gate" /\ Goto(i, "boundary3")
    BY <1>8 DEF Recheck, Forward, Pending, Gate, AdoptFails
  <2>2. UNCHANGED conn
    BY <1>8 DEF Recheck, Forward, Pending, Gate, AdoptFails
  <2> QED
    BY <1>0, <1>1, <1>3, <2>1, <2>2
<1>9. CASE Send(i)
  <2>1. CASE UNCHANGED conn
    <3>1. workers'[i].pc = "failed"
      <4>1. \/ Goto(i, "failed")
            \/ workers' = [workers EXCEPT ![i].pc = "failed", ![i].late = TRUE]
            \/ conn' = [conn EXCEPT ![1].out = @ + 1]
        BY <1>0, <1>9 DEF Send
      <4>2. conn' # [conn EXCEPT ![1].out = @ + 1]
        <5>1. conn[1].out # conn[1].out + 1
          BY <1>0 DEF ConnStates
        <5>2. ([conn EXCEPT ![1].out = @ + 1])[1].out = conn[1].out + 1
          BY <1>0 DEF ConnStates
        <5> QED
          BY <2>1, <5>1, <5>2
      <4> QED
        BY <1>3, <4>1, <4>2 DEF ServiceType, WorkersType, WorkerStates
    <3> QED
      BY <1>0, <1>1, <2>1, <3>1
  <2>2. CASE conn' = [conn EXCEPT ![1].out = @ + 1] /\ Goto(i, "boundary4")
    <3>1. /\ conn'[1] = [conn[1] EXCEPT !.out = conn[1].out + 1]
          /\ \A c \in Conns : c # 1 => conn'[c] = conn[c]
      BY <1>0, <2>2
    <3>2. /\ conn'[1].in = conn[1].in
          /\ conn'[1].out = conn[1].out + 1 /\ conn'[1].wrote = conn[1].wrote
      BY <1>0, <3>1 DEF ConnStates
    <3> QED
      BY <1>0, <1>3, <1>9, <2>2, <3>1, <3>2 DEF Send
  <2> QED
    BY <1>0, <1>9, <2>1, <2>2 DEF Send
<1>10. CASE Settle(i)
  <2>1. \/ workers[i].pc = "delivered" /\ Goto(i, "poll") /\ UNCHANGED conn
        \/ Goto(i, "exit") /\ conn' = Leave(1)
    BY <1>0, <1>10 DEF Settle
  <2> QED
    BY <1>0, <1>1, <1>2, <1>3, <2>1
<1>11. CASE Expire(i)
  <2>1. workers'[i].pc = workers[i].pc /\ UNCHANGED conn
    BY <1>11 DEF Expire, ServiceType, WorkersType, WorkerStates
  <2>2. workers[i].pc \in Exchanging \cup {"off", "poll", "exit"}
    BY DEF ServiceType, WorkersType, WorkerStates
  <2> QED
    BY <1>0, <1>1, <2>1, <2>2
<1> QED
  BY <1>4, <1>5, <1>6, <1>7, <1>8, <1>9, <1>10, <1>11 DEF MoveStep
LEMMA StreamKeeps ==
    ASSUME ServiceType, KnownInv, GuestStreamInv, Next
    PROVE  GuestStreamInv'
<1>0. Workers' = Workers /\ inherited' = inherited /\ job' = job /\ 1 \in Conns
  BY JobFixed, JobDefs, ServiceAssumption
<1>w. UNCHANGED marks \/ \E c \in Conns : GuestWrite(c)
  <2>1. ASSUME NEW i \in Workers, MoveStep(i) PROVE UNCHANGED marks
    BY <2>1, Kept DEF MoveStep
  <2> QED
    BY <2>1 DEF Next, Prepare, Destroy, Guest, WorkerStep, MoveStep, Admit, MakeStream,
       MakeDirectory, OpenDirectory, DiscardDirectory,
       BindListener, FinishListener, RememberListener, RollBack, EndBinding, StartWorker,
       HandOver, GuestConnect, GuestClose,
       Replace, DropSession, RequestStop, JoinWorkers, RemoveSockets, CheckDirectory,
       RemoveDirectory, Accept, Wake,
       history
<1>1. CASE ~inherited
  BY <1>0, <1>1, <1>w DEF GuestStreamInv, GuestWrite
<1>2. CASE inherited
  <2>0. /\ conn[1] \in ConnStates /\ conn[1].in \in Seq(Frames) /\ conn[1].out \in Nat
        /\ conn[1].wrote \in Nat /\ Len(conn[1].in) \in Nat /\ marks \in Int /\ job.frames \in Nat
        /\ conn \in [Conns -> ConnStates]
    BY <1>0, ServiceAssumption DEF ServiceType, StreamsType, ConnStates, JobType
  <2>i. /\ \A c \in Conns : c # 1 => conn[c].state = "none"
        /\ "eof" \in ToSet(conn[1].in) => conn[1].wrote = job.frames
        /\ marks # -1 => conn[1].out <= marks + 1
        /\ \A i \in Workers : StreamSound(workers[i].pc)
    BY <1>2 DEF GuestStreamInv
  \* The stream is the same and no worker left its part of the exchange.
  <2>s. ASSUME SameStream, UNCHANGED marks, \A c \in Conns : c # 1 => conn'[c].state = "none",
               \A i \in Workers : \/ workers'[i].pc = workers[i].pc
                                  \/ workers'[i].pc \in Resting /\ workers[i].pc \in Resting
        PROVE  GuestStreamInv'
    <3>1. ASSUME NEW i \in Workers PROVE StreamSound(workers[i].pc)'
      <4>1. StreamSound(workers[i].pc)
        BY <2>i
      <4>2. \/ workers'[i].pc = workers[i].pc
            \/ /\ workers'[i].pc \notin Over \cup Unanswered \cup {"boundary4"}
               /\ workers[i].pc \notin Over \cup Unanswered \cup {"boundary4"}
               /\ workers[i].pc \in Resting
        BY <2>s DEF Resting, Over, Unanswered
      <4> QED
        BY <2>s, <4>1, <4>2 DEF StreamSound, SameStream
    <3> QED
      BY <1>0, <1>2, <2>i, <2>s, <3>1 DEF GuestStreamInv, SameStream
  <2>1. CASE UNCHANGED <<conn, workers, marks>>
    BY <2>1, <2>i, <2>s DEF SameStream
  <2>2. CASE MakeStream
    <3>0. UNCHANGED <<workers, marks>>
      BY <2>2 DEF MakeStream, history
    <3>1. CASE UNCHANGED conn
      BY <2>1, <3>0, <3>1
    <3>2. CASE conn' = [c \in Conns |-> IF c = 1 THEN create_inherited_socketpair ELSE conn[c]]
      <4>1. /\ create_inherited_socketpair.in = <<>> /\ create_inherited_socketpair.out = 0
            /\ create_inherited_socketpair.wrote = 0
        BY DEF create_inherited_socketpair, NoConn
      <4>2. /\ conn'[1].in = <<>> /\ conn'[1].out = 0 /\ conn'[1].wrote = 0
            /\ \A c \in Conns : c # 1 => conn'[c] = conn[c]
        BY <1>0, <3>2, <4>1
      <4>3. marks' = -1 /\ \A i \in Workers : workers'[i].pc = "off"
        BY <2>2, <3>0 DEF MakeStream, KnownInv
      <4>4. ToSet(conn'[1].in) = {} /\ Len(conn'[1].in) = 0
        BY <4>2 DEF ToSet
      <4>5. \A i \in Workers : StreamSound(workers[i].pc)'
        BY <4>2, <4>3, <4>4 DEF StreamSound, Over, Unanswered
      <4> QED
        BY <1>0, <1>2, <2>i, <4>2, <4>3, <4>4, <4>5 DEF GuestStreamInv
    <3> QED
      BY <2>2, <3>1, <3>2 DEF MakeStream
  <2>3. CASE HandOver
    <3>1. UNCHANGED <<workers, marks>> /\ (UNCHANGED conn \/ conn' = [conn EXCEPT ![1].state = "open"])
      BY <2>3 DEF HandOver, history
    <3>2. SameStream /\ \A c \in Conns : c # 1 => conn'[c] = conn[c]
      BY <1>0, <2>0, <3>1 DEF SameStream, ConnStates
    <3> QED
      BY <2>i, <2>s, <3>1, <3>2
  <2>4. CASE RequestStop
    <3>1. UNCHANGED <<workers, marks>>
      BY <2>4 DEF RequestStop, history
    <3>2. SameStream /\ \A c \in Conns : conn[c].state = "none" => conn'[c] = conn[c]
      BY <1>0, <2>0, <2>4 DEF RequestStop, SameStream, ConnStates
    <3> QED
      BY <2>i, <2>s, <3>1, <3>2
  <2>5. CASE StartWorker
    <3>1. UNCHANGED <<conn, marks>>
      BY <2>5 DEF StartWorker, history
    <3>2. \A i \in Workers : \/ workers'[i].pc = workers[i].pc
                             \/ workers'[i].pc \in Resting /\ workers[i].pc \in Resting
      BY <2>5, Started DEF Resting
    <3> QED
      BY <2>i, <2>s, <3>1, <3>2 DEF SameStream
  <2>6. ASSUME NEW i \in Workers, Accept(i) \/ Wake(i) PROVE GuestStreamInv'
    <3>1. UNCHANGED <<conn, marks>> /\ workers[i].pc = "poll" /\ workers'[i].pc = "receive"
          /\ \A j \in Workers : j # i => workers'[j] = workers[j]
      BY <1>2, <2>6, Taking DEF history
    <3>2. \A j \in Workers : \/ workers'[j].pc = workers[j].pc
                             \/ workers'[j].pc \in Resting /\ workers[j].pc \in Resting
      BY <3>1 DEF Resting
    <3> QED
      BY <2>i, <2>s, <3>1, <3>2 DEF SameStream
  <2>7. ASSUME NEW c \in Conns, GuestConnect(c) PROVE FALSE
    BY <1>2, <2>7 DEF GuestConnect
  <2>8. ASSUME NEW c \in Conns, GuestWrite(c) PROVE GuestStreamInv'
    <3>1. c = 1
      BY <2>8, <2>i DEF GuestWrite
    <3>2. PICK f \in {"good", "bad"} :
            conn' = [conn EXCEPT ![1].in = Append(@, f), ![1].wrote = @ + 1]
      BY <2>8, <3>1 DEF GuestWrite
    <3>3. /\ conn'[1] = [conn[1] EXCEPT !.in = Append(conn[1].in, f), !.wrote = conn[1].wrote + 1]
          /\ \A d \in Conns : d # 1 => conn'[d] = conn[d]
      BY <1>0, <2>0, <3>2
    <3>4. /\ conn'[1].in = Append(conn[1].in, f) /\ conn'[1].out = conn[1].out
          /\ conn'[1].wrote = conn[1].wrote + 1
      BY <2>0, <3>3 DEF ConnStates
    <3>5. /\ Len(conn'[1].in) = Len(conn[1].in) + 1
          /\ ToSet(conn'[1].in) = ToSet(conn[1].in) \cup {f} /\ f # "eof"
      BY <1>0, <2>0, <3>4, Appended DEF ServiceType, Frames
    <3>6. conn[1].wrote < job.frames /\ UNCHANGED workers
          /\ marks' = IF marks = -1 /\ conn[1].wrote > conn[1].out THEN conn[1].out ELSE marks
      BY <1>2, <2>8, <3>1 DEF GuestWrite
    <3>7. "eof" \notin ToSet(conn[1].in) /\ "eof" \notin ToSet(conn'[1].in)
      BY <2>0, <2>i, <3>5, <3>6
    <3>8. marks' # -1 => conn'[1].out <= marks' + 1
      BY <2>0, <2>i, <3>4, <3>6
    <3>9. ASSUME NEW i \in Workers PROVE StreamSound(workers[i].pc)'
      <4>1. StreamSound(workers[i].pc)
        BY <2>i
      <4>2. workers[i].pc \notin Over =>
              conn'[1].wrote = conn'[1].out + Len(conn'[1].in)
                               + (IF workers[i].pc \in Unanswered THEN 1 ELSE 0)
        <5>0. /\ conn[1].wrote \in Nat /\ conn[1].out \in Nat /\ Len(conn[1].in) \in Nat
              /\ conn'[1].wrote = conn[1].wrote + 1 /\ conn'[1].out = conn[1].out
              /\ Len(conn'[1].in) = Len(conn[1].in) + 1
          BY <2>0, <3>4, <3>5
        <5>1. workers[i].pc \notin Over =>
                conn[1].wrote = conn[1].out + Len(conn[1].in)
                                + (IF workers[i].pc \in Unanswered THEN 1 ELSE 0)
          BY <3>7, <4>1 DEF StreamSound
        <5>2. CASE workers[i].pc \in Unanswered
          <6>1. workers[i].pc \notin Over => conn[1].wrote = conn[1].out + Len(conn[1].in) + 1
            BY <5>1, <5>2
          <6>2. workers[i].pc \notin Over => conn'[1].wrote = conn'[1].out + Len(conn'[1].in) + 1
            BY <5>0, <6>1
          <6> QED
            BY <5>2, <6>2
        <5>3. CASE workers[i].pc \notin Unanswered
          <6> DEFINE open == workers[i].pc \notin Over
                     ahead == IF workers[i].pc \in Unanswered THEN 1 ELSE 0
          <6>0. ahead = 0
            BY <5>3
          <6>1. open => conn[1].wrote = conn[1].out + Len(conn[1].in) + ahead
            BY <5>1
          <6> HIDE DEF open, ahead
          <6>2. open => conn'[1].wrote = conn'[1].out + Len(conn'[1].in) + ahead
            BY <5>0, <6>0, <6>1
          <6> QED
            BY <6>2 DEF open, ahead
        <5> QED
          BY <5>2, <5>3
      <4>3. ASSUME marks # -1
            PROVE  /\ workers[i].pc \in Resting => conn'[1].out = marks' /\ Len(conn'[1].in) >= 2
                   /\ workers[i].pc \in Unanswered => conn'[1].out = marks' /\ Len(conn'[1].in) >= 1
                   /\ workers[i].pc = "boundary4" => Len(conn'[1].in) >= 1
        BY <2>0, <3>4, <3>5, <3>6, <4>1, <4>3 DEF StreamSound
      <4>4. ASSUME marks = -1, marks' # -1
            PROVE  /\ workers[i].pc \in Resting => conn'[1].out = marks' /\ Len(conn'[1].in) >= 2
                   /\ workers[i].pc \in Unanswered => conn'[1].out = marks' /\ Len(conn'[1].in) >= 1
                   /\ workers[i].pc = "boundary4" => Len(conn'[1].in) >= 1
        <5>1. conn[1].wrote > conn[1].out /\ marks' = conn[1].out
          BY <3>6, <4>4
        <5>2. workers[i].pc \in Resting => workers[i].pc \notin Over \cup Unanswered
          BY DEF Resting, Over, Unanswered
        <5>3. workers[i].pc \in Resting => conn[1].wrote = conn[1].out + Len(conn[1].in)
          BY <2>0, <3>7, <4>1, <5>2 DEF StreamSound
        <5> QED
          BY <2>0, <3>4, <3>5, <5>1, <5>3
      <4> QED
        BY <3>6, <4>2, <4>3, <4>4 DEF StreamSound
    <3> QED
      BY <1>0, <1>2, <2>i, <3>3, <3>7, <3>8, <3>9 DEF GuestStreamInv
  <2>9. ASSUME NEW c \in Conns, GuestClose(c) PROVE GuestStreamInv'
    <3>1. c = 1
      BY <2>9, <2>i DEF GuestClose
    <3>3. /\ conn'[1] = [conn[1] EXCEPT !.in = Append(conn[1].in, "eof"), !.wrote = job.frames]
          /\ \A d \in Conns : d # 1 => conn'[d] = conn[d]
      BY <1>0, <2>0, <2>9, <3>1 DEF GuestClose
    <3>4. /\ conn'[1].in = Append(conn[1].in, "eof") /\ conn'[1].out = conn[1].out
          /\ conn'[1].wrote = job.frames
      BY <2>0, <3>3 DEF ConnStates
    <3>5. /\ Len(conn'[1].in) = Len(conn[1].in) + 1
          /\ ToSet(conn'[1].in) = ToSet(conn[1].in) \cup {"eof"}
      BY <1>0, <2>0, <3>4, Appended DEF ServiceType, Frames
    <3>6. UNCHANGED <<workers, marks>>
      BY <2>9 DEF GuestClose, history
    <3>7. ASSUME NEW i \in Workers PROVE StreamSound(workers[i].pc)'
      <4>1. StreamSound(workers[i].pc)
        BY <2>i
      <4> QED
        BY <2>0, <3>4, <3>5, <3>6, <4>1 DEF StreamSound
    <3> QED
      BY <1>0, <1>2, <2>i, <3>3, <3>4, <3>5, <3>6, <3>7 DEF GuestStreamInv
  <2>10. ASSUME NEW i \in Workers, MoveStep(i) PROVE GuestStreamInv'
    <3>0. /\ UNCHANGED marks /\ \A c \in Conns : c # 1 => conn'[c] = conn[c]
          /\ Workers = {i} /\ StreamSound(workers[i].pc)
      BY <1>2, <2>10, <2>i, StreamMoves, OneWorker
    <3>1. CASE SameStream
      <4>1. CASE workers'[i].pc \in Over
        <5>1. workers'[i].pc \notin Resting \cup Unanswered \cup {"boundary4"}
          BY <4>1 DEF Over, Resting, Unanswered
        <5>2. StreamSound(workers[i].pc)'
          BY <4>1, <5>1 DEF StreamSound
        <5> QED
          BY <1>0, <1>2, <2>i, <3>0, <3>1, <5>2 DEF GuestStreamInv, SameStream
      <4>2. CASE workers[i].pc \in Resting /\ workers'[i].pc \in Resting
        BY <2>i, <2>s, <3>0, <3>1, <4>2
      <4>3. CASE workers[i].pc = "boundary4" /\ workers'[i].pc = "boundary4"
        BY <2>i, <2>s, <3>0, <3>1, <4>3
      <4>4. CASE workers[i].pc \in Unanswered /\ workers'[i].pc \in Unanswered
        <5>1. \A pc \in Unanswered : pc \notin Over \cup Resting \cup {"boundary4"}
          BY DEF Over, Resting, Unanswered
        <5>2. StreamSound(workers[i].pc)'
          BY <3>0, <3>1, <4>4, <5>1 DEF StreamSound, SameStream
        <5> QED
          BY <1>0, <1>2, <2>i, <3>0, <3>1, <5>2 DEF GuestStreamInv, SameStream
      <4>5. CASE /\ workers[i].pc = "boundary4" /\ workers'[i].pc = "delivered"
                 /\ conn[1].in = <<>>
        <5>1. marks = -1
          BY <3>0, <4>5 DEF StreamSound
        <5>2. "boundary4" \notin Over \cup Unanswered /\ "delivered" \notin Over \cup Unanswered
          BY DEF Over, Unanswered
        <5>3. StreamSound(workers[i].pc)'
          BY <3>0, <3>1, <4>5, <5>1, <5>2 DEF StreamSound, SameStream
        <5> QED
          BY <1>0, <1>2, <2>i, <3>0, <3>1, <5>3 DEF GuestStreamInv, SameStream
      <4>6. SameStream /\ ~(workers'[i].pc \in Over) =>
              \/ workers[i].pc \in Resting /\ workers'[i].pc \in Resting
              \/ workers[i].pc \in Unanswered /\ workers'[i].pc \in Unanswered
              \/ workers[i].pc = "boundary4" /\ workers'[i].pc = "boundary4"
              \/ workers[i].pc = "boundary4" /\ workers'[i].pc = "delivered" /\ conn[1].in = <<>>
        <5>1. SameStream => conn'[1].out # conn[1].out + 1
          BY <2>0 DEF SameStream
        <5>2. conn[1].in # <<>> => conn[1].in # Tail(conn[1].in)
          <6>1. conn[1].in # <<>> => Len(Tail(conn[1].in)) = Len(conn[1].in) - 1
            BY <2>0, HeadTailRange
          <6>2. conn[1].in # <<>> => Len(Tail(conn[1].in)) # Len(conn[1].in)
            BY <2>0, <6>1
          <6> QED
            BY <6>2, Zenon
        <5> QED
          BY <1>2, <2>10, <5>1, <5>2, StreamMoves DEF SameStream
      <4> QED
        BY <3>1, <4>1, <4>2, <4>3, <4>4, <4>5, <4>6
    <3>2. CASE /\ conn[1].in # <<>> /\ conn'[1].in = Tail(conn[1].in)
               /\ conn'[1].out = conn[1].out /\ conn'[1].wrote = conn[1].wrote
               /\ \/ workers'[i].pc \in Over
                  \/ /\ workers[i].pc = "receive" /\ workers'[i].pc = "boundary1"
                     /\ Head(conn[1].in) = "good"
      <4>1. /\ Len(conn'[1].in) = Len(conn[1].in) - 1
            /\ ToSet(conn[1].in) = ToSet(conn'[1].in) \cup {Head(conn[1].in)}
        BY <1>0, <3>2, Taken DEF ServiceType
      <4>2. StreamSound(workers[i].pc)'
        <5>1. CASE workers'[i].pc \in Over
          <6>1. workers'[i].pc \notin Resting \cup Unanswered \cup {"boundary4"}
            BY <5>1 DEF Over, Resting, Unanswered
          <6> QED
            BY <5>1, <6>1 DEF StreamSound
        <5>2. CASE /\ workers[i].pc = "receive" /\ workers'[i].pc = "boundary1"
                   /\ Head(conn[1].in) = "good"
          <6>1. /\ "receive" \in Resting /\ "receive" \notin Over \cup Unanswered
                /\ "boundary1" \in Unanswered /\ "boundary1" \notin Resting \cup Over
            BY DEF Over, Resting, Unanswered
          <6>2. "eof" \notin ToSet(conn'[1].in) => "eof" \notin ToSet(conn[1].in)
            BY <4>1, <5>2
          <6>3. "eof" \notin ToSet(conn'[1].in) =>
                  conn'[1].wrote = conn'[1].out + Len(conn'[1].in) + 1
            <7>1. "eof" \notin ToSet(conn[1].in) =>
                    conn[1].wrote = conn[1].out + Len(conn[1].in) + 0
              BY <3>0, <5>2, <6>1 DEF StreamSound
            <7>2. Len(conn'[1].in) + 1 = Len(conn[1].in)
              BY <2>0, <4>1
            <7>3. conn[1].out \in Nat /\ Len(conn'[1].in) \in Int
              BY <2>0, <4>1
            <7>4. conn'[1].out = conn[1].out /\ conn'[1].wrote = conn[1].wrote
              BY <3>2
            <7>5. ASSUME NEW w, NEW o \in Nat, NEW l \in Int, NEW m, m = l + 1, w = o + m + 0
                  PROVE  w = o + l + 1
              BY <7>5
            <7> QED
              BY <6>2, <7>1, <7>2, <7>3, <7>4, <7>5
          <6>4. marks # -1 => conn'[1].out = marks /\ Len(conn'[1].in) >= 1
            BY <2>0, <3>0, <3>2, <4>1, <5>2, <6>1 DEF StreamSound
          <6> QED
            BY <3>0, <5>2, <6>1, <6>3, <6>4 DEF StreamSound
        <5> QED
          BY <3>2, <5>1, <5>2
      <4>3. "eof" \in ToSet(conn'[1].in) => conn'[1].wrote = job.frames
        BY <2>i, <3>2, <4>1
      <4> QED
        BY <1>0, <1>2, <2>i, <3>0, <3>2, <4>2, <4>3 DEF GuestStreamInv
    <3>3. CASE /\ workers[i].pc = "send" /\ workers'[i].pc = "boundary4"
               /\ conn'[1].in = conn[1].in /\ conn'[1].out = conn[1].out + 1
               /\ conn'[1].wrote = conn[1].wrote
      <4>1. /\ "send" \in Unanswered /\ "send" \notin Over
            /\ "boundary4" \notin Over \cup Unanswered \cup Resting
        BY DEF Over, Resting, Unanswered
      <4>2. "eof" \notin ToSet(conn[1].in) => conn[1].wrote = conn[1].out + Len(conn[1].in) + 1
        BY <3>0, <3>3, <4>1 DEF StreamSound
      <4>3. marks # -1 => conn[1].out = marks /\ Len(conn[1].in) >= 1
        BY <3>0, <3>3, <4>1 DEF StreamSound
      <4>4. "eof" \notin ToSet(conn'[1].in) => conn'[1].wrote = conn'[1].out + Len(conn'[1].in)
        <5>1. conn[1].out \in Nat /\ Len(conn[1].in) \in Nat
          BY <2>0
        <5>2. ASSUME NEW w, NEW o \in Nat, NEW l \in Nat, w = o + l + 1
              PROVE  w = (o + 1) + l
          BY <5>2
        <5>3. "eof" \notin ToSet(conn[1].in) => conn[1].wrote = (conn[1].out + 1) + Len(conn[1].in)
          BY <4>2, <5>1, <5>2
        <5> QED
          BY <3>3, <5>3
      <4>5. StreamSound(workers[i].pc)'
        <5>1. "eof" \notin ToSet(conn'[1].in) =>
                conn'[1].wrote = conn'[1].out + Len(conn'[1].in) + 0
          BY <2>0, <3>3, <4>4
        <5> QED
          BY <3>0, <3>3, <4>1, <4>3, <5>1 DEF StreamSound
      <4>6. marks # -1 => conn'[1].out <= marks + 1
        BY <2>0, <3>3, <4>3
      <4> QED
        BY <1>0, <1>2, <2>i, <3>0, <3>3, <4>5, <4>6 DEF GuestStreamInv
    <3> QED
      BY <1>2, <2>10, <3>1, <3>2, <3>3, StreamMoves
  <2>11. \/ UNCHANGED <<conn, workers, marks>> \/ MakeStream \/ HandOver \/ RequestStop \/ StartWorker
         \/ \E i \in Workers : Accept(i) \/ Wake(i) \/ MoveStep(i)
         \/ \E c \in Conns : GuestConnect(c) \/ GuestWrite(c) \/ GuestClose(c)
    BY DEF Next, Prepare, Destroy, Guest, WorkerStep, MoveStep, Admit, MakeDirectory,
       OpenDirectory, DiscardDirectory, BindListener,
       FinishListener, RememberListener, RollBack, EndBinding, Replace, DropSession, JoinWorkers,
       RemoveSockets, CheckDirectory,
       RemoveDirectory, history
  <2> QED
    BY <2>1, <2>2, <2>3, <2>4, <2>5, <2>6, <2>7, <2>8, <2>9, <2>10, <2>11
<1> QED
  BY <1>1, <1>2

LEMMA ServiceStart == Init => ServiceInv
<1> SUFFICES ASSUME Init PROVE ServiceInv
  OBVIOUS
<1>0. 1 \in Conns /\ NoConn \in ConnStates /\ Idle \in WorkerStates /\ ToSet(NoConn.in) = {}
  <2>1. <<>> \in Seq(Frames) /\ ToSet(<<>>) = {}
    BY EmptySequence DEF ToSet
  <2> QED
    BY <2>1, ServiceAssumption DEF NoConn, ConnStates, Idle, WorkerStates, Exchanging
<1>1. JobType /\ PhaseType /\ BoundType
  BY DEF Init, JobType, PhaseType, BoundType, BoundRecords, NoBound
<1>2. NamesType
  BY DEF Init, NamesType, Undos, NoUndo
<1>3. WorkersType /\ \A i \in Workers : workers[i] = Idle
  BY <1>0 DEF Init, WorkersType
<1>m. marks = -1 /\ -1 \in Int
  <2>1. marks = -1
    BY Zenon DEF Init
  <2>2. -1 \in Int
    OBVIOUS
  <2> QED
    BY <2>1, <2>2
<1>4. StreamsType /\ \A c \in Conns : conn[c] = NoConn
  <2>1. conn = [c \in Conns |-> NoConn]
    BY DEF Init
  <2>2. conn \in [Conns -> ConnStates] /\ \A c \in Conns : conn[c] = NoConn
    BY <1>0, <2>1
  <2> QED
    BY <1>m, <2>2 DEF StreamsType
<1>5. KnownInv
  BY <1>3, <1>4 DEF Init, KnownInv, Idle, NoConn, Exchanging
<1>6. PinnedInv /\ GrantsInv
  BY <1>3 DEF Init, PinnedInv, GrantsInv, Idle
<1>7. AuditInv
  BY <1>3 DEF Init, AuditInv, ReleaseIsAudited, Idle
<1>8. GuestStreamInv
  <2>1. "off" \notin Over \cup Unanswered
    BY DEF Over, Unanswered
  <2>2. /\ conn[1].state = "none" /\ conn[1].in = <<>> /\ conn[1].out = 0 /\ conn[1].wrote = 0
        /\ Len(conn[1].in) = 0 /\ ToSet(conn[1].in) = {}
    BY <1>0, <1>4 DEF NoConn
  <2>3. ASSUME NEW i \in Workers PROVE StreamSound(workers[i].pc)
    <3>1. workers[i].pc = "off"
      BY <1>3 DEF Idle
    <3>2. conn[1].wrote = conn[1].out + Len(conn[1].in) + (IF workers[i].pc \in Unanswered THEN 1 ELSE 0)
      BY <2>1, <2>2, <3>1
    <3> QED
      BY <1>m, <3>2 DEF StreamSound
  <2> QED
    BY <1>4, <2>2, <2>3 DEF Init, GuestStreamInv, NoConn
<1>9. OwnInv
  <2>1. /\ phase = "new" /\ bound.alias = 0 /\ dir = 0 /\ replaced = 0
        /\ home = 0 /\ undo.alias = 0
        /\ \A a \in Aliases : socks[a] = 0 /\ listeners[a] = 0
    BY DEF Init, NoBound, NoUndo
  <2> QED
    BY <2>1 DEF OwnInv, IdsInv, FreshInv, BoundInv, MadeInv, LookedInv, UnlinkedInv, OwnIsRemoved
<1> QED
  BY <1>1, <1>2, <1>3, <1>4, <1>5, <1>6, <1>7, <1>8, <1>9 DEF ServiceInv, ServiceType, FilesType

LEMMA ServiceStutters ==
    ASSUME ServiceInv, UNCHANGED vars PROVE ServiceInv'
<1>0. /\ Workers' = Workers /\ Aliases' = Aliases /\ Served' = Served
      /\ inherited' = inherited /\ Endpoints' = Endpoints
  BY JobDefs DEF vars
<1>1. ServiceType'
  BY <1>0 DEF vars, made, ServiceInv, ServiceType, JobType, FilesType, PhaseType, BoundType,
     BoundRecords,
     NamesType, Undos,     WorkersType, StreamsType
<1>2. KnownInv'
  BY <1>0 DEF vars, made, ServiceInv, KnownInv
<1>3. PinnedInv' /\ GrantsInv'
  BY <1>0 DEF vars, made, ServiceInv, PinnedInv, GrantsInv
<1>4. AuditInv'
  BY <1>0 DEF vars, made, ServiceInv, AuditInv, ReleaseIsAudited, Exchange
<1>5. GuestStreamInv'
  <2>1. \A i \in Workers : StreamSound(workers[i].pc) => StreamSound(workers[i].pc)'
    BY DEF vars, made, StreamSound
  <2> QED
    BY <1>0, <2>1 DEF vars, made, ServiceInv, GuestStreamInv
<1>6. OwnInv'
  BY <1>0 DEF vars, made, ServiceInv, OwnInv, IdsInv, FreshInv, BoundInv, MadeInv, LookedInv,
     UnlinkedInv,
     OwnIsRemoved
<1> QED
  BY <1>1, <1>2, <1>3, <1>4, <1>5, <1>6 DEF ServiceInv

LEMMA ServiceKeeps ==
    ASSUME ServiceInv, [Next]_vars PROVE ServiceInv' /\ [ForeignIsKept]_vars
<1>1. CASE Next
  BY <1>1, TypeKeeps, KnownKeeps, PinnedKeeps, GrantsKeeps, AuditKeeps, StreamKeeps, OwnKeeps,
     ForeignKeeps DEF ServiceInv
<1>2. CASE UNCHANGED vars
  BY <1>2, ServiceStutters
<1> QED
  BY <1>1, <1>2

LEMMA ServiceIsSafe ==
    ServiceInv => OnlyPinnedPeers /\ ReleaseIsAudited /\ PipeliningPoisons /\ OwnIsRemoved
<1>1. ServiceInv => OnlyPinnedPeers
  BY DEF ServiceInv, PinnedInv, GrantsInv, OnlyPinnedPeers
<1>2. ServiceInv => ReleaseIsAudited /\ OwnIsRemoved
  BY DEF ServiceInv, AuditInv, OwnInv
<1>3. ServiceInv => PipeliningPoisons
  BY DEF ServiceInv, GuestStreamInv, PipeliningPoisons
<1> QED
  BY <1>1, <1>2, <1>3

-----------------------------------------------------------------------------
(* The allow-list's operators. *)

LEMMA Suffix ==
    ASSUME NEW T, NEW s \in Seq(T), NEW t \in Seq(T), IsSuffix(s, t)
    PROVE  \/ t = s
           \/ Len(s) < Len(t) /\ \A i \in 1..Len(s) : s[i] = t[Len(t) - Len(s) + i]
<1> DEFINE m == Len(s)
           n == Len(t)
<1>1. m \in Nat /\ n \in Nat
  OBVIOUS
<1>2. /\ Reverse(s) \in Seq(T) /\ Len(Reverse(s)) = m /\ \A i \in 1..m : Reverse(s)[i] = s[m - i + 1]
      /\ Reverse(t) \in Seq(T) /\ Len(Reverse(t)) = n /\ \A i \in 1..n : Reverse(t)[i] = t[n - i + 1]
  <2>1. ASSUME NEW q \in Seq(T)
        PROVE  /\ Reverse(q) \in Seq(T) /\ Len(Reverse(q)) = Len(q)
               /\ \A i \in 1..Len(q) : Reverse(q)[i] = q[Len(q) - i + 1]
    <3>1. \A i \in 1..Len(q) : Len(q) - i + 1 \in 1..Len(q)
      BY <2>1
    <3>2. \A i \in 1..Len(q) : q[Len(q) - i + 1] \in T
      BY <2>1, <3>1
    <3> QED
      BY <2>1, <3>2 DEF Reverse
  <2> QED
    BY <2>1
<1> HIDE DEF m, n
<1>3. m <= n /\ SubSeq(Reverse(s), 1, m) = SubSeq(Reverse(t), 1, m)
  BY <1>2 DEF IsSuffix, IsPrefix
<1>4. ASSUME NEW i \in 1..m PROVE Reverse(s)[i] = Reverse(t)[i]
  <2>1. SubSeq(Reverse(s), 1, m)[i] = Reverse(s)[i]
    BY <1>1, <1>2
  <2>2. SubSeq(Reverse(t), 1, m)[i] = Reverse(t)[i]
    BY <1>1, <1>2, <1>3
  <2> QED
    BY <1>3, <2>1, <2>2
<1>5. ASSUME NEW i \in 1..m PROVE s[i] = t[n - m + i]
  <2>1. m - i + 1 \in 1..m /\ m - i + 1 \in 1..n
    BY <1>1, <1>3
  <2>2. m - (m - i + 1) + 1 = i /\ n - (m - i + 1) + 1 = n - m + i
    BY <1>1, <1>3
  <2> QED
    BY <1>2, <1>4, <2>1, <2>2
<1>6. m = n => \A i \in 1..m : s[i] = t[i]
  <2>1. m = n => \A i \in 1..m : n - m + i = i
    BY <1>1
  <2> QED
    BY <1>5, <2>1
<1>7. m = n => s = t
  BY <1>6 DEF m, n
<1> QED
  BY <1>1, <1>3, <1>5, <1>7 DEF m, n

\* The rule that matching_rule returns names the host and the port.
LEMMA RuleCovers ==
    ASSUME GatewayType, gateway.kind = "proxy", NEW c \in Clients, NEW r, r = client[c].req,
           matching_rule(r.host.labels, r.port) # 0
    PROVE  /\ matching_rule(r.host.labels, r.port) \in DOMAIN gateway.rules
           /\ Covers(gateway.rules[matching_rule(r.host.labels, r.port)], r)
<1> DEFINE labels == r.host.labels
           I == { i \in 1..Len(gateway.rules) :
                    gateway.rules[i].port = r.port /\ host_matches(gateway.rules[i], labels) }
           m == matching_rule(labels, r.port)
<1>1. /\ gateway.rules \in Seq([host : Seq(STRING), suffix : BOOLEAN, port : Nat, private : BOOLEAN])
      /\ labels \in Seq(STRING)
  BY GatewayAssumption DEF GatewayType
<1>2. m = IF I # {} THEN Min(I) ELSE 0
  BY DEF matching_rule, SelectInSeq
<1>3. I # {} /\ m = Min(I)
  BY <1>2
<1>4. I \in SUBSET Nat
  OBVIOUS
<1>5. \E x \in I : \A y \in I : x <= y
  <2> HIDE DEF I
  <2> QED
    BY <1>3, <1>4, LeastOf
<1>6. m \in I
  <2> HIDE DEF I, m
  <2> QED
    BY <1>3, <1>5 DEF Min
<1>7. m \in DOMAIN gateway.rules /\ gateway.rules[m].port = r.port
  <2> HIDE DEF m
  <2> QED
    BY <1>1, <1>6
<1>8. host_matches(gateway.rules[m], labels) /\ gateway.rules[m].host \in Seq(STRING)
  <2> HIDE DEF m
  <2>1. host_matches(gateway.rules[m], labels)
    BY <1>6, Zenon
  <2>2. m \in 1..Len(gateway.rules)
    BY <1>6
  <2>3. gateway.rules[m] \in [host : Seq(STRING), suffix : BOOLEAN, port : Nat, private : BOOLEAN]
    <3> DEFINE Rules == [host : Seq(STRING), suffix : BOOLEAN, port : Nat, private : BOOLEAN]
    <3>1. gateway.rules \in Seq(Rules)
      BY <1>1
    <3> HIDE DEF I, Rules
    <3>2. gateway.rules[m] \in Rules
      BY <2>2, <3>1, ElementOfSeq
    <3> QED
      BY <3>2 DEF Rules
  <2>4. gateway.rules[m].host \in Seq(STRING)
    BY <2>3
  <2> QED
    BY <2>1, <2>4
<1>9. IF gateway.rules[m].suffix THEN IsSuffix(gateway.rules[m].host, labels)
      ELSE labels = gateway.rules[m].host
  BY <1>8 DEF host_matches
<1> HIDE DEF m, labels
<1>10. \/ labels = gateway.rules[m].host
       \/ /\ gateway.rules[m].suffix /\ Len(gateway.rules[m].host) < Len(labels)
          /\ \A i \in 1..Len(gateway.rules[m].host) :
               gateway.rules[m].host[i] = labels[Len(labels) - Len(gateway.rules[m].host) + i]
  BY <1>1, <1>8, <1>9, Suffix
<1> QED
  BY <1>7, <1>10 DEF Covers, m, labels

-----------------------------------------------------------------------------
(* A step of one client's thread, of the guest or of its peer. *)

GuestStep(c) == Open(c) \/ Peer(c) \/ PeerReads(c) \/ GuestBody(c) \/ ExpireStep(c)
ClientStep(c) == GuestStep(c) \/ ThreadStep(c) \/ RelayBreaks(c)

LEMMA ClientSet ==
    ASSUME GatewayType, NEW c \in Clients, NEW k, IsClient(k), k.req = client[c].req, Set(c, k)
    PROVE  /\ client'[c] = k /\ IsClient(client'[c]) /\ client'[c].req = client[c].req
           /\ DOMAIN client' = Clients /\ client' = [d \in Clients |-> client'[d]]
           /\ \A d \in Clients : d # c => client'[d] = client[d]
BY DEF GatewayType, Set

\* Its shape: only this client changes, and it keeps its request.
OnlyClient(c) ==
    /\ IsClient(client'[c]) /\ client'[c].req = client[c].req
    /\ DOMAIN client' = Clients /\ client' = [d \in Clients |-> client'[d]]
    /\ \A d \in Clients : d # c => client'[d] = client[d]

LEMMA ClientShape ==
    ASSUME GatewayType, NEW c \in Clients, ClientStep(c)
    PROVE  /\ OnlyClient(c) /\ gateway' = gateway /\ trail \subseteq trail'
           /\ endpointClient' \in {endpointClient, 0, c}
<1> DEFINE k == client[c]
<1>0. IsClient(k)
  BY DEF GatewayType
<1>e. ASSUME NEW event, NEW taken \in BOOLEAN, emit(c, event, taken) PROVE trail \subseteq trail'
  BY <1>e DEF emit
<1>p. ASSUME NEW pc PROVE IsClient([k EXCEPT !.pc = pc]) /\ [k EXCEPT !.pc = pc].req = k.req
  BY <1>0 DEF IsClient, ClientFields
<1>r. ASSUME NEW code, Reply(c, code) PROVE OnlyClient(c) /\ endpointClient' = 0
  <2>1. /\ IsClient([k EXCEPT !.pc = "closed", !.code = code])
        /\ [k EXCEPT !.pc = "closed", !.code = code].req = k.req
    BY <1>0 DEF IsClient, ClientFields
  <2> QED
    BY <1>r, <2>1, ClientSet DEF Reply, OnlyClient
<1>t. IsClient(Torn(k)) /\ Torn(k).req = k.req
  BY <1>0 DEF IsClient, ClientFields, Torn
<1> HIDE DEF k
<1>s. ASSUME NEW l, IsClient(l), l.req = k.req, Set(c, l) PROVE OnlyClient(c)
  BY <1>s, ClientSet DEF OnlyClient, k
<1>1. CASE Open(c) \/ Bridge(c) \/ ReadRequest(c)
  <2>1. \E pc : Set(c, [k EXCEPT !.pc = pc])
    BY <1>1 DEF Open, Bridge, ReadRequest, k
  <2> QED
    BY <1>1, <1>p, <1>s, <2>1 DEF Open, Bridge, ReadRequest
<1>2. CASE Authorise(c)
  <2>1. ASSUME NEW event, Deny(c, event) PROVE OnlyClient(c) /\ trail \subseteq trail'
    BY <1>e, <1>p, <1>s, <2>1 DEF Deny, k
  <2>2. ASSUME NEW a PROVE /\ IsClient([k EXCEPT !.pc = "audit", !.addr = a])
                           /\ [k EXCEPT !.pc = "audit", !.addr = a].req = k.req
    BY <1>0 DEF IsClient, ClientFields
  <2>3. Deny(c, "denied") \/ \E a : Set(c, [k EXCEPT !.pc = "audit", !.addr = a]) /\ UNCHANGED trail
    BY <1>2 DEF Authorise, k
  <2>4. OnlyClient(c) /\ trail \subseteq trail'
    BY <1>s, <2>1, <2>2, <2>3
  <2> QED
    BY <1>2, <2>4 DEF Authorise
<1>3. CASE AuditTunnel(c)
  <2>1. PICK taken \in BOOLEAN : emit(c, "allowed", taken) /\ Set(c, [k EXCEPT !.pc = IF taken THEN "relay" ELSE "closed"])
    BY <1>3 DEF AuditTunnel, k
  <2> QED
    BY <1>3, <1>e, <1>p, <1>s, <2>1 DEF AuditTunnel
<1>4. CASE RelayRead(c)
  <2>1. \/ Set(c, [k EXCEPT !.gin = @ - 1, !.hand = "up"])
        \/ Set(c, [k EXCEPT !.uin = @ - 1, !.hand = "down"]) \/ Set(c, Torn(k))
    BY <1>4 DEF RelayRead, k
  <2>2. /\ IsClient([k EXCEPT !.gin = @ - 1, !.hand = "up"])
        /\ [k EXCEPT !.gin = @ - 1, !.hand = "up"].req = k.req
        /\ IsClient([k EXCEPT !.uin = @ - 1, !.hand = "down"])
        /\ [k EXCEPT !.uin = @ - 1, !.hand = "down"].req = k.req
    BY <1>0 DEF IsClient, ClientFields
  <2>3. OnlyClient(c)
    BY <1>s, <1>t, <2>1, <2>2
  <2> QED
    BY <1>4, <2>3 DEF RelayRead
<1>5. CASE RelayWrite(c)
  <2>1. \/ Set(c, [k EXCEPT !.hand = "", !.uout = 1, !.usent = @ + 1])
        \/ Set(c, [k EXCEPT !.hand = "", !.gout = 1])
    BY <1>5 DEF RelayWrite, k
  <2>2. /\ IsClient([k EXCEPT !.hand = "", !.uout = 1, !.usent = @ + 1])
        /\ [k EXCEPT !.hand = "", !.uout = 1, !.usent = @ + 1].req = k.req
        /\ IsClient([k EXCEPT !.hand = "", !.gout = 1]) /\ [k EXCEPT !.hand = "", !.gout = 1].req = k.req
    BY <1>0 DEF IsClient, ClientFields
  <2>3. OnlyClient(c)
    BY <1>s, <2>1, <2>2
  <2> QED
    BY <1>5, <2>3 DEF RelayWrite
<1>6. CASE RelayStop(c) \/ RelayBreaks(c)
  <2>1. OnlyClient(c)
    BY <1>6, <1>s, <1>t DEF RelayStop, RelayBreaks, k
  <2> QED
    BY <1>6, <2>1 DEF RelayStop, RelayBreaks
<1>7. CASE Peer(c) \/ PeerReads(c) \/ GuestBody(c) \/ ExpireStep(c)
  <2>1. PICK f \in {"gin", "gfin", "uin", "ufin", "guestReads", "upReads", "gout", "uout", "sentBody", "late"} :
          \E v : Set(c, [k EXCEPT ![f] = v])
    BY <1>7 DEF Peer, PeerReads, GuestBody, ExpireStep, k
  <2>2. ASSUME NEW v PROVE IsClient([k EXCEPT ![f] = v]) /\ [k EXCEPT ![f] = v].req = k.req
    BY <1>0 DEF IsClient, ClientFields
  <2>3. OnlyClient(c)
    BY <1>s, <2>1, <2>2
  <2> QED
    BY <1>7, <2>3 DEF Peer, PeerReads, GuestBody, ExpireStep
<1>8. CASE AcceptClient(c) \/ ForwardRequest(c)
  <2>1. \E pc : Set(c, [k EXCEPT !.pc = pc])
    BY <1>8 DEF AcceptClient, ForwardRequest, k
  <2> QED
    BY <1>8, <1>p, <1>s, <2>1 DEF AcceptClient, ForwardRequest
<1>9. CASE ReadHead(c)
  <2>1. \/ \E code : Reply(c, code)
        \/ Set(c, [k EXCEPT !.pc = "audit"]) /\ UNCHANGED endpointClient
    BY <1>9 DEF ReadHead, k
  <2>2. UNCHANGED trail \/ \E event : \E taken \in BOOLEAN : emit(c, event, taken)
    BY <1>9 DEF ReadHead
  <2> QED
    BY <1>9, <1>e, <1>p, <1>r, <1>s, <2>1, <2>2, ZenonT(60) DEF ReadHead
<1>10. CASE AuditRequest(c)
  <2>1. PICK taken \in BOOLEAN :
          /\ emit(c, "allowed", taken)
          /\ \/ Set(c, [k EXCEPT !.pc = "body", !.late = FALSE]) /\ UNCHANGED endpointClient
             \/ Reply(c, 503)
    BY <1>10 DEF AuditRequest, k
  <2>2. /\ IsClient([k EXCEPT !.pc = "body", !.late = FALSE])
        /\ [k EXCEPT !.pc = "body", !.late = FALSE].req = k.req
    BY <1>0 DEF IsClient, ClientFields
  <2> QED
    BY <1>10, <1>e, <1>r, <1>s, <2>1, <2>2 DEF AuditRequest
<1>11. CASE ReadBody(c)
  <2>1. \/ Set(c, [k EXCEPT !.pc = "forward", !.late = FALSE]) /\ UNCHANGED endpointClient
        \/ \E code : Reply(c, code)
    BY <1>11 DEF ReadBody, k
  <2>2. /\ IsClient([k EXCEPT !.pc = "forward", !.late = FALSE])
        /\ [k EXCEPT !.pc = "forward", !.late = FALSE].req = k.req
    BY <1>0 DEF IsClient, ClientFields
  <2> QED
    BY <1>11, <1>r, <1>s, <2>1, <2>2 DEF ReadBody
<1>12. CASE ConnectTls(c)
  <2>1. PICK pc, cert : Set(c, [k EXCEPT !.pc = pc, !.cert = cert])
    BY <1>12 DEF ConnectTls, k
  <2>2. /\ IsClient([k EXCEPT !.pc = pc, !.cert = cert])
        /\ [k EXCEPT !.pc = pc, !.cert = cert].req = k.req
    BY <1>0 DEF IsClient, ClientFields
  <2> QED
    BY <1>12, <1>s, <2>1, <2>2 DEF ConnectTls
<1>13. CASE SendRequest(c)
  <2>1. \/ Set(c, [k EXCEPT !.pc = "failed"])
        \/ Set(c, [k EXCEPT !.pc = "answer", !.addr = gateway.upstream])
    BY <1>13 DEF SendRequest, k
  <2>2. /\ IsClient([k EXCEPT !.pc = "answer", !.addr = gateway.upstream])
        /\ [k EXCEPT !.pc = "answer", !.addr = gateway.upstream].req = k.req
    BY <1>0 DEF IsClient, ClientFields
  <2> QED
    BY <1>13, <1>p, <1>s, <2>1, <2>2 DEF SendRequest
<1>14. CASE Answer(c)
  <2>1. \/ \E a, pc : Set(c, [k EXCEPT !.answer = <<a>>, !.pc = pc])
        \/ Set(c, [k EXCEPT !.pc = "failed"])
    BY <1>14 DEF Answer, k
  <2>2. ASSUME NEW a, NEW pc
        PROVE  /\ IsClient([k EXCEPT !.answer = <<a>>, !.pc = pc])
               /\ [k EXCEPT !.answer = <<a>>, !.pc = pc].req = k.req
    BY <1>0 DEF IsClient, ClientFields
  <2>3. OnlyClient(c)
    BY <1>p, <1>s, <2>1, <2>2
  <2> QED
    BY <1>14, <2>3 DEF Answer
<1>15. CASE RespondToGuest(c)
  <2>1. \E code : Reply(c, code)
    BY <1>15 DEF RespondToGuest
  <2>2. UNCHANGED trail \/ \E event : \E taken \in BOOLEAN : emit(c, event, taken)
    BY <1>15 DEF RespondToGuest
  <2> QED
    BY <1>15, <1>e, <1>r, <2>1, <2>2 DEF RespondToGuest
<1> QED
  BY <1>1, <1>2, <1>3, <1>4, <1>5, <1>6, <1>7, <1>8, <1>9, <1>10, <1>11, <1>12, <1>13, <1>14, <1>15
     DEF ClientStep, GuestStep, ThreadStep

LEMMA ClientUpdate ==
    ASSUME GatewayType, NEW c \in Clients, NEW k, Set(c, k) PROVE client'[c] = k
BY DEF GatewayType, Set

LEMMA ProxyMoves ==
    ASSUME GatewayType, ProxyInv, gateway.kind = "proxy", NEW c \in Clients, ClientStep(c)
    PROVE  ProxyClient(c, client[c])' /\ endpointClient' = 0
<1> DEFINE k == client[c]
           l == client'[c]
<1>0. /\ IsClient(k) /\ ProxyClient(c, k) /\ endpointClient # c
      /\ gateway' = gateway /\ l.req = k.req
      /\ <<c, "allowed">> \in trail => <<c, "allowed">> \in trail'
  BY ClientShape, GatewayAssumption DEF GatewayType, ProxyInv, OnlyClient
<1>1. \/ Open(c) \/ Bridge(c) \/ ReadRequest(c) \/ Authorise(c) \/ AuditTunnel(c)
      \/ RelayRead(c) \/ RelayWrite(c) \/ RelayStop(c) \/ RelayBreaks(c) \/ Peer(c) \/ PeerReads(c)
  <2>1. ~Is(c, "queued")
    BY <1>0, ZenonT(60) DEF ProxyClient, ProxyStates, Is
  <2> QED
    BY <1>0, <2>1 DEF ClientStep, GuestStep, ThreadStep, GuestBody, ExpireStep, AcceptClient,
       ReadHead,
       AuditRequest, ReadBody, ForwardRequest, ConnectTls, SendRequest, Answer, RespondToGuest
<1>2. endpointClient' = 0
  BY <1>1 DEF ProxyInv, Open, Bridge, ReadRequest, Authorise, AuditTunnel, RelayRead, RelayWrite,
     RelayStop, RelayBreaks, Peer, PeerReads
<1>3. ASSUME l.addr = k.addr, l.code = k.code, l.usent = k.usent, l.gout = k.gout,
             l.pc \in {"passed", "read", "closed", "audit"} \/ l.pc = k.pc
      PROVE  ProxyClient(c, client[c])'
  BY <1>0, <1>3 DEF ProxyClient, ProxyStates
<1>f. ASSUME NEW pc, Set(c, [k EXCEPT !.pc = pc])
      PROVE  /\ l.pc = pc /\ l.addr = k.addr /\ l.code = k.code
             /\ l.usent = k.usent /\ l.gout = k.gout
  <2>1. l = [k EXCEPT !.pc = pc]
    BY <1>f, ClientUpdate
  <2> HIDE DEF k, l
  <2> QED
    BY <1>0, <2>1 DEF IsClient, ClientFields
<1>t. Set(c, Torn(k)) => ProxyClient(c, client[c])'
  <2> SUFFICES ASSUME Set(c, Torn(k)) PROVE ProxyClient(c, client[c])'
    OBVIOUS
  <2>1. l = Torn(k)
    BY ClientUpdate
  <2>2. /\ l.pc = "closed" /\ l.addr = k.addr /\ l.code = k.code
        /\ l.usent = k.usent /\ l.gout = k.gout
    <3> HIDE DEF k, l
    <3> QED
      BY <1>0, <2>1 DEF IsClient, ClientFields, Torn
  <2> QED
    BY <1>3, <2>2
<1>4. CASE Open(c) \/ Bridge(c)
  <2>1. \E pc \in {"passed", "closed", "read"} : Set(c, [k EXCEPT !.pc = pc])
    BY <1>4 DEF Open, Bridge
  <2> QED
    BY <1>2, <1>3, <1>f, <2>1
<1>5. CASE ReadRequest(c)
  <2>1. PICK pc \in {"authorise", "closed"} :
          /\ Set(c, [k EXCEPT !.pc = pc])
          /\ pc = "authorise" => normalise_host(k.req.host) # NoHost
    BY <1>5 DEF ReadRequest
  <2>2. CASE pc = "closed"
    BY <1>2, <1>3, <1>f, <2>1, <2>2
  <2>3. CASE pc = "authorise"
    <3>1. /\ l.pc = "authorise" /\ l.addr = k.addr /\ l.code = k.code
          /\ l.usent = k.usent /\ l.gout = k.gout
      BY <1>f, <2>1, <2>3
    <3>2. normalise_host(l.req.host) # NoHost
      BY <1>0, <2>1, <2>3
    <3> QED
      BY <1>0, <1>2, <3>1, <3>2 DEF ProxyClient, ProxyStates
  <2> QED
    BY <2>1, <2>2, <2>3
<1>6. CASE Authorise(c)
  <2>1. CASE Deny(c, "denied")
    BY <1>2, <1>3, <1>f, <2>1 DEF Deny
  <2>2. CASE ~Deny(c, "denied")
    <3> DEFINE m == matching_rule(normalise_host(k.req.host), k.req.port)
    <3>1. PICK a : /\ Set(c, [k EXCEPT !.pc = "audit", !.addr = a]) /\ entitled(k.req)
                   /\ private_address(a) => gateway.rules[m].private
      BY <1>6, <2>2, ZenonT(60) DEF Authorise
    <3>2. normalise_host(k.req.host) = k.req.host.labels
      BY <1>0, <1>6 DEF Authorise, Is, ProxyClient, normalise_host
    <3>3. m \in DOMAIN gateway.rules /\ Covers(gateway.rules[m], k.req) /\ k.req.auth = "good"
      <4>1. k.req.auth = "good" /\ matching_rule(k.req.host.labels, k.req.port) # 0
        BY <3>1, <3>2 DEF entitled
      <4>2. /\ matching_rule(k.req.host.labels, k.req.port) \in DOMAIN gateway.rules
            /\ Covers(gateway.rules[matching_rule(k.req.host.labels, k.req.port)], k.req)
        BY <4>1, RuleCovers
      <4> QED
        BY <3>2, <4>1, <4>2
    <3> HIDE DEF m
    <3>4. l = [k EXCEPT !.pc = "audit", !.addr = a]
      BY <3>1, ClientUpdate
    <3>5. /\ l.pc = "audit" /\ l.addr = a /\ l.code = k.code
          /\ l.usent = k.usent /\ l.gout = k.gout
      <4> HIDE DEF k, l
      <4> QED
        BY <1>0, <3>4 DEF IsClient, ClientFields
    <3>6. Dialled(gateway.rules, k.req, a)
      BY <3>1, <3>3 DEF Dialled
    <3> QED
      BY <1>0, <1>2, <3>5, <3>6, ZenonT(60) DEF ProxyClient, ProxyStates
  <2> QED
    BY <2>1, <2>2
<1>7. CASE AuditTunnel(c)
  <2>1. PICK taken \in BOOLEAN :
          emit(c, "allowed", taken) /\ Set(c, [k EXCEPT !.pc = IF taken THEN "relay" ELSE "closed"])
    BY <1>7 DEF AuditTunnel
  <2>2. CASE taken
    <3>1. <<c, "allowed">> \in trail'
      BY <2>1, <2>2 DEF emit
    <3>2. /\ l.pc = "relay" /\ l.addr = k.addr /\ l.code = k.code
          /\ l.usent = k.usent /\ l.gout = k.gout
      BY <1>f, <2>1, <2>2
    <3> QED
      BY <1>0, <1>2, <3>1, <3>2 DEF ProxyClient, ProxyStates
  <2>3. CASE ~taken
    BY <1>2, <1>3, <1>f, <2>1, <2>3
  <2> QED
    BY <2>2, <2>3
<1>8. CASE RelayRead(c)
  <2>1. \/ Set(c, [k EXCEPT !.gin = @ - 1, !.hand = "up"])
        \/ Set(c, [k EXCEPT !.uin = @ - 1, !.hand = "down"]) \/ Set(c, Torn(k))
    BY <1>8 DEF RelayRead
  <2>2. CASE \/ Set(c, [k EXCEPT !.gin = @ - 1, !.hand = "up"])
             \/ Set(c, [k EXCEPT !.uin = @ - 1, !.hand = "down"])
    <3>1. l = [k EXCEPT !.gin = @ - 1, !.hand = "up"] \/ l = [k EXCEPT !.uin = @ - 1, !.hand = "down"]
      BY <2>2, ClientUpdate
    <3>2. /\ l.pc = k.pc /\ l.addr = k.addr /\ l.code = k.code
          /\ l.usent = k.usent /\ l.gout = k.gout
      <4> HIDE DEF k, l
      <4> QED
        BY <1>0, <3>1 DEF IsClient, ClientFields
    <3> QED
      BY <1>2, <1>3, <3>2
  <2> QED
    BY <1>2, <1>t, <2>1, <2>2
<1>9. CASE RelayWrite(c) \/ Peer(c) \/ PeerReads(c)
  <2>1. k.pc = "relay" /\ <<c, "allowed">> \in trail'
    BY <1>0, <1>9 DEF RelayWrite, Peer, PeerReads, Is, ProxyClient
  <2>2. \/ l = [k EXCEPT !.hand = "", !.uout = 1, !.usent = @ + 1]
        \/ l = [k EXCEPT !.hand = "", !.gout = 1]
        \/ \E f \in {"gin", "gfin", "uin", "ufin", "guestReads", "upReads", "gout", "uout"} :
             \E v : l = [k EXCEPT ![f] = v]
    BY <1>9, ClientUpdate DEF RelayWrite, Peer, PeerReads
  <2>3. l.pc = k.pc /\ l.addr = k.addr /\ l.code = k.code
    <3> HIDE DEF k, l
    <3> QED
      BY <1>0, <2>2 DEF IsClient, ClientFields
  <2> QED
    BY <1>0, <1>2, <2>1, <2>3 DEF ProxyClient, ProxyStates
<1>10. CASE RelayStop(c) \/ RelayBreaks(c)
  BY <1>2, <1>10, <1>t DEF RelayStop, RelayBreaks
<1> QED
  BY <1>1, <1>4, <1>5, <1>6, <1>7, <1>8, <1>9, <1>10

\* The decision to allow a request rests on the session's nonce, and an answer
\* that is accepted arrived whole.
LEMMA AllowedHasNonce ==
    ASSUME NEW r, decide(r) = "allowed" PROVE r.nonce = gateway.nonce
<1>1. r.prefix = gateway.prefix
  BY DEF decide
<1>2. r.method \in gateway.methods
  BY <1>1 DEF decide
<1> QED
  BY <1>1, <1>2 DEF decide

LEMMA AcceptedIsComplete ==
    ASSUME NEW a, NEW method, read_response(a, method) PROVE Complete(a, method)
BY DEF read_response, framed, no_body, body_arrived, Complete

LEMMA EndpointMoves ==
    ASSUME GatewayType, EndpointInv, gateway.kind # "proxy", NEW c \in Clients, ClientStep(c)
    PROVE  EndpointClient(c, client[c])'
<1> DEFINE k == client[c]
           l == client'[c]
<1>0. /\ IsClient(k) /\ EndpointClient(c, k) /\ gateway' = gateway /\ l.req = k.req
      /\ <<c, "allowed">> \in trail => <<c, "allowed">> \in trail'
  BY ClientShape DEF GatewayType, EndpointInv, OnlyClient
<1>1. \/ Open(c) \/ AcceptClient(c) \/ ReadHead(c) \/ AuditRequest(c) \/ ReadBody(c) \/ GuestBody(c)
      \/ ExpireStep(c) \/ ForwardRequest(c) \/ ConnectTls(c) \/ SendRequest(c) \/ Answer(c)
      \/ RespondToGuest(c)
  <2>1. ~Is(c, "passed") /\ ~Is(c, "read") /\ ~Is(c, "authorise") /\ ~Is(c, "relay")
    BY <1>0 DEF EndpointClient, EndpointThread, EndpointStates, Is
  <2> QED
    BY <2>1 DEF ClientStep, GuestStep, ThreadStep, Bridge, ReadRequest, Authorise, AuditTunnel,
       RelayRead, RelayWrite, RelayStop, RelayBreaks, Peer, PeerReads
<1> DEFINE Rest == /\ l.addr = k.addr /\ l.code = k.code /\ l.sentBody = k.sentBody
                   /\ l.cert = k.cert /\ l.answer = k.answer
<1>f. ASSUME NEW pc, NEW late,
             \/ Set(c, [k EXCEPT !.pc = pc]) \/ Set(c, [k EXCEPT !.pc = pc, !.late = late])
             \/ Set(c, [k EXCEPT !.late = late]) /\ pc = k.pc
      PROVE  l.pc = pc /\ Rest
  <2>1. \/ l = [k EXCEPT !.pc = pc] \/ l = [k EXCEPT !.pc = pc, !.late = late]
        \/ l = [k EXCEPT !.late = late] /\ pc = k.pc
    BY <1>f, ClientUpdate
  <2> HIDE DEF k, l
  <2> QED
    BY <1>0, <2>1 DEF IsClient, ClientFields
<1>r. ASSUME NEW code, Reply(c, code), k.pc # "closed",
             code = 200 => Complete(k.answer[1], k.req.method) /\ k.answer[1].fields = "valid"
      PROVE  EndpointClient(c, client[c])'
  <2>1. l = [k EXCEPT !.pc = "closed", !.code = code]
    BY <1>r, ClientUpdate DEF Reply
  <2>2. /\ l.pc = "closed" /\ l.code = code /\ l.addr = k.addr /\ l.sentBody = k.sentBody
        /\ l.cert = k.cert /\ l.answer = k.answer
    <3> HIDE DEF k, l
    <3> QED
      BY <1>0, <2>1 DEF IsClient, ClientFields
  <2> QED
    BY <1>0, <1>r, <2>2 DEF EndpointClient, EndpointThread, EndpointStates, Recorded
<1>4. CASE Open(c)
  <2>1. k.pc = "none" /\ l.pc = "queued" /\ Rest
    BY <1>4, <1>f DEF Open, Is
  <2> QED
    BY <1>0, <2>1 DEF EndpointClient, EndpointThread, EndpointStates, Recorded
<1>5. CASE AcceptClient(c)
  <2>1. k.pc = "queued" /\ l.pc = "head" /\ Rest
    BY <1>5, <1>f DEF AcceptClient, Is
  <2> QED
    BY <1>0, <2>1 DEF EndpointClient, EndpointThread, EndpointStates, Recorded
<1>6. CASE ReadHead(c)
  <2>0. k.pc = "head"
    BY <1>6 DEF ReadHead, Is
  <2>1. \/ \E code \in {400, 417, 403, 503} : Reply(c, code)
        \/ Set(c, [k EXCEPT !.pc = "audit"]) /\ decide(k.req) = "allowed"
    BY <1>6 DEF ReadHead
  <2>2. CASE \E code \in {400, 417, 403, 503} : Reply(c, code)
    BY <1>r, <2>0, <2>2
  <2>3. CASE Set(c, [k EXCEPT !.pc = "audit"]) /\ decide(k.req) = "allowed"
    <3>1. l.pc = "audit" /\ Rest /\ k.req.nonce = gateway.nonce
      BY <1>f, <2>3, AllowedHasNonce
    <3> QED
      BY <1>0, <2>0, <3>1 DEF EndpointClient, EndpointThread, EndpointStates, Recorded
  <2> QED
    BY <2>1, <2>2, <2>3
<1>7. CASE AuditRequest(c)
  <2>0. k.pc = "audit"
    BY <1>7 DEF AuditRequest, Is
  <2>1. PICK taken \in BOOLEAN :
          /\ emit(c, "allowed", taken)
          /\ IF taken THEN Set(c, [k EXCEPT !.pc = "body", !.late = FALSE]) ELSE Reply(c, 503)
    BY <1>7 DEF AuditRequest
  <2>2. CASE taken
    <3>1. l.pc = "body" /\ Rest
      BY <1>f, <2>1, <2>2
    <3>2. <<c, "allowed">> \in trail'
      BY <2>1, <2>2 DEF emit
    <3> QED
      BY <1>0, <2>0, <3>1, <3>2 DEF EndpointClient, EndpointThread, EndpointStates, Recorded
  <2>3. CASE ~taken
    BY <1>r, <2>0, <2>1, <2>3
  <2> QED
    BY <2>2, <2>3
<1>8. CASE ReadBody(c)
  <2>0. k.pc = "body"
    BY <1>8 DEF ReadBody, Is
  <2>1. \/ Set(c, [k EXCEPT !.pc = "forward", !.late = FALSE]) /\ k.sentBody = k.req.length
        \/ \E code \in {400, 501} : Reply(c, code)
    BY <1>8 DEF ReadBody
  <2>2. CASE Set(c, [k EXCEPT !.pc = "forward", !.late = FALSE]) /\ k.sentBody = k.req.length
    <3>1. l.pc = "forward" /\ Rest
      BY <1>f, <2>2
    <3> QED
      BY <1>0, <2>0, <2>2, <3>1 DEF EndpointClient, EndpointThread, EndpointStates, Recorded
  <2>3. CASE \E code \in {400, 501} : Reply(c, code)
    BY <1>r, <2>0, <2>3
  <2> QED
    BY <2>1, <2>2, <2>3
<1>9. CASE GuestBody(c)
  <2>1. k.pc = "body" /\ l = [k EXCEPT !.sentBody = @ + 1]
    BY <1>9, ClientUpdate DEF GuestBody, Is
  <2>2. /\ l.pc = "body" /\ l.addr = k.addr /\ l.code = k.code /\ l.cert = k.cert
        /\ l.answer = k.answer
    <3> HIDE DEF k, l
    <3> QED
      BY <1>0, <2>1 DEF IsClient, ClientFields
  <2> QED
    BY <1>0, <2>1, <2>2 DEF EndpointClient, EndpointThread, EndpointStates, Recorded
<1>10. CASE ExpireStep(c)
  <2>1. l.pc = k.pc /\ Rest
    BY <1>10, <1>f DEF ExpireStep
  <2>2. k.pc \in {"head", "body", "dial", "write", "answer"}
    BY <1>10 DEF ExpireStep
  <2>3. k.code = 0
    BY <1>0, <2>2 DEF EndpointClient, EndpointThread
  <2>4. CASE k.pc \in {"head", "body"}
    BY <1>0, <2>1, <2>3, <2>4 DEF EndpointClient, EndpointThread, EndpointStates, Recorded
  <2>5. CASE k.pc \in {"dial", "write"}
    BY <1>0, <2>1, <2>3, <2>5 DEF EndpointClient, EndpointThread, EndpointStates, Recorded
  <2>6. CASE k.pc = "answer"
    BY <1>0, <2>1, <2>3, <2>6 DEF EndpointClient, EndpointThread, EndpointStates, Recorded
  <2> QED
    BY <2>2, <2>4, <2>5, <2>6
<1>11. CASE ForwardRequest(c)
  <2>1. PICK pc \in {"dial", "failed"} :
          /\ Set(c, [k EXCEPT !.pc = pc])
          /\ pc = "dial" => gateway.upstream \in gateway.allowed_upstreams
    BY <1>11 DEF ForwardRequest
  <2>2. k.pc = "forward" /\ l.pc = pc /\ Rest
    BY <1>11, <1>f, <2>1 DEF ForwardRequest, Is
  <2> QED
    BY <1>0, <2>1, <2>2 DEF EndpointClient, EndpointThread, EndpointStates, Recorded
<1>12. CASE ConnectTls(c)
  <2>1. PICK pc \in {"write", "failed"}, cert \in {"names host", "other"} :
          /\ Set(c, [k EXCEPT !.pc = pc, !.cert = cert])
          /\ pc = "write" => cert = "names host"
    BY <1>12 DEF ConnectTls, verified
  <2>2. k.pc = "dial" /\ l = [k EXCEPT !.pc = pc, !.cert = cert]
    BY <1>12, <2>1, ClientUpdate DEF ConnectTls, Is
  <2>3. /\ l.pc = pc /\ l.cert = cert /\ l.addr = k.addr /\ l.code = k.code
        /\ l.sentBody = k.sentBody /\ l.answer = k.answer
    <3> HIDE DEF k, l
    <3> QED
      BY <1>0, <2>2 DEF IsClient, ClientFields
  <2> QED
    BY <1>0, <2>1, <2>2, <2>3 DEF EndpointClient, EndpointThread, EndpointStates, Recorded
<1>13. CASE SendRequest(c)
  <2>0. k.pc = "write"
    BY <1>13 DEF SendRequest, Is
  <2>1. \/ Set(c, [k EXCEPT !.pc = "failed"])
        \/ Set(c, [k EXCEPT !.pc = "answer", !.addr = gateway.upstream])
    BY <1>13 DEF SendRequest
  <2>2. CASE Set(c, [k EXCEPT !.pc = "failed"])
    <3>1. l.pc = "failed" /\ Rest
      BY <1>f, <2>2
    <3> QED
      BY <1>0, <2>0, <3>1 DEF EndpointClient, EndpointThread, EndpointStates, Recorded
  <2>3. CASE Set(c, [k EXCEPT !.pc = "answer", !.addr = gateway.upstream])
    <3>1. l = [k EXCEPT !.pc = "answer", !.addr = gateway.upstream]
      BY <2>3, ClientUpdate
    <3>2. /\ l.pc = "answer" /\ l.addr = gateway.upstream /\ l.code = k.code
          /\ l.sentBody = k.sentBody /\ l.cert = k.cert /\ l.answer = k.answer
      <4> HIDE DEF k, l
      <4> QED
        BY <1>0, <3>1 DEF IsClient, ClientFields
    <3> QED
      BY <1>0, <2>0, <3>2, ZenonT(60) DEF EndpointClient, EndpointThread, EndpointStates, Recorded
  <2> QED
    BY <2>1, <2>2, <2>3
<1>14. CASE Answer(c)
  <2>0. k.pc = "answer"
    BY <1>14 DEF Answer, Is
  <2>1. \/ \E a \in gateway.answers : \E pc \in {"respond", "failed"} :
             /\ Set(c, [k EXCEPT !.answer = <<a>>, !.pc = pc])
             /\ pc = "respond" => read_response(a, k.req.method)
        \/ Set(c, [k EXCEPT !.pc = "failed"])
    BY <1>14 DEF Answer
  <2>a. ASSUME l.pc = "failed" \/ (l.pc = "respond" /\ Complete(l.answer[1], l.req.method)),
               l.addr = k.addr, l.code = k.code, l.sentBody = k.sentBody, l.cert = k.cert
        PROVE  EndpointClient(c, client[c])'
    <3>1. l.code = 0 /\ l.code # 200
      <4>1. k.code = 0
        BY <1>0, <2>0 DEF EndpointClient, EndpointThread
      <4>2. 0 # 200
        OBVIOUS
      <4> QED
        BY <2>a, <4>1, <4>2
    <3>2. CASE l.pc = "failed"
      BY <1>0, <2>0, <2>a, <3>1, <3>2, ZenonT(60) DEF EndpointClient, EndpointThread,
         EndpointStates, Recorded
    <3>3. CASE l.pc = "respond" /\ Complete(l.answer[1], l.req.method)
      BY <1>0, <2>0, <2>a, <3>1, <3>3, ZenonT(60) DEF EndpointClient, EndpointThread,
         EndpointStates, Recorded
    <3> QED
      BY <2>a, <3>2, <3>3
  <2>2. CASE Set(c, [k EXCEPT !.pc = "failed"])
    <3>1. l.pc = "failed" /\ Rest
      BY <1>f, <2>2
    <3> QED
      BY <2>a, <3>1
  <2>3. ASSUME NEW a \in gateway.answers, NEW pc \in {"respond", "failed"},
               Set(c, [k EXCEPT !.answer = <<a>>, !.pc = pc]),
               pc = "respond" => read_response(a, k.req.method)
        PROVE  EndpointClient(c, client[c])'
    <3>1. l = [k EXCEPT !.answer = <<a>>, !.pc = pc]
      BY <2>3, ClientUpdate
    <3>2. l.pc = pc /\ l.addr = k.addr /\ l.code = k.code /\ l.sentBody = k.sentBody /\ l.cert = k.cert
      <4> HIDE DEF k, l
      <4> QED
        BY <1>0, <3>1 DEF IsClient, ClientFields
    <3>3. l.answer[1] = a
      <4> HIDE DEF k, l
      <4>1. l.answer = <<a>>
        BY <1>0, <3>1 DEF IsClient, ClientFields
      <4> QED
        BY <4>1
    <3>4. pc = "respond" => Complete(l.answer[1], l.req.method)
      BY <1>0, <2>3, <3>3, AcceptedIsComplete
    <3> QED
      BY <2>a, <3>2, <3>4
  <2> QED
    BY <2>1, <2>2, <2>3
<1>15. CASE RespondToGuest(c)
  <2>1. \/ k.pc = "failed" /\ \E code \in {502, 503} : Reply(c, code)
        \/ k.pc = "respond" /\ Reply(c, IF k.answer[1].fields = "valid" THEN 200 ELSE 502)
    BY <1>15 DEF RespondToGuest, Is
  <2>2. CASE k.pc = "failed" /\ \E code \in {502, 503} : Reply(c, code)
    BY <1>r, <2>2
  <2>3. CASE k.pc = "respond" /\ Reply(c, IF k.answer[1].fields = "valid" THEN 200 ELSE 502)
    <3>1. Complete(k.answer[1], k.req.method)
      BY <1>0, <2>3 DEF EndpointClient, EndpointThread
    <3> QED
      BY <1>r, <2>3, <3>1
  <2> QED
    BY <2>1, <2>2, <2>3
<1> QED
  BY <1>1, <1>4, <1>5, <1>6, <1>7, <1>8, <1>9, <1>10, <1>11, <1>12, <1>13, <1>14, <1>15

LEMMA UnansweredCode == 0 # 200
OBVIOUS

LEMMA Positive == ASSUME NEW n PROVE n > 0 => n # 0
OBVIOUS

\* What is known of a client that does not move stays known.
LEMMA ClientRests ==
    ASSUME NEW d, client'[d] = client[d], gateway' = gateway, trail \subseteq trail'
    PROVE  /\ ProxyClient(d, client[d]) => ProxyClient(d, client[d])'
           /\ EndpointClient(d, client[d]) => EndpointClient(d, client[d])'
<1>1. ProxyClient(d, client[d]) => ProxyClient(d, client[d])'
  BY DEF ProxyClient
<1>2. EndpointClient(d, client[d]) => EndpointClient(d, client[d])'
  BY DEF EndpointClient
<1> QED
  BY <1>1, <1>2

LEMMA GatewayStart == NetInit => GatewayInv
<1> SUFFICES ASSUME NetInit PROVE GatewayInv
  OBVIOUS
<1>1. PICK r \in gateway.requests :
        client = [c \in Clients |-> NewClient(IF c = 1 THEN r ELSE gateway.other)]
  BY DEF NetInit
<1>2. ASSUME NEW c \in Clients
      PROVE  \E q \in gateway.requests \cup {gateway.other} : client[c] = NewClient(q)
  BY <1>1
<1>3. ASSUME NEW q
      PROVE  /\ IsClient(NewClient(q)) /\ NewClient(q).req = q /\ NewClient(q).pc = "none"
             /\ NewClient(q).addr = "" /\ NewClient(q).code = 0 /\ NewClient(q).usent = 0
             /\ NewClient(q).gout = 0
  BY DEF NewClient, IsClient, ClientFields
<1>4. GatewayType
  BY <1>1, <1>2, <1>3 DEF NetInit, GatewayType
<1>5. ASSUME NEW c \in Clients
      PROVE  client[c].pc = "none" /\ client[c].addr = "" /\ client[c].code = 0
             /\ client[c].usent = 0 /\ client[c].gout = 0
  <2>1. PICK q \in gateway.requests \cup {gateway.other} : client[c] = NewClient(q)
    BY <1>2
  <2>2. /\ NewClient(q).pc = "none" /\ NewClient(q).addr = "" /\ NewClient(q).code = 0
        /\ NewClient(q).usent = 0 /\ NewClient(q).gout = 0
    BY <1>3
  <2> QED
    BY <2>1, <2>2
<1>6. ProxyInv
  BY <1>5 DEF NetInit, ProxyInv, ProxyClient, ProxyStates
<1>7. EndpointInv
  <2> QED
    BY <1>5, UnansweredCode DEF EndpointInv, EndpointClient, EndpointThread, EndpointStates,
       Recorded
<1> QED
  BY <1>4, <1>6, <1>7 DEF GatewayInv

\* The destructor closes the connections nobody serves yet.
LEMMA GatewayStopKeeps ==
    ASSUME GatewayInv, Stop PROVE GatewayInv'
<1>0. /\ gateway' = gateway /\ trail' = trail /\ endpointClient' = endpointClient
      /\ DOMAIN client' = Clients /\ client' = [c \in Clients |-> client'[c]]
  BY DEF Stop
<1>1. ASSUME NEW c \in Clients
      PROVE  \/ client'[c] = client[c]
             \/ /\ client[c].pc \in {"passed", "queued", "none"} /\ IsClient(client'[c])
                /\ client'[c].pc = "closed" /\ client'[c].req = client[c].req
                /\ client'[c].addr = client[c].addr /\ client'[c].code = client[c].code
                /\ client'[c].usent = client[c].usent /\ client'[c].gout = client[c].gout
  <2>1. IsClient(client[c])
    BY DEF GatewayInv, GatewayType
  <2>2. \/ client'[c] = client[c]
        \/ /\ client[c].pc \in {"passed", "queued", "none"}
           /\ client'[c] = [client[c] EXCEPT !.pc = "closed"]
    BY DEF Stop
  <2> QED
    BY <2>1, <2>2 DEF IsClient, ClientFields
<1>2. GatewayType'
  BY <1>0, <1>1 DEF GatewayInv, GatewayType
<1>3. ProxyInv'
  <2> SUFFICES ASSUME gateway.kind = "proxy", NEW c \in Clients PROVE ProxyClient(c, client[c])'
    BY <1>0 DEF GatewayInv, ProxyInv
  <2>1. ProxyClient(c, client[c])
    BY DEF GatewayInv, ProxyInv
  <2>2. CASE client'[c] = client[c]
    BY <1>0, <2>1, <2>2, ClientRests
  <2>3. CASE client'[c] # client[c]
    BY <1>0, <1>1, <2>1, <2>3 DEF ProxyClient, ProxyStates
  <2> QED
    BY <2>2, <2>3
<1>4. EndpointInv'
  <2> SUFFICES ASSUME gateway.kind # "proxy", NEW c \in Clients PROVE EndpointClient(c, client[c])'
    BY <1>0 DEF EndpointInv
  <2>1. EndpointClient(c, client[c])
    BY DEF GatewayInv, EndpointInv
  <2>2. CASE client'[c] = client[c]
    BY <1>0, <2>1, <2>2, ClientRests
  <2>3. CASE client'[c] # client[c]
    <3>0. client[c].pc \in {"queued", "none"}
      BY <1>1, <2>1, <2>3 DEF EndpointClient, EndpointThread, EndpointStates
    <3>1. client[c].addr = "" /\ client[c].code = 0 /\ 0 # 200
      BY <2>1, <3>0, UnansweredCode DEF EndpointClient, EndpointThread, EndpointStates
    <3>2. client'[c].pc = "closed" /\ client'[c].addr = "" /\ client'[c].code # 200
      BY <1>1, <2>3, <3>1
    <3> QED
      BY <3>2 DEF EndpointClient, EndpointThread, EndpointStates, Recorded
  <2> QED
    BY <2>2, <2>3
<1> QED
  BY <1>2, <1>3, <1>4 DEF GatewayInv

LEMMA GatewayStutters ==
    ASSUME GatewayInv, UNCHANGED <<gateway, client, endpointClient, trail>> PROVE GatewayInv'
<1>1. GatewayType'
  BY DEF GatewayInv, GatewayType
<1>2. ProxyInv'
  BY DEF GatewayInv, ProxyInv, ProxyClient
<1>3. EndpointInv'
  BY DEF GatewayInv, EndpointInv, EndpointClient
<1> QED
  BY <1>1, <1>2, <1>3 DEF GatewayInv

LEMMA GatewayKeeps ==
    ASSUME GatewayInv, [NetNext]_netVars PROVE GatewayInv'
<1>1. ASSUME NEW c \in Clients, ClientStep(c) PROVE GatewayInv'
  <2>1. GatewayType /\ ProxyInv /\ EndpointInv
    BY DEF GatewayInv
  <2>2. /\ OnlyClient(c) /\ gateway' = gateway /\ trail \subseteq trail'
        /\ endpointClient' \in {endpointClient, 0, c}
    BY <1>1, <2>1, ClientShape
  <2>3. GatewayType'
    BY <2>1, <2>2 DEF GatewayType, OnlyClient
  <2>4. ProxyInv'
    <3> SUFFICES ASSUME gateway.kind = "proxy"
                 PROVE  endpointClient' = 0 /\ \A d \in Clients : ProxyClient(d, client[d])'
      BY <2>2 DEF ProxyInv
    <3>1. ProxyClient(c, client[c])' /\ endpointClient' = 0
      BY <1>1, <2>1, ProxyMoves
    <3>2. ASSUME NEW d \in Clients, d # c PROVE ProxyClient(d, client[d])'
      <4>1. ProxyClient(d, client[d]) /\ client'[d] = client[d]
        BY <2>1, <2>2, <3>2 DEF ProxyInv, OnlyClient
      <4> QED
        BY <2>2, <4>1, ClientRests
    <3> QED
      BY <3>1, <3>2
  <2>5. EndpointInv'
    <3> SUFFICES ASSUME gateway.kind # "proxy"
                 PROVE  \A d \in Clients : EndpointClient(d, client[d])'
      BY <2>2 DEF EndpointInv
    <3>1. EndpointClient(c, client[c])'
      BY <1>1, <2>1, EndpointMoves
    <3>2. ASSUME NEW d \in Clients, d # c PROVE EndpointClient(d, client[d])'
      <4>1. EndpointClient(d, client[d]) /\ client'[d] = client[d]
        BY <2>1, <2>2, <3>2 DEF EndpointInv, OnlyClient
      <4> QED
        BY <2>2, <4>1, ClientRests
    <3> QED
      BY <3>1, <3>2
  <2> QED
    BY <2>3, <2>4, <2>5 DEF GatewayInv
<1>2. CASE Stop
  BY <1>2, GatewayStopKeeps
<1>3. CASE JoinThreads \/ UNCHANGED netVars
  BY <1>3, GatewayStutters DEF JoinThreads, netVars
<1> QED
  BY <1>1, <1>2, <1>3 DEF NetNext, ClientStep, GuestStep

LEMMA GatewayIsSafe == GatewayInv => EgressIsEntitled /\ ExchangesAreWhole
<1> SUFFICES ASSUME GatewayInv PROVE EgressIsEntitled /\ ExchangesAreWhole
  OBVIOUS
<1>1. ASSUME gateway.kind = "proxy", NEW c \in Clients PROVE ProxyClient(c, client[c])
  BY <1>1 DEF GatewayInv, ProxyInv
<1>2. ASSUME gateway.kind # "proxy", NEW c \in Clients PROVE EndpointClient(c, client[c])
  BY <1>2 DEF GatewayInv, EndpointInv
<1>3. EgressIsEntitled
  <2> SUFFICES ASSUME NEW c \in Clients, client[c].addr # ""
               PROVE  LET r == client[c].req IN
                      IF gateway.kind = "proxy"
                      THEN /\ r.auth = "good"
                           /\ \E k \in DOMAIN gateway.rules :
                                /\ gateway.rules[k].port = r.port
                                /\ LET h == gateway.rules[k].host IN
                                   \/ r.host.labels = h
                                   \/ /\ gateway.rules[k].suffix /\ Len(h) < Len(r.host.labels)
                                      /\ \A i \in 1..Len(h) :
                                           h[i] = r.host.labels[Len(r.host.labels) - Len(h) + i]
                                /\ private_address(client[c].addr) => gateway.rules[k].private
                           /\ client[c].usent > 0 \/ client[c].gout > 0 => <<c, "allowed">> \in trail
                      ELSE /\ <<c, "allowed">> \in trail /\ r.nonce = gateway.nonce
                           /\ client[c].addr \in gateway.allowed_upstreams
                           /\ client[c].cert = "names host"
                           /\ forwarded_fields(r) \cap ({"authorization", "x-api-key"} \cup r.named) = {}
    BY ZenonT(60) DEF EgressIsEntitled
  <2>1. CASE gateway.kind = "proxy"
    <3>1. Dialled(gateway.rules, client[c].req, client[c].addr)
      BY <1>1, <2>1 DEF ProxyClient
    <3>2. client[c].usent # 0 \/ client[c].gout # 0 => <<c, "allowed">> \in trail
      BY <1>1, <2>1 DEF ProxyClient
    <3>3. client[c].usent > 0 \/ client[c].gout > 0 => <<c, "allowed">> \in trail
      BY <3>2, Positive
    <3> QED
      BY <2>1, <3>1, <3>3 DEF Dialled, Covers
  <2>2. CASE gateway.kind # "proxy"
    <3>1. /\ <<c, "allowed">> \in trail /\ client[c].req.nonce = gateway.nonce
          /\ client[c].addr \in gateway.allowed_upstreams /\ client[c].cert = "names host"
      BY <1>2, <2>2 DEF EndpointClient, EndpointThread
    <3>2. forwarded_fields(client[c].req) \cap ({"authorization", "x-api-key"} \cup client[c].req.named) = {}
      BY DEF forwarded_fields, request_header_denylist
    <3> QED
      BY <2>2, <3>1, <3>2
  <2> QED
    BY <2>1, <2>2
<1>4. ExchangesAreWhole
  <2> SUFFICES ASSUME NEW c \in Clients
               PROVE  /\ gateway.kind = "endpoint" /\ client[c].addr # "" =>
                           client[c].sentBody = client[c].req.length
                      /\ client[c].code = 200 =>
                           LET a == client[c].answer[1] IN
                           (a.whole \/ no_body(a, client[c].req.method)) /\ ~a.upgrade /\ a.fields = "valid"
    BY DEF ExchangesAreWhole
  <2>1. CASE gateway.kind = "proxy"
    <3>1. client[c].code = 0
      BY <1>1, <2>1 DEF ProxyClient
    <3> QED
      BY <2>1, <3>1, UnansweredCode
  <2>2. CASE gateway.kind # "proxy"
    BY <1>2, <2>2 DEF EndpointClient, EndpointThread, Complete
  <2> QED
    BY <2>1, <2>2
<1> QED
  BY <1>3, <1>4

-----------------------------------------------------------------------------
(* The guest's ways out together. *)

\* The inductive invariant of the local-service proxy: names and identities,
\* the peers that are pinned, the audit of every release and the stream.
THEOREM ServiceInvariant == MCSpec => []ServiceInv
<1>1. MCInit => ServiceInv
  BY ServiceStart DEF MCInit
<1>2. ASSUME ServiceInv, [MCNext]_<<vars, netVars>> PROVE ServiceInv'
  <2>1. [Next]_vars
    BY <1>2 DEF MCNext
  <2> QED
    BY <1>2, <2>1, ServiceKeeps
<1> QED
  BY <1>1, <1>2, PTL DEF MCSpec

\* The inductive invariant of the CONNECT proxy and the credentialed endpoint:
\* what each thread has established by the step it stands at.
THEOREM GatewayInvariant == MCSpec => []GatewayInv
<1>1. MCInit => GatewayInv
  BY GatewayStart DEF MCInit
<1>2. ASSUME GatewayInv, [MCNext]_<<vars, netVars>> PROVE GatewayInv'
  <2>1. [NetNext]_netVars
    BY <1>2 DEF MCNext
  <2> QED
    BY <1>2, <2>1, GatewayKeeps
<1> QED
  BY <1>1, <1>2, PTL DEF MCSpec

\* Nothing reaches a service, a provider or the guest unchecked: connect_endpoint
\* pins the peer, the delivery gate and the tunnel's event come first, dial and
\* the endpoint's decision keep to their lists.
THEOREM NothingPassesUncheckedHolds == MCSpec => []NothingPassesUnchecked
<1>1. ServiceInv /\ GatewayInv => NothingPassesUnchecked
  BY ServiceIsSafe, GatewayIsSafe DEF NothingPassesUnchecked
<1> QED
  BY <1>1, ServiceInvariant, GatewayInvariant, PTL

\* Every answer is one whole answer to one request: the boundary checks poison a
\* pipelined stream, and read_response accepts no cut or unframed answer.
THEOREM ExchangesAreFramedHolds == MCSpec => []ExchangesAreFramed
<1>1. ServiceInv /\ GatewayInv => ExchangesAreFramed
  BY ServiceIsSafe, GatewayIsSafe DEF ExchangesAreFramed
<1> QED
  BY <1>1, ServiceInvariant, GatewayInvariant, PTL

\* When a local-service session is gone, so are the sockets and the directory it
\* recorded, but for a socket a failing preparation could not recognise; and
\* ~implementation and ~bound_socket_rollback remove no object that came after
\* the recorded one, unless it takes the name between the look (fstatat) and
\* the unlink, or before prepare_session discards an unopened directory.
THEOREM TeardownIsExactHolds == MCSpec => TeardownIsExact
<1>1. ServiceInv => OwnIsRemoved
  BY ServiceIsSafe
<1>2. ASSUME ServiceInv, [MCNext]_<<vars, netVars>> PROVE [ForeignIsKept]_vars
  <2>1. [Next]_vars
    BY <1>2 DEF MCNext
  <2> QED
    BY <1>2, <2>1, ServiceKeeps
<1> QED
  BY <1>1, <1>2, ServiceInvariant, PTL DEF MCSpec, TeardownIsExact
=============================================================================
