-------------------------- MODULE RemoteValidation --------------------------
(***************************************************************************)
(* The remote validation executor: the process at the far end of one ssh   *)
(* channel (src/src/remote_exec_main.cpp), its framing and request rules   *)
(* (control/remote_protocol.cpp, remote_validation.cpp) and the containers *)
(* it runs for its sessions (control/remote_validation_executor.cpp).      *)
(*                                                                         *)
(* The process has two threads.  The main thread serves one request at a   *)
(* time and holds mutex_ from dispatch to the answer; `op' is the request  *)
(* that waits for a docker command.  The watchdog thread takes expired     *)
(* records, cleans their containers WITHOUT mutex_ and marks the sessions  *)
(* with it.  Containers and staging directories outlive the process.       *)
(*                                                                         *)
(* A container's name is the digest of its session and epoch, here the     *)
(* pair itself; a payload digest is the request's content; output is the   *)
(* number of bytes written.                                                *)
(***************************************************************************)
EXTENDS Integers, Sequences, FiniteSets, SequencesExt, Selection

CONSTANTS
    Sids, Epochs,  \* session ids and epochs a client may name
    Requests,      \* the frames a client sends, see MCSessionExecution
    MaxSessions,   \* configured_.max_sessions
    MaxReplays,    \* max_sessions * 8 + 16 in the code
    MaxTtl,        \* configured_.max_ttl_ms
    OutputCap,     \* max_docker_output_bytes
    MaxTime,       \* bound: the monotonic clock
    MaxSent,       \* bound: frames sent
    MaxWrites,     \* bound: bytes a container writes
    MaxDockerFaults      \* bound: failing docker commands and crashes

ASSUME RemoteAssumption ==
    /\ MaxSessions \in 1 .. 64
    /\ {MaxReplays, MaxTtl, OutputCap, MaxTime, MaxSent, MaxWrites, MaxDockerFaults} \subseteq Nat
    /\ \A r \in Requests : /\ r.sid \in Sids /\ r.epoch \in Epochs
                           /\ {r.ttl, r.cursor, r.max} \subseteq Nat

VARIABLES
    mode,      \* "down", "serving", or "closing": disconnect_cleanup runs
    now,       \* std::chrono::steady_clock
    since,     \* receive_started_at
    op,        \* the request inside execute and the docker command it awaits
    sessions,  \* sessions_
    tombs,     \* tombstones_
    replays,   \* replays_
    watched,   \* watchdog_records_
    expired,   \* the watchdog's local list, first one in hand
    wstep,     \* the watchdog's step on that one
    box,       \* the containers docker knows
    stages,    \* the directories under the staging root
    left,      \* containers a cleanup failed to remove
    exits,     \* exit codes containers ended with by themselves or under the watchdog
    answers,   \* successful results the client received
    sent, dockerFaults

remoteVars == <<mode, now, since, op, sessions, tombs, replays, watched, expired, wstep,
                box, stages, left, exits, answers, sent, dockerFaults>>

Names == Sids \X Epochs
NoCode == -1
NoOp == [step |-> "none"]
NoBox == [st |-> "none", code |-> NoCode, out |-> 0]
NameOf(sid) == <<sid, sessions[sid].epoch>>
Without(f, x) == [y \in DOMAIN f \ {x} |-> f[y]]
Put(f, x, v) == [y \in DOMAIN f \cup {x} |-> IF y = x THEN v ELSE f[y]]

RemoteTypeOK ==
    /\ mode \in {"down", "serving", "closing"}
    /\ now \in 0 .. MaxTime /\ since \in 0 .. now
    /\ DOMAIN sessions \subseteq Sids /\ Cardinality(DOMAIN sessions) <= MaxSessions
    /\ Len(tombs) <= 2 * MaxSessions
    /\ Cardinality(DOMAIN replays) <= MaxReplays
    /\ \A r \in Range(watched) \cup Range(expired) : r.name \in Names
    /\ DOMAIN box = Names /\ stages \subseteq Names /\ left \subseteq Names

RemoteInit ==
    /\ mode = "down" /\ now = 0 /\ since = 0 /\ op = NoOp
    /\ sessions = <<>> /\ tombs = <<>> /\ replays = <<>>
    /\ watched = <<>> /\ expired = <<>> /\ wstep = "scan"
    /\ box = [n \in Names |-> NoBox] /\ stages = {} /\ left = {}
    /\ exits = {} /\ answers = {} /\ sent = 0 /\ dockerFaults = 0

-----------------------------------------------------------------------------
(* The docker command line, an external program.                           *)

Run(n) == [box EXCEPT ![n] = [st |-> "running", code |-> NoCode, out |-> 0]]
Ended(b, code) == [st |-> "exited", code |-> code, out |-> b.out]

\* docker stop --time 1 asks with SIGTERM before it kills: a program that
\* handles it ends with a code of its own, one that does not with the signal's.
StopCodes == {0, 143, 137}
Stops(n, code) == box[n].st = "running" /\ box' = [box EXCEPT ![n] = Ended(@, code)]
Removed(n) == [box EXCEPT ![n] = NoBox]

Fault == dockerFaults < MaxDockerFaults /\ dockerFaults' = dockerFaults + 1

\* cleanup_container_name: stop, kill, rm -f; each may fail, none is checked.
cleanup_container_name(n) ==
    \/ box' = Removed(n) /\ left' = left \ {n} /\ UNCHANGED dockerFaults
    \/ /\ box[n].st # "none" /\ Fault /\ left' = left \cup {n}
       /\ box' = box \/ \E code \in StopCodes : Stops(n, code)

-----------------------------------------------------------------------------
(* Results and session lookups.                                            *)

ok(state, next, eof, exit) ==
    [ok |-> TRUE, state |-> state, next |-> next, eof |-> eof, exit |-> exit]
err(code) == [ok |-> FALSE, code |-> code]

project(s) == ok(s.state, 0, s.state # "running", s.exit)
project_tombstone(t) == ok(t.state, 0, TRUE, t.exit)
project_read(s, r) ==
    LET count == IF s.out - r.cursor < r.max THEN s.out - r.cursor ELSE r.max
    IN  IF r.cursor > s.out THEN err("invalid_cursor")
        ELSE ok(s.state, r.cursor + count,
                s.state # "running" /\ r.cursor + count = s.out, s.exit)

matching_session(r) == r.sid \in DOMAIN sessions /\ sessions[r.sid].epoch = r.epoch
session_error(r) ==
    IF r.sid \in DOMAIN sessions THEN err("session_conflict") ELSE err("not_found")

\* The first tombstone of the session, or the lookup's own error.
matching_tombstone(r) ==
    LET mine == Those(tombs, {t \in Range(tombs) : t.sid = r.sid /\ t.epoch = r.epoch})
    IN  IF mine = <<>> THEN session_error(r)
        ELSE IF r.method = "read" THEN project_read(Head(mine), r)
        ELSE project_tombstone(Head(mine))

add_tombstone(s, sid, state) ==
    LET all == Append(tombs, [sid |-> sid, epoch |-> s.epoch, state |-> state,
                              out |-> s.out, exit |-> s.exit])
    IN  IF Len(all) > 2 * MaxSessions THEN Tail(all) ELSE all

unwatch_session(n) == Those(watched, {r \in Range(watched) : r.name # n})

-----------------------------------------------------------------------------
(* Requests.                                                               *)

\* What the digest covers: method, binding and the fields of a read.
canonical_payload(r) ==
    <<r.method, r.sid, r.epoch, r.desc, r.key>>
        \o IF r.method = "read" THEN <<r.cursor, r.max>> ELSE <<>>

\* Any other payload ends the connection.
from_wire(r) ==
    /\ r.fields = (r.method = "read")
    /\ r.method = "read" => r.max > 0
    /\ r.digest = canonical_payload(r)

\* A frame whose envelope does not parse has no method.
decode_remote_request_header(r) == r.method # "malformed"

\* Methods of the interactive protocol are refused and carry no payload.
decode_remote_validation_request(r) == r.method # "malformed" /\ from_wire(r)
Payloadless == {"health", "interactive"}

replay_key(r) == <<r.sid, r.epoch, r.key>>

\* The request deadline counts from the moment the process began to read.
remote_request_deadline(r) == since + r.ttl

Known(r) == replay_key(r) \in DOMAIN replays
Replay(r) ==
    LET e == replays[replay_key(r)]
    IN  IF e.method = r.method /\ e.digest = r.digest THEN e.result
        ELSE err("idempotency_conflict")

\* executor_error: clean up and exit, without an answer.
Close == mode' = "closing" /\ op' = NoOp

\* The answer goes out before the deadline, or the connection ends.
Respond(r, deadline, result) ==
    /\ op' = NoOp
    /\ IF now >= deadline
       THEN mode' = "closing" /\ UNCHANGED <<since, answers>>
       ELSE /\ UNCHANGED mode /\ since' = now
            /\ answers' = IF result.ok
                          THEN answers \cup {[key |-> replay_key(r), digest |-> r.digest,
                                              name |-> <<r.sid, r.epoch>>, result |-> result]}
                          ELSE answers

Store(r, result) ==
    replays' = IF result.ok
               THEN Put(replays, replay_key(r),
                        [method |-> r.method, digest |-> r.digest, result |-> result])
               ELSE replays

Finish(r, deadline, result) == Store(r, result) /\ Respond(r, deadline, result)

Await(r, deadline, step) ==
    /\ op' = [step |-> step, req |-> r, deadline |-> deadline]
    /\ UNCHANGED <<mode, since, replays, answers>>

State(sid, state) == [sessions EXCEPT ![sid].state = state]

\* cleanup_container has nothing to do for a session that was never started.
Untouched(s) == ~s.started /\ s.state = "prepared"

prepare_validation(r, deadline) ==
    /\ UNCHANGED tombs
    /\ IF r.sid \in DOMAIN sessions
       THEN /\ Finish(r, deadline, IF matching_session(r) THEN project(sessions[r.sid])
                                   ELSE err("session_conflict"))
            /\ UNCHANGED <<sessions, stages>>
       ELSE IF Cardinality(DOMAIN sessions) >= MaxSessions
       THEN Finish(r, deadline, err("capacity_exceeded")) /\ UNCHANGED <<sessions, stages>>
       ELSE IF <<r.sid, r.epoch>> \in stages
       THEN Finish(r, deadline, err("staging_error")) /\ UNCHANGED <<sessions, stages>>
       ELSE LET s == [epoch |-> r.epoch, state |-> "prepared", started |-> FALSE,
                      out |-> 0, exit |-> NoCode, deadline |-> 0]
            IN  /\ sessions' = Put(sessions, r.sid, s)
                /\ stages' = stages \cup {<<r.sid, r.epoch>>}
                /\ Finish(r, deadline, project(s))

\* The part of each operation before its first docker command.
execute(r, deadline) ==
    LET s == sessions[r.sid]
    IN  \/ r.method = "prepare" /\ prepare_validation(r, deadline)
        \/ /\ r.method # "prepare" /\ ~matching_session(r)
           /\ Finish(r, deadline, IF r.method = "start" THEN session_error(r)
                                  ELSE matching_tombstone(r))
           /\ UNCHANGED <<sessions, tombs, stages>>
        \/ /\ r.method = "start" /\ matching_session(r)
           /\ IF s.state # "prepared"
              THEN Finish(r, deadline, err("invalid_state")) /\ UNCHANGED sessions
              ELSE Await(r, deadline, "run") /\ sessions' = State(r.sid, "starting")
           /\ UNCHANGED <<tombs, stages>>
        \/ /\ r.method = "read" /\ matching_session(r)
           /\ IF s.started /\ s.state = "running" THEN Await(r, deadline, "logs")
              ELSE Finish(r, deadline, project_read(s, r))
           /\ UNCHANGED <<sessions, tombs, stages>>
        \/ /\ r.method = "wait" /\ matching_session(r)
           /\ IF s.state # "running" THEN Finish(r, deadline, project(s))
              ELSE Await(r, deadline, IF now >= s.deadline THEN "timed_out" ELSE "inspect")
           /\ UNCHANGED <<sessions, tombs, stages>>
        \/ /\ r.method = "stop" /\ matching_session(r)
           /\ IF Untouched(s)
              THEN /\ sessions' = State(r.sid, "stopped")
                   /\ Finish(r, deadline, project([s EXCEPT !.state = "stopped"]))
              ELSE Await(r, deadline, "stopped") /\ UNCHANGED sessions
           /\ UNCHANGED <<tombs, stages>>
        \/ /\ r.method = "cleanup" /\ matching_session(r)
           /\ IF Untouched(s)
              THEN /\ sessions' = Without(sessions, r.sid)
                   /\ stages' = stages \ {NameOf(r.sid)}
                   /\ tombs' = add_tombstone(s, r.sid, "cleaned")
                   /\ Finish(r, deadline, project([s EXCEPT !.state = "cleaned"]))
              ELSE Await(r, deadline, "cleaned") /\ UNCHANGED <<sessions, tombs, stages>>

\* mutex_ is taken and the idempotency state consulted before anything runs.
dispatch(r, deadline) ==
    IF r.desc # "fixed"
    THEN Respond(r, deadline, err("descriptor_mismatch"))
         /\ UNCHANGED <<replays, sessions, tombs, stages>>
    ELSE IF Known(r)
    THEN Respond(r, deadline, Replay(r)) /\ UNCHANGED <<replays, sessions, tombs, stages>>
    ELSE IF Cardinality(DOMAIN replays) >= MaxReplays
    THEN Respond(r, deadline, err("capacity_exceeded"))
         /\ UNCHANGED <<replays, sessions, tombs, stages>>
    ELSE execute(r, deadline)

\* run_stdio reads one frame and hands it to handle.
handle(r) ==
    /\ mode = "serving" /\ op = NoOp /\ sent < MaxSent
    /\ remote_request_deadline(r) <= MaxTime
    /\ sent' = sent + 1
    /\ \/ /\ \/ now >= remote_request_deadline(r) \/ ~decode_remote_request_header(r)
             \/ r.method \notin Payloadless /\ ~decode_remote_validation_request(r)
          /\ Close /\ UNCHANGED <<since, sessions, tombs, replays, stages, answers>>
       \/ /\ now < remote_request_deadline(r) /\ r.method \in Payloadless
          /\ since' = now
          /\ UNCHANGED <<mode, op, sessions, tombs, replays, stages, answers>>
       \/ /\ now < remote_request_deadline(r) /\ r.method \notin Payloadless
          /\ decode_remote_validation_request(r)
          /\ dispatch(r, remote_request_deadline(r))
    /\ UNCHANGED <<now, watched, expired, wstep, box, left, exits, dockerFaults>>

\* End of input, or no frame within the channel timeout.
HangUp ==
    /\ mode = "serving" /\ op = NoOp /\ Close
    /\ UNCHANGED <<now, since, sessions, tombs, replays, watched, expired, wstep, box,
                   stages, left, exits, answers, sent, dockerFaults>>

-----------------------------------------------------------------------------
(* The docker commands of an operation.                                    *)

Name == <<op.req.sid, op.req.epoch>>
Session == sessions[op.req.sid]

watch_session(deadline) ==
    Append(watched, [sid |-> op.req.sid, name |-> Name, deadline |-> deadline])

start_succeeds ==
    LET end == IF op.deadline < now + MaxTtl THEN op.deadline ELSE now + MaxTtl
        s == [Session EXCEPT !.started = TRUE, !.state = "running", !.deadline = end]
    IN  /\ box' = Run(Name)
        /\ sessions' = [sessions EXCEPT ![op.req.sid] = s]
        /\ watched' = watch_session(end)
        /\ Finish(op.req, op.deadline, project(s))
        /\ UNCHANGED dockerFaults

\* A name in use, the deadline, a failing command: the container may exist.
start_fails ==
    /\ \/ box[Name].st # "none" /\ UNCHANGED <<box, dockerFaults>>
       \/ box[Name].st = "none" /\ now >= op.deadline /\ box' \in {box, Run(Name)}
          /\ UNCHANGED dockerFaults
       \/ box[Name].st = "none" /\ Fault /\ box' \in {box, Run(Name)}
    /\ op' = [op EXCEPT !.step = "aborted"]
    /\ UNCHANGED <<sessions, watched, mode, since, replays, answers>>

docker_run ==
    /\ op.step = "run"
    /\ \/ box[Name].st = "none" /\ now < op.deadline /\ start_succeeds
       \/ start_fails
    /\ UNCHANGED <<now, tombs, expired, wstep, stages, left, exits, sent>>

docker_logs ==
    /\ op.step = "logs"
    /\ \/ /\ \/ box[Name].st = "none" /\ UNCHANGED dockerFaults
             \/ now >= op.deadline /\ UNCHANGED dockerFaults
             \/ Fault
          /\ Finish(op.req, op.deadline, err("docker_failure")) /\ UNCHANGED sessions
       \/ /\ box[Name].st # "none" /\ box[Name].out <= OutputCap
          /\ LET s == [Session EXCEPT !.out = box[Name].out]
             IN  /\ sessions' = [sessions EXCEPT ![op.req.sid] = s]
                 /\ Finish(op.req, op.deadline, project_read(s, op.req))
          /\ UNCHANGED dockerFaults
       \/ /\ box[Name].st # "none" /\ box[Name].out > OutputCap
          /\ op' = [op EXCEPT !.step = "output_limited"]
          /\ UNCHANGED <<sessions, mode, since, replays, answers, dockerFaults>>
    /\ UNCHANGED <<now, tombs, watched, expired, wstep, box, stages, left, exits, sent>>

\* Mutant: the status of a failing command is parsed as an exit with 0.
inspected_unchecked ==
    IF box[Name].st = "none" THEN 0 ELSE box[Name].code
inspected == box[Name].code

docker_inspect ==
    /\ op.step = "inspect"
    /\ \/ /\ \/ box[Name].st = "none" /\ inspected = NoCode /\ UNCHANGED dockerFaults
             \/ now >= op.deadline /\ UNCHANGED dockerFaults
             \/ Fault
          /\ Finish(op.req, op.deadline, err("docker_failure")) /\ UNCHANGED sessions
       \/ /\ box[Name].st = "running" /\ UNCHANGED <<sessions, dockerFaults>>
          /\ Finish(op.req, op.deadline, project(Session))
       \/ /\ inspected # NoCode
          /\ sessions' = [sessions EXCEPT ![op.req.sid].exit = inspected,
                                          ![op.req.sid].state = "finished"]
          /\ op' = [op EXCEPT !.step = "finished"]
          /\ UNCHANGED <<mode, since, replays, answers, dockerFaults>>
    /\ UNCHANGED <<now, tombs, watched, expired, wstep, box, stages, left, exits, sent>>

\* What an operation does once its container is cleaned up.
Cleaned ==
    LET after == [Session EXCEPT !.started = FALSE,
                                 !.state = IF op.step = "aborted" THEN @ ELSE op.step]
    IN  /\ IF op.step = "cleaned"
           THEN /\ sessions' = Without(sessions, op.req.sid)
                /\ stages' = stages \ {Name}
                /\ tombs' = add_tombstone(after, op.req.sid, "cleaned")
           ELSE /\ sessions' = [sessions EXCEPT ![op.req.sid] = after]
                /\ UNCHANGED <<stages, tombs>>
        /\ Finish(op.req, op.deadline,
                  CASE op.step = "aborted" -> err("docker_failure")
                    [] op.step = "output_limited" -> err("output_limit")
                    [] OTHER -> project(after))

cleanup_container ==
    /\ op.step \in {"aborted", "output_limited", "timed_out", "finished", "stopped", "cleaned"}
    /\ watched' = unwatch_session(Name)
    /\ cleanup_container_name(Name)
    /\ Cleaned
    /\ UNCHANGED <<now, expired, wstep, exits, sent>>

-----------------------------------------------------------------------------
(* The end of the process.                                                 *)

\* One session of disconnect_cleanup's loop.
disconnect_cleanup ==
    /\ mode = "closing"
    /\ \E sid \in DOMAIN sessions :
          /\ IF Untouched(sessions[sid]) THEN UNCHANGED <<watched, box, left, dockerFaults>>
             ELSE /\ watched' = unwatch_session(NameOf(sid))
                  /\ cleanup_container_name(NameOf(sid))
          /\ stages' = stages \ {NameOf(sid)}
          /\ tombs' = add_tombstone(sessions[sid], sid, "disconnected")
          /\ sessions' = Without(sessions, sid)
    /\ UNCHANGED <<mode, now, since, op, replays, expired, wstep, exits, answers, sent>>

Forget ==
    /\ mode' = "down" /\ op' = NoOp /\ sessions' = <<>> /\ tombs' = <<>>
    /\ replays' = <<>> /\ watched' = <<>> /\ expired' = <<>> /\ wstep' = "scan"
    /\ answers' = {} /\ since' = now

\* The destructor joins the watchdog, which finishes the records it took.
exit ==
    /\ mode = "closing" /\ sessions = <<>> /\ expired = <<>> /\ Forget
    /\ UNCHANGED <<now, box, stages, left, exits, sent, dockerFaults>>

\* The process is killed; a docker command under way may still take effect.
Crash ==
    /\ mode # "down" /\ Fault /\ Forget
    /\ box' \in {box} \cup (IF op.step = "run" /\ box[Name].st = "none" THEN {Run(Name)} ELSE {})
    /\ UNCHANGED <<now, stages, left, exits, sent>>

Labelled == {n \in Names : box[n].st # "none"}

\* docker kill fails for a container that has exited: it is removed, but the
\* process does not start this time.
reconcile_startup_refused ==
    /\ mode = "down" /\ sent < MaxSent
    /\ \E n \in Labelled, S \in SUBSET {x \in Labelled : box[x].st = "running"} :
          /\ box[n].st = "exited"
          /\ box' = [x \in Names |-> IF x = n \/ x \in S THEN NoBox ELSE box[x]]
          /\ left' = left \ (S \cup {n})
    /\ UNCHANGED <<mode, now, since, op, sessions, tombs, replays, watched, expired, wstep,
                   stages, exits, answers, sent, dockerFaults>>

\* Mutant: the stale staging directories stay.
reconcile_staging_kept == UNCHANGED stages
reconcile_staging == Cardinality(stages) <= 2 * MaxSessions /\ stages' = {}

reconcile_startup ==
    /\ mode = "down" /\ sent < MaxSent
    /\ Cardinality(Labelled) <= 2 * MaxSessions
    /\ \A n \in Labelled : box[n].st = "running"
    /\ box' = [n \in Names |-> NoBox] /\ left' = {} /\ exits' = {}
    /\ reconcile_staging
    /\ mode' = "serving" /\ since' = now
    /\ UNCHANGED <<now, op, sessions, tombs, replays, watched, expired, wstep, answers,
                   sent, dockerFaults>>

-----------------------------------------------------------------------------
(* The watchdog thread.                                                    *)

watchdog_scan ==
    LET over == {r \in Range(watched) : now >= r.deadline}
    IN  /\ mode # "down" /\ expired = <<>> /\ over # {}
        /\ expired' = Those(watched, over)
        /\ watched' = Those(watched, Range(watched) \ over)
        /\ wstep' = "stop"
        /\ UNCHANGED <<mode, now, since, op, sessions, tombs, replays, box, stages, left,
                       exits, answers, sent, dockerFaults>>

watchdog_stop ==
    /\ expired # <<>> /\ wstep = "stop"
    /\ LET n == Head(expired).name
       IN  \/ box[n].st # "running" /\ UNCHANGED <<box, exits, dockerFaults>>
           \/ box[n].st = "running" /\ Fault /\ UNCHANGED <<box, exits>>
           \/ /\ \E code \in StopCodes : Stops(n, code) /\ exits' = exits \cup {<<n, code>>}
              /\ UNCHANGED dockerFaults
    /\ wstep' = "rm"
    /\ UNCHANGED <<mode, now, since, op, sessions, tombs, replays, watched, expired, stages,
                   left, answers, sent>>

watchdog_rm ==
    /\ expired # <<>> /\ wstep = "rm"
    /\ \/ /\ box' = Removed(Head(expired).name)
          /\ left' = left \ {Head(expired).name} /\ UNCHANGED dockerFaults
       \/ /\ box[Head(expired).name].st # "none" /\ Fault
          /\ left' = left \cup {Head(expired).name} /\ UNCHANGED box
    /\ wstep' = "mark"
    /\ UNCHANGED <<mode, now, since, op, sessions, tombs, replays, watched, expired, stages,
                   exits, answers, sent>>

\* mutex_ is held from dispatch to the answer and by all of disconnect_cleanup.
watchdog_mark ==
    LET r == Head(expired)
        hit == /\ r.sid \in DOMAIN sessions /\ sessions[r.sid].state = "running"
               /\ NameOf(r.sid) = r.name
    IN  /\ expired # <<>> /\ wstep = "mark"
        /\ op = NoOp /\ (mode = "closing" => sessions = <<>>)
        /\ sessions' = IF hit THEN [sessions EXCEPT ![r.sid].state = "timed_out",
                                                    ![r.sid].started = FALSE]
                       ELSE sessions
        /\ expired' = Tail(expired)
        /\ wstep' = IF Len(expired) = 1 THEN "scan" ELSE "stop"
        /\ UNCHANGED <<mode, now, since, op, tombs, replays, watched, box, stages, left,
                       exits, answers, sent, dockerFaults>>

-----------------------------------------------------------------------------
(* The containers and the clock.                                           *)

ContainerWrites ==
    /\ \E n \in Names : /\ box[n].st = "running" /\ box[n].out < MaxWrites
                        /\ box' = [box EXCEPT ![n].out = @ + 1]
    /\ UNCHANGED <<mode, now, since, op, sessions, tombs, replays, watched, expired, wstep,
                   stages, left, exits, answers, sent, dockerFaults>>

ContainerExits ==
    /\ \E n \in Names, code \in {0, 1} :
          /\ box[n].st = "running"
          /\ box' = [box EXCEPT ![n] = Ended(@, code)]
          /\ exits' = exits \cup {<<n, code>>}
    /\ UNCHANGED <<mode, now, since, op, sessions, tombs, replays, watched, expired, wstep,
                   stages, left, answers, sent, dockerFaults>>

Tick ==
    /\ now < MaxTime /\ now' = now + 1
    /\ UNCHANGED <<mode, since, op, sessions, tombs, replays, watched, expired, wstep, box,
                   stages, left, exits, answers, sent, dockerFaults>>

Main == docker_run \/ docker_logs \/ docker_inspect \/ cleanup_container
        \/ disconnect_cleanup \/ exit
Watchdog == watchdog_scan \/ watchdog_stop \/ watchdog_rm \/ watchdog_mark

RemoteNext ==
    \/ \E r \in Requests : handle(r)
    \/ HangUp
    \/ docker_run \/ docker_logs \/ docker_inspect \/ cleanup_container
    \/ disconnect_cleanup \/ exit
    \/ Crash \/ reconcile_startup \/ reconcile_startup_refused
    \/ watchdog_scan \/ watchdog_stop \/ watchdog_rm \/ watchdog_mark
    \/ ContainerWrites \/ ContainerExits \/ Tick

RemoteSpec == RemoteInit /\ [][RemoteNext]_remoteVars

\* Both threads keep running, docker commands return by their deadlines and
\* time passes; clients, containers, crashes and restarts owe nothing.
RemoteFairSpec ==
    RemoteSpec /\ WF_remoteVars(Main) /\ WF_remoteVars(Watchdog) /\ WF_remoteVars(Tick)

-----------------------------------------------------------------------------
(* Properties.                                                             *)

\* While the process serves, every staging directory is the one of a known
\* session, and every container belongs to a started session and runs under a
\* watchdog record or one the watchdog has taken, unless docker itself failed
\* to remove it: whatever was interrupted before, by whichever thread.
RemainsAreOwned ==
    mode = "serving" /\ op = NoOp =>
        /\ stages = {NameOf(sid) : sid \in DOMAIN sessions}
        /\ \A n \in Names \ left : box[n].st # "none" =>
              /\ \E sid \in DOMAIN sessions : NameOf(sid) = n /\ ~Untouched(sessions[sid])
              /\ box[n].st = "running" =>
                    \E r \in Range(watched) \cup Range(expired) : r.name = n

\* A request that is sent again with its idempotency key gets the result it
\* got the first time, as long as the process lives: what happened to the
\* session in between, here or in the watchdog, does not show.
AnswersAreRepeatable ==
    \A a, b \in answers : a.key = b.key /\ a.digest = b.digest => a.result = b.result

\* A validation reported as finished did end with the code reported, by itself
\* or because the watchdog stopped it: never because this client's own stop,
\* cleanup or disconnection ended it, and never with the code of a command
\* that failed.  The watchdog's ends cannot be left out: it stops containers
\* without mutex_, and a wait that looked at the clock before the lifetime
\* ended and inspects after the stop reports the container the watchdog
\* stopped as finished, with the code its program gave to SIGTERM.
FinishedIsTrue ==
    \A a \in answers :
        a.result.state = "finished" => <<a.name, a.result.exit>> \in exits

\* Both: an answer is the truth, and is given again.
AnswersAreTrue == RemoteTypeOK /\ AnswersAreRepeatable /\ FinishedIsTrue

\* The configured lifetime is enforced: unless docker fails or the process is
\* killed, a container does not run forever, whatever the client does.
ContainersEnded == dockerFaults > 0 \/ \A n \in Names : box[n].st # "running"
ContainerEnds == []<>ContainersEnded
=============================================================================
