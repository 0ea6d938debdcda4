---------------------------- MODULE ManagedSession ----------------------------
(***************************************************************************)
(* One managed Linux session between its preparation and its receipt:      *)
(* src/src/control/linux_session_preparation.cpp acquires its resources,   *)
(* container/linux/linux_resource_lifecycle.cpp owns them together with    *)
(* the wall clock and output monitor (container/resource_monitor.cpp) and  *)
(* the cgroup (container/linux/cgroup_v2.cpp), pty_session_channel.cpp     *)
(* drains the guest's terminal, and the managed_pty_session of             *)
(* clone_spawner.cpp waits for the guest and publishes the receipt.        *)
(*                                                                         *)
(* Threads: the watchdog, the poller, the terminal's drainer, the waiter   *)
(* and callers of stop.  `pc' names the step each is about to take.  A     *)
(* mutex held over one step is that step's atomicity; the ones held over   *)
(* several (the session's state_mutex, the lifecycle's finish_mutex, the   *)
(* monitor's state_mutex during its callback) are variables.  The guest    *)
(* writes the bytes 1, 2, 3, ... so that a byte tells its position.  What  *)
(* the launch does inside the child is SandboxLaunch's subject.            *)
(***************************************************************************)
EXTENDS Integers, Sequences, FiniteSets, SequencesExt, FiniteSetsExt

CONSTANTS
    Stoppers,     \* threads that call managed_pty_session::stop, once each
    OutputLimit,  \* limits.terminal_output_bytes
    RingBytes,    \* options.transcript_bytes
    ReadChunk,    \* read_chunk_bytes
    Writes,       \* bound: the sizes of a guest's writes
    Hits,         \* bound: the cgroup limits a guest may hit
    MaxBytes,     \* bound: bytes the guest writes
    MaxFaults     \* bound: system calls that fail

ASSUME ManagedAssumption ==
    /\ RingBytes \in Nat \ {0} /\ OutputLimit \in Nat \ {0} /\ ReadChunk \in Nat \ {0}
    /\ MaxBytes \in Nat /\ MaxFaults \in Nat
    /\ Writes \subseteq Nat \ {0}
    /\ Hits \subseteq {"memory", "pids", "cpu"}
    /\ Stoppers \cap {"watchdog", "poller", "drainer", "waiter", "none"} = {}

VARIABLES
    stage,    \* the session's owner: a step of prepare or launch, "serving", "gone"
    held,     \* resources acquired and not released
    guest,    \* [st, grouped]: the child process
    cg,       \* [open, killed, hit]: the session's cgroup
    quotaHit, \* the filesystem quota was hit
    life,     \* the fields of linux_resource_lifecycle
    mon,      \* the fields of wall_output_monitor
    pty,      \* [produced, open]: the guest's side of the terminal
    ch,       \* the fields of pty_session_channel, and the chunk in hand
    sess,     \* [lock, finished, receipt]: managed_pty_session::implementation
    pc, ret,  \* per thread: its next step, and where it returns from a kill
    acked,    \* a stop was answered with success
    faults

managedVars == <<stage, held, guest, cg, quotaHit, life, mon, pty, ch, sess, pc, ret, acked, faults>>

Nothing == "none"
Threads == {"watchdog", "poller", "drainer", "waiter"} \cup Stoppers
Alive == guest.st \in {"held", "running"}
EmptyRing == [buf |-> [i \in 0 .. RingBytes - 1 |-> 0], head |-> 0, size |-> 0,
              oldest |-> 0, next |-> 0]
NoReceipt == [cause |-> Nothing, bytes |-> 0, complete |-> FALSE]
Fails == faults > 0 /\ faults' = faults - 1
At(t, label) == pc[t] = label
Goto(t, label) == pc' = [pc EXCEPT ![t] = label]

ManagedInit ==
    /\ stage = "inputs" /\ held = {} /\ quotaHit = FALSE /\ acked = FALSE
    /\ guest = [st |-> Nothing, grouped |-> FALSE]
    /\ cg = [open |-> FALSE, killed |-> FALSE, hit |-> {}]
    /\ life = [attached |-> FALSE, started |-> FALSE, pollStop |-> FALSE,
               finishing |-> FALSE, terminal |-> Nothing]
    /\ mon = [forced |-> Nothing, finished |-> FALSE, bytes |-> 0, failed |-> FALSE, lock |-> Nothing]
    /\ pty = [produced |-> 0, open |-> FALSE]
    /\ ch = [chunk |-> 0, within |-> TRUE, ring |-> EmptyRing, hashed |-> 0,
             eof |-> FALSE, err |-> Nothing, done |-> FALSE]
    /\ sess = [lock |-> Nothing, finished |-> FALSE, receipt |-> NoReceipt, waits |-> TRUE]
    /\ pc = [t \in Threads |-> IF t \in Stoppers THEN "idle" ELSE "none"]
    /\ ret = [t \in Threads |-> "none"]
    /\ faults = MaxFaults

-----------------------------------------------------------------------------
(* Preparation and launch.                                                 *)

PrepareSteps == <<"inputs", "services", "egress", "refinement", "filesystem", "cgroup",
                  "lifecycle", "lease", "streams", "bind", "clone">>
LaunchSteps == <<"clone", "attach", "channel", "release", "waiter", "serving">>
After(steps, s) == steps[1 + CHOOSE i \in 1 .. Len(steps) - 1 : steps[i] = s]
Preparing == stage \in Range(PrepareSteps) \ {"clone"}

GuestUnchanged == UNCHANGED <<guest, quotaHit, pty>>
ChannelUnchanged == UNCHANGED <<ch, sess, acked>>

\* validate_inputs, the profile, the evaluator and the binding acquire nothing.
prepare ==
    /\ Preparing
    /\ stage' = After(PrepareSteps, stage)
    /\ held' = held \cup ({stage} \cap {"services", "egress", "filesystem", "cgroup",
                                        "lifecycle", "lease"})
    /\ cg' = IF stage = "cgroup" THEN [cg EXCEPT !.open = TRUE] ELSE cg
    /\ pc' = IF stage # "lifecycle" THEN pc
             ELSE [pc EXCEPT !["watchdog"] = "wait", !["poller"] = "poll"]
    /\ GuestUnchanged /\ ChannelUnchanged /\ UNCHANGED <<life, mon, ret, faults>>

\* The owners go out of scope: ~linux_resource_lifecycle stops the poller and
\* the monitor, cleans up and releases the leases, whatever fails.
Destroy ==
    /\ mon.lock = Nothing
    /\ stage' = "gone" /\ held' = {}
    /\ cg' = [cg EXCEPT !.open = FALSE]
    /\ life' = [life EXCEPT !.pollStop = TRUE]
    /\ mon' = [mon EXCEPT !.finished = TRUE]
    /\ pc' = [t \in Threads |-> IF t \in Stoppers THEN pc[t] ELSE "done"]

prepare_fails ==
    /\ Preparing /\ Fails
    /\ Destroy
    /\ GuestUnchanged /\ ChannelUnchanged /\ UNCHANGED ret

\* clone3 with CLONE_INTO_CGROUP, or without where the namespace forbids it.
clone ==
    /\ stage = "clone" /\ stage' = "attach"
    /\ \E direct \in BOOLEAN : guest' = [st |-> "held", grouped |-> direct]
    /\ pty' = [pty EXCEPT !.open = TRUE]
    /\ ChannelUnchanged /\ UNCHANGED <<held, cg, quotaHit, life, mon, pc, ret, faults>>

\* Mutant: no look at termination_started_.
attach_unchecked ==
    /\ stage = "attach"
    /\ stage' = "channel"
    /\ life' = [life EXCEPT !.attached = TRUE]
    /\ guest' = [guest EXCEPT !.grouped = TRUE]
    /\ UNCHANGED <<quotaHit, pty>>
    /\ ChannelUnchanged /\ UNCHANGED <<held, cg, mon, pc, ret, faults>>

attach ==
    /\ stage = "attach" /\ ~life.started
    /\ stage' = "channel"
    /\ life' = [life EXCEPT !.attached = TRUE]
    /\ guest' = [guest EXCEPT !.grouped = TRUE]
    /\ UNCHANGED <<quotaHit, pty>>
    /\ ChannelUnchanged /\ UNCHANGED <<held, cg, mon, pc, ret, faults>>

create_channel ==
    /\ stage = "channel" /\ stage' = "release"
    /\ Goto("drainer", "poll")
    /\ GuestUnchanged /\ ChannelUnchanged /\ UNCHANGED <<held, cg, life, mon, ret, faults>>

\* The child-release gate and the byte on the sync pipe; a guest killed before
\* is found dead by the waiter.
release ==
    /\ stage = "release" /\ stage' = "waiter"
    /\ guest' = [guest EXCEPT !.st = IF @ = "held" THEN "running" ELSE @]
    /\ UNCHANGED <<quotaHit, pty>>
    /\ ChannelUnchanged /\ UNCHANGED <<held, cg, life, mon, pc, ret, faults>>

\* A failed start of the waiter thread: the caller stops the guest and walks
\* the waiter's steps itself; its result is an error in any case.
start_waiter ==
    /\ stage = "waiter" /\ stage' = "serving"
    /\ \/ Goto("waiter", "wait") /\ UNCHANGED <<sess, faults>>
       \/ /\ Fails
          /\ Goto("waiter", "stop")
          /\ sess' = [sess EXCEPT !.waits = FALSE]
    /\ GuestUnchanged /\ UNCHANGED <<held, cg, life, mon, ch, ret, acked>>

\* fail: the child is killed and reaped, the terminal and the lifecycle end.
launch_fails ==
    /\ stage \in {"clone", "attach", "channel", "release"}
    /\ Fails \/ (stage = "attach" /\ life.started /\ UNCHANGED faults)
    /\ pc["drainer"] # "kill"
    /\ Destroy
    /\ guest' = [guest EXCEPT !.st = IF @ = "held" THEN "signaled" ELSE @]
    /\ sess' = [sess EXCEPT !.finished = TRUE]
    /\ pty' = [pty EXCEPT !.open = FALSE]
    /\ UNCHANGED <<quotaHit, ch, acked, ret>>

-----------------------------------------------------------------------------
(* The monitor and the cgroup.                                             *)

kill_all(g) == [g EXCEPT !.st = IF g.grouped /\ Alive THEN "signaled" ELSE @]

\* The cause is taken and kill_cgroup's flag set; the kill follows under the
\* same state_mutex of the monitor.
request_termination_locked(t, cause, next, m) ==
    IF m.finished \/ m.forced # Nothing
    THEN /\ mon' = m /\ Goto(t, next) /\ UNCHANGED <<life, ret>>
    ELSE /\ mon' = [m EXCEPT !.forced = cause, !.lock = t]
         /\ life' = [life EXCEPT !.started = TRUE]
         /\ pc' = [pc EXCEPT ![t] = "kill"]
         /\ ret' = [ret EXCEPT ![t] = next]

request_termination(t, cause, next) ==
    mon.lock = Nothing /\ request_termination_locked(t, cause, next, mon)

\* The callback; when it throws, the cause becomes supervisor_error.
kill_cgroup(t) ==
    /\ At(t, "kill")
    /\ \/ /\ cg.open
          /\ guest' = kill_all(guest) /\ cg' = [cg EXCEPT !.killed = TRUE]
          /\ mon' = [mon EXCEPT !.lock = Nothing]
          /\ UNCHANGED faults
       \/ /\ (~cg.open /\ UNCHANGED faults) \/ Fails
          /\ mon' = [mon EXCEPT !.lock = Nothing, !.forced = "supervisor_error", !.failed = TRUE]
          /\ UNCHANGED <<guest, cg>>
    /\ Goto(t, ret[t])
    /\ ChannelUnchanged /\ UNCHANGED <<stage, held, quotaHit, life, pty, ret>>

\* Mutant: a spurious wakeup counts as the end of the session.
watchdog_loop_unpredicated ==
    /\ At("watchdog", "wait")
    /\ \/ request_termination("watchdog", "wall_time_limit", "done")
       \/ mon.lock = Nothing /\ Goto("watchdog", "done") /\ UNCHANGED <<life, mon, ret>>
    /\ GuestUnchanged /\ ChannelUnchanged /\ UNCHANGED <<stage, held, cg, faults>>

\* The deadline passes, or the watchdog is woken by the end of the session.
watchdog_loop ==
    /\ At("watchdog", "wait")
    /\ \/ request_termination("watchdog", "wall_time_limit", "done")
       \/ /\ mon.lock = Nothing /\ (mon.finished \/ mon.forced # Nothing)
          /\ Goto("watchdog", "done") /\ UNCHANGED <<life, mon, ret>>
    /\ GuestUnchanged /\ ChannelUnchanged /\ UNCHANGED <<stage, held, cg, faults>>

triggered_limit ==
    CASE "memory" \in cg.hit -> "memory_limit"
      [] "pids" \in cg.hit -> "pid_limit"
      [] "cpu" \in cg.hit -> "cpu_time_limit"
      [] OTHER -> Nothing

\* One round of the poller: the cgroup is read, and then, unlocked, the
\* monitor asked to terminate; then the filesystem; then the monitor.
poll_cgroup ==
    /\ At("poller", "poll")
    /\ \/ life.pollStop /\ Goto("poller", "done") /\ UNCHANGED faults
       \/ ~life.pollStop /\ Fails /\ Goto("poller", "supervisor_error")
       \/ ~life.pollStop /\ UNCHANGED faults /\ triggered_limit # Nothing
             /\ Goto("poller", triggered_limit)
       \/ ~life.pollStop /\ UNCHANGED faults /\ triggered_limit = Nothing /\ Goto("poller", "disk")
    /\ GuestUnchanged /\ ChannelUnchanged /\ UNCHANGED <<stage, held, cg, life, mon, ret>>

poll_filesystem ==
    /\ At("poller", "disk")
    /\ \/ Fails /\ Goto("poller", "supervisor_error")
       \/ quotaHit /\ Goto("poller", "disk_limit") /\ UNCHANGED faults
       \/ ~quotaHit /\ mon.lock = Nothing /\ UNCHANGED faults
             /\ Goto("poller", IF mon.forced # Nothing THEN "done" ELSE "poll")
    /\ GuestUnchanged /\ ChannelUnchanged /\ UNCHANGED <<stage, held, cg, life, mon, ret>>

PollCauses == {"supervisor_error", "memory_limit", "pid_limit", "cpu_time_limit", "disk_limit"}
poll_terminate ==
    /\ pc["poller"] \in PollCauses
    /\ request_termination("poller", pc["poller"], "done")
    /\ GuestUnchanged /\ ChannelUnchanged /\ UNCHANGED <<stage, held, cg, faults>>

-----------------------------------------------------------------------------
(* The terminal.                                                           *)

Taken == ch.hashed + ch.chunk  \* bytes the drainer has read

\* One byte enters the ring, over the oldest one when it is full.
PushByte(ring, byte) ==
    LET full == ring.size = RingBytes
        head == IF full THEN (ring.head + 1) % RingBytes ELSE ring.head
        size == IF full THEN ring.size - 1 ELSE ring.size
    IN  [buf |-> [ring.buf EXCEPT ![(head + size) % RingBytes] = byte],
         head |-> head, size |-> size + 1,
         oldest |-> IF full THEN ring.oldest + 1 ELSE ring.oldest,
         next |-> ring.next + 1]

\* The n bytes that follow the first `seen' ones enter one by one.
append_output(ring, seen, n) ==
    LET pushed[i \in 0 .. n] ==
            IF i = 0 THEN ring ELSE PushByte(pushed[i - 1], seen + i)
    IN  pushed[n]

set_error(c, error) == [c EXCEPT !.err = IF @ = Nothing THEN error ELSE @]

\* poll and read: bytes, the hangup after the last byte, or an error.
drain_loop ==
    /\ At("drainer", "poll")
    /\ \/ /\ pty.produced > Taken
          /\ \E n \in 1 .. ReadChunk :
                n <= pty.produced - Taken /\ ch' = [ch EXCEPT !.chunk = n]
          /\ Goto("drainer", "consume") /\ UNCHANGED faults
       \/ /\ pty.produced = Taken /\ ~pty.open
          /\ ch' = [ch EXCEPT !.eof = TRUE]
          /\ Goto("drainer", "exit") /\ UNCHANGED faults
       \/ /\ Fails
          /\ ch' = set_error(ch, "read_failed")
          /\ Goto("drainer", "ask")
    /\ GuestUnchanged /\ UNCHANGED <<stage, held, cg, life, mon, sess, ret, acked>>

\* The refinement evaluator sees the bytes first; a refusal ends the session.
consume ==
    /\ At("drainer", "consume")
    /\ \/ Goto("drainer", "account") /\ UNCHANGED <<ch, faults>>
       \/ Fails /\ Goto("drainer", "ask") /\ UNCHANGED ch
    /\ GuestUnchanged /\ UNCHANGED <<stage, held, cg, life, mon, sess, ret, acked>>

\* request_termination(supervisor_error) of a failed drainer.
drainer_asks ==
    /\ At("drainer", "ask")
    /\ request_termination("drainer", "supervisor_error", "worker_failure")
    /\ GuestUnchanged /\ ChannelUnchanged /\ UNCHANGED <<stage, held, cg, faults>>

worker_failure ==
    /\ At("drainer", "worker_failure")
    /\ ch' = set_error(ch, "worker_failure") /\ Goto("drainer", "exit")
    /\ GuestUnchanged
    /\ UNCHANGED <<stage, held, cg, life, mon, sess, ret, acked, faults>>

\* What account_terminal_output returns is decided when it returns, after the
\* callback of a termination it requested itself.
account_terminal_output ==
    /\ At("drainer", "account") /\ mon.lock = Nothing
    /\ IF mon.finished
       THEN Goto("drainer", "store") /\ UNCHANGED <<mon, life, ret>>
       ELSE LET m == [mon EXCEPT !.bytes = @ + ch.chunk]
            IN  IF m.forced = Nothing /\ m.bytes > OutputLimit
                THEN request_termination_locked("drainer", "terminal_output_limit", "store", m)
                ELSE mon' = m /\ Goto("drainer", "store") /\ UNCHANGED <<life, ret>>
    /\ ch' = [ch EXCEPT !.within = ~mon.finished /\ mon.forced = Nothing
                                   /\ mon.bytes + ch.chunk <= OutputLimit]
    /\ GuestUnchanged /\ UNCHANGED <<stage, held, cg, sess, acked, faults>>

\* The rest of append_output: hash, limit, ring.
store_output ==
    /\ At("drainer", "store")
    /\ \/ /\ LET c == IF ch.within
                      THEN [ch EXCEPT !.ring = append_output(@, ch.hashed, ch.chunk)]
                      ELSE set_error(ch, "output_limit")
             IN  ch' = [c EXCEPT !.hashed = @ + ch.chunk, !.chunk = 0]
          /\ Goto("drainer", IF ch.within THEN "poll" ELSE "exit") /\ UNCHANGED faults
       \/ Fails /\ ch' = set_error(ch, "transcript_digest") /\ Goto("drainer", "ask")
    /\ GuestUnchanged /\ UNCHANGED <<stage, held, cg, life, mon, sess, ret, acked>>

worker_exit ==
    /\ At("drainer", "exit")
    /\ ch' = [ch EXCEPT !.done = TRUE] /\ Goto("drainer", "done")
    /\ GuestUnchanged /\ UNCHANGED <<stage, held, cg, life, mon, sess, ret, acked, faults>>

\* What read returns for a cursor; an error when it lies ahead or the channel
\* has failed.
read_locked(cursor, max) ==
    LET ring == ch.ring
        from == Max({cursor, ring.oldest})
        count == Min({ring.next - from, max})
    IN  [ok |-> cursor <= ring.next /\ ch.err = Nothing,
         next |-> from + count,
         truncated |-> cursor < ring.oldest,
         eof |-> ch.eof /\ from + count = ring.next,
         bytes |-> [i \in 1 .. count |->
                      ring.buf[(ring.head + from - ring.oldest + i - 1) % RingBytes]]]

transcript_complete == ch.eof /\ ch.done /\ ch.err = Nothing

\* signal reaches the foreground group; resize and input leave no trace here.
signal ==
    /\ stage = "serving" /\ guest.st = "running" /\ ~ch.eof /\ ch.err = Nothing
    /\ guest' = [guest EXCEPT !.st = "signaled"]
    /\ ChannelUnchanged /\ UNCHANGED <<stage, held, cg, quotaHit, life, mon, pty, pc, ret, faults>>

-----------------------------------------------------------------------------
(* The waiter: wait_for_terminal and linux_resource_lifecycle::finish.     *)

\* request_stop, under finish_mutex and cgroup_mutex.
request_stop_outcome ==
    \/ /\ life.terminal # Nothing \/ life.started
       /\ acked' = TRUE /\ UNCHANGED <<guest, cg, life, faults>>
    \/ /\ life.terminal = Nothing /\ ~life.started /\ cg.open
       /\ guest' = kill_all(guest) /\ cg' = [cg EXCEPT !.killed = TRUE]
       /\ life' = [life EXCEPT !.started = TRUE]
       /\ acked' = TRUE /\ UNCHANGED faults
    \/ /\ life.terminal = Nothing /\ ~life.started
       /\ Fails \/ (~cg.open /\ UNCHANGED faults)
       /\ UNCHANGED <<guest, cg, life, acked>>

stop_unwaited ==
    /\ At("waiter", "stop")
    /\ request_stop_outcome
    /\ Goto("waiter", "wait")
    /\ UNCHANGED <<stage, held, quotaHit, mon, pty, ch, sess, ret>>

WaiterUnchanged == UNCHANGED <<stage, guest, quotaHit, pty, ch, acked, ret>>

\* waitpid returns, then state_mutex is taken.
wait_for_child ==
    /\ At("waiter", "wait") /\ guest.st \in {"exited", "signaled"} /\ sess.lock = Nothing
    /\ sess' = [sess EXCEPT !.lock = "waiter"]
    /\ Goto("waiter", "drain")
    /\ WaiterUnchanged /\ UNCHANGED <<held, cg, life, mon, faults>>

finish_draining ==
    /\ At("waiter", "drain") /\ At("drainer", "done")
    /\ IF ch.err \in {Nothing, "output_limit"}
       THEN Goto("waiter", "finish") /\ UNCHANGED <<life, mon, ret>>
       ELSE request_termination("waiter", "supervisor_error", "finish")
    /\ UNCHANGED <<stage, guest, quotaHit, pty, ch, acked, sess, held, cg, faults>>

\* finish_mutex is taken and the poller told; a clock behind started_at_ms is
\* refused.
stop_poller ==
    /\ At("waiter", "finish") /\ ~life.finishing
    /\ \/ /\ life' = [life EXCEPT !.finishing = TRUE, !.pollStop = TRUE]
          /\ Goto("waiter", "monitor") /\ UNCHANGED faults
       \/ /\ Fails /\ Goto("waiter", "error") /\ UNCHANGED life
    /\ WaiterUnchanged /\ UNCHANGED <<held, cg, mon, sess>>

\* Mutant: the monitor stays open after the snapshot.
monitor_finish_forgotten ==
    /\ At("waiter", "monitor") /\ At("poller", "done") /\ mon.lock = Nothing
    /\ UNCHANGED mon
    /\ Goto("waiter", "observe")
    /\ WaiterUnchanged /\ UNCHANGED <<held, cg, life, sess, faults>>

\* The poller is joined; then the monitor finishes and the watchdog is joined.
monitor_finish ==
    /\ At("waiter", "monitor") /\ At("poller", "done") /\ mon.lock = Nothing
    /\ mon' = [mon EXCEPT !.finished = TRUE]
    /\ Goto("waiter", "watchdog")
    /\ WaiterUnchanged /\ UNCHANGED <<held, cg, life, sess, faults>>

join_watchdog ==
    /\ At("waiter", "watchdog") /\ At("watchdog", "done")
    /\ Goto("waiter", "observe")
    /\ WaiterUnchanged /\ UNCHANGED <<held, cg, life, mon, sess, faults>>

terminal_cause ==
    CASE mon.forced # Nothing -> mon.forced
      [] mon.forced = Nothing /\ triggered_limit # Nothing -> triggered_limit
      [] mon.forced = Nothing /\ triggered_limit = Nothing /\ quotaHit -> "disk_limit"
      [] OTHER -> guest.st

\* The observations, the retained changes and the cause; each may fail.
observe ==
    /\ At("waiter", "observe")
    /\ \/ /\ life' = [life EXCEPT !.terminal = terminal_cause]
          /\ Goto("waiter", "cleanup") /\ UNCHANGED faults
       \/ /\ Fails /\ Goto("waiter", "error") /\ life' = [life EXCEPT !.finishing = FALSE]
    /\ WaiterUnchanged /\ UNCHANGED <<held, cg, mon, sess>>

\* The cgroup, the filesystem, and only then the leases.
cleanup_resources ==
    /\ At("waiter", "cleanup")
    /\ \/ /\ cg' = [cg EXCEPT !.open = FALSE]
          /\ held' = held \ {"cgroup", "filesystem", "lease"}
          /\ Goto("waiter", "publish") /\ UNCHANGED faults
       \/ /\ Fails
          /\ \/ held' = held \ {"filesystem"} /\ UNCHANGED cg
             \/ held' = held \ {"cgroup"} /\ cg' = [cg EXCEPT !.open = FALSE]
          /\ Goto("waiter", "error")
    /\ life' = [life EXCEPT !.finishing = FALSE]
    /\ WaiterUnchanged /\ UNCHANGED <<mon, sess>>

\* The receipt, its evaluation, and publication; state_mutex is released.
publish ==
    /\ At("waiter", "publish")
    /\ \/ /\ sess.waits
          /\ sess' = [sess EXCEPT !.lock = Nothing, !.finished = TRUE,
                        !.receipt = [cause |-> life.terminal, bytes |-> mon.bytes,
                                     complete |-> transcript_complete]]
          /\ Goto("waiter", "done") /\ UNCHANGED faults
       \/ /\ Fails \/ (~sess.waits /\ UNCHANGED faults)
          /\ Goto("waiter", "error") /\ UNCHANGED sess
    /\ WaiterUnchanged /\ UNCHANGED <<held, cg, life, mon>>

publish_error ==
    /\ At("waiter", "error")
    /\ sess' = [sess EXCEPT !.lock = Nothing, !.finished = TRUE]
    /\ Goto("waiter", "done")
    /\ WaiterUnchanged /\ UNCHANGED <<held, cg, life, mon, faults>>

\* ~managed_pty_session, once the session is dropped.
destroy ==
    /\ stage = "serving" /\ sess.finished
    /\ \A t \in Stoppers : pc[t] \in {"idle", "done"}
    /\ Destroy
    /\ UNCHANGED <<guest, quotaHit, pty, ch, sess, acked, ret, faults>>

-----------------------------------------------------------------------------
(* Callers of stop.                                                        *)

\* stop() looks at finished and unlocks; stop(gate) keeps state_mutex while it
\* asks the gate and requests the stop.
stop(p) ==
    /\ stage = "serving" /\ At(p, "idle") /\ sess.lock = Nothing
    /\ IF sess.finished
       THEN acked' = TRUE /\ Goto(p, "done") /\ UNCHANGED sess
       ELSE /\ UNCHANGED acked
            /\ \/ Goto(p, "request") /\ UNCHANGED sess
               \/ Goto(p, "gate") /\ sess' = [sess EXCEPT !.lock = p]
    /\ GuestUnchanged /\ UNCHANGED <<stage, held, cg, life, mon, ch, ret, faults>>

before_stop(p) ==
    /\ At(p, "gate")
    /\ \/ Goto(p, "request") /\ UNCHANGED sess
       \/ Goto(p, "done") /\ sess' = [sess EXCEPT !.lock = Nothing]
    /\ GuestUnchanged /\ UNCHANGED <<stage, held, cg, life, mon, ch, ret, acked, faults>>

request_stop(p) ==
    /\ At(p, "request") /\ ~life.finishing
    /\ request_stop_outcome
    /\ Goto(p, "done")
    /\ sess' = [sess EXCEPT !.lock = IF @ = p THEN Nothing ELSE @]
    /\ UNCHANGED <<stage, held, quotaHit, mon, pty, ch, ret>>

-----------------------------------------------------------------------------
(* The guest and the kernel's counters.                                    *)

GuestWrites ==
    /\ guest.st = "running" /\ pty.open
    /\ \E n \in Writes : /\ pty.produced + n <= MaxBytes
                         /\ pty' = [pty EXCEPT !.produced = @ + n]
    /\ UNCHANGED <<stage, held, guest, cg, quotaHit, life, mon, ch, sess, pc, ret, acked, faults>>

\* The last holder of the terminal's slave side is gone, with the guest or before.
GuestHangsUp ==
    /\ pty.open /\ guest.st \in {"running", "exited", "signaled"}
    /\ pty' = [pty EXCEPT !.open = FALSE]
    /\ UNCHANGED <<stage, held, guest, cg, quotaHit, life, mon, ch, sess, pc, ret, acked, faults>>

GuestExits ==
    /\ guest.st = "running"
    /\ guest' = [guest EXCEPT !.st = "exited"]
    /\ UNCHANGED <<stage, held, cg, quotaHit, life, mon, pty, ch, sess, pc, ret, acked, faults>>

\* A guest reaches a limit; out of memory it is killed by the kernel.
GuestHitsLimit ==
    /\ guest.st = "running" /\ cg.hit = {} /\ ~quotaHit
    /\ \/ /\ \E h \in Hits : cg' = [cg EXCEPT !.hit = {h}]
          /\ guest' \in {guest} \cup (IF "memory" \in cg'.hit
                                      THEN {[guest EXCEPT !.st = "signaled"]} ELSE {})
          /\ UNCHANGED quotaHit
       \/ quotaHit' = TRUE /\ UNCHANGED <<cg, guest>>
    /\ UNCHANGED <<stage, held, life, mon, pty, ch, sess, pc, ret, acked, faults>>

-----------------------------------------------------------------------------
Launch == prepare \/ clone \/ attach \/ create_channel \/ release \/ start_waiter
LaunchEnds == prepare_fails \/ launch_fails
Poller == poll_cgroup \/ poll_filesystem \/ poll_terminate
Drainer == drain_loop \/ consume \/ drainer_asks \/ worker_failure
           \/ account_terminal_output \/ store_output \/ worker_exit
Waiter == stop_unwaited \/ wait_for_child \/ finish_draining \/ stop_poller \/ monitor_finish
          \/ join_watchdog \/ observe \/ cleanup_resources \/ publish \/ publish_error
Guest == GuestWrites \/ GuestExits \/ GuestHitsLimit \/ signal

ManagedNext ==
    \/ Launch \/ LaunchEnds \/ watchdog_loop \/ Poller \/ Drainer \/ Waiter \/ destroy
    \/ \E t \in Threads : kill_cgroup(t)
    \/ \E p \in Stoppers : stop(p) \/ before_stop(p) \/ request_stop(p)
    \/ Guest \/ GuestHangsUp

ManagedSpec == ManagedInit /\ [][ManagedNext]_managedVars

\* Every thread runs, time passes (the watchdog), a dead guest's descriptors are
\* closed by the kernel, and a caller of stop returns from its gate.
ManagedFairSpec ==
    /\ ManagedSpec
    /\ WF_managedVars(watchdog_loop) /\ WF_managedVars(Poller)
    /\ WF_managedVars(Drainer) /\ WF_managedVars(Waiter)
    /\ WF_managedVars(GuestHangsUp /\ ~Alive)
    /\ \A t \in Threads : WF_managedVars(kill_cgroup(t))
    /\ \A p \in Stoppers : WF_managedVars(before_stop(p)) /\ WF_managedVars(request_stop(p))

-----------------------------------------------------------------------------
(* Properties.                                                             *)

ManagedTypeOK ==
    /\ stage \in Range(PrepareSteps) \cup Range(LaunchSteps) \cup {"gone"}
    /\ guest.st \in {Nothing, "held", "running", "exited", "signaled"}
    /\ ch.ring.oldest <= ch.ring.next /\ ch.ring.size <= RingBytes /\ Taken <= pty.produced
    /\ mon.lock \in Threads \cup {Nothing} /\ sess.lock \in Threads \cup {Nothing}

(* The receipt tells how the guest ended: the cause the monitor took first,  *)
(* a normal exit only when no limit was hit and nothing was forced, more     *)
(* output than allowed never as a normal end, and a complete transcript only *)
(* when every byte the guest wrote was counted.  It stays so after it was    *)
(* published, whatever the other threads still do.                           *)
ReceiptIsTruthful ==
    sess.receipt # NoReceipt =>
        LET r == sess.receipt
        IN  /\ mon.forced # Nothing => r.cause = mon.forced
            /\ r.cause = "exited" => guest.st = "exited" /\ cg.hit = {} /\ ~quotaHit
            /\ r.bytes > OutputLimit => r.cause \notin {"exited", "signaled"}
            /\ r.complete => r.bytes = pty.produced

(* A read at any cursor returns the guest's bytes from that cursor on, or    *)
(* from the oldest one kept and says so; it reports the end only after the   *)
(* last byte; and nothing beyond the output limit is ever readable.          *)
TranscriptIsFaithful ==
    \A cursor \in 0 .. ch.ring.next, max \in 1 .. ReadChunk :
        LET r == read_locked(cursor, max)
            from == r.next - Len(r.bytes)
        IN  r.ok => /\ r.truncated = (from # cursor)
                    /\ \A i \in 1 .. Len(r.bytes) : r.bytes[i] = from + i
                    /\ r.next <= OutputLimit
                    /\ r.eof => r.next = pty.produced

(* Both: what the session reports of its guest is so.                        *)
ReportsAreTrue == ManagedTypeOK /\ ReceiptIsTruthful /\ TranscriptIsFaithful

(* Once the cgroup was killed no guest of the session runs: the kill and the *)
(* attachment of the child exclude each other.                               *)
KilledGuestIsDead == cg.killed => guest.st # "running"

(* An answered stop means that the guest is dead, or a thread is about to    *)
(* kill it, or the kill has failed and the session's cause says so.          *)
StopIsEffective ==
    acked => ~Alive \/ (\E t \in Threads : At(t, "kill")) \/ mon.failed

(* Both: a kill or a stop that was answered has its effect.                  *)
StopsAreEffective == KilledGuestIsDead /\ StopIsEffective

(* A session that serves ends with a published result, unless the kill of    *)
(* its cgroup failed: no two of the threads wait for each other.             *)
SessionEnded == stage = "serving" => sess.finished \/ mon.failed
SessionEnds == []<>SessionEnded
=============================================================================
