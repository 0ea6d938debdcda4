------------------------ MODULE LinuxSessionRuntime ------------------------
(***************************************************************************)
(* The Linux session runtime (linux_session_executor.cpp): how a session   *)
(* is launched, stopped, finalized, cleaned up and, after a crash,         *)
(* reconciled (session_reconciliation.cpp, linux_session_recovery.cpp).    *)
(*                                                                         *)
(* The threads are the server, which runs one control call at a time       *)
(* (receipt_audit_unix_server.cpp), and for each session the waiter of its *)
(* managed_pty_session and its finalizer.  The registry and the receipt    *)
(* journal appear as what they have durably recorded; SessionRegistry and  *)
(* ReceiptJournal model them.  Each durable write is a step of its own, so *)
(* that the daemon may die between any two.                                *)
(***************************************************************************)
EXTENDS Integers, FiniteSets

CONSTANTS
    Sessions,
    MaxSessions,     \* max_sessions of the live-session index
    ClientKeys,      \* idempotency keys of the controller's stop requests
    OwnKey,          \* the stopping key the daemon derives for itself
    MaxFaults,       \* bound: failed writes and failed kills
    MaxCrashes,      \* bound: how often the daemon dies or is shut down
    None

ASSUME RuntimeAssumption ==
    /\ IsFiniteSet(Sessions)
    /\ MaxSessions \in Nat \ {0}
    /\ OwnKey \notin ClientKeys
    /\ MaxFaults \in Nat /\ MaxCrashes \in Nat

VARIABLES
    \* durable
    state,               \* the session's latest registry record
    stopping_key,        \* the key its stopping record was made under
    receipts,            \* sessions whose terminal receipt was committed
    residue,             \* those with a record that was not rolled back
    \* the kernel
    proc,                \* the guest: none, held, alive, dead; or its pid
                         \* is another process's ("reused")
    \* the daemon
    reconciliation,
    index,               \* sessions adopted by linux_pty_session_index
    call,                \* the control call in progress, or None
    todo,                \* recovery candidates reconcile still has to see
    unresolved,          \* did this reconcile meet an identity mismatch?
    managed,             \* the managed_pty_session's state
    state_mutex,         \* of the managed session: free, or held by "stop"
    transition_mutex,    \* of the session: free, or held by "finalizer"
    finalizer,           \* where the session's finalizer is
    reservations,        \* sessions that hold a terminal_reservation
    terminating,         \* sessions whose lifecycle set termination_started_
    poisoned,            \* the receipt journal is
    shutting,            \* the daemon is being destroyed
    \* what the controller knows of a session
    controller,
    faults, crashes

journal == <<receipts, residue>>
durable == <<state, stopping_key, journal>>
held == <<reservations, terminating>>
owners == <<managed, state_mutex, transition_mutex, finalizer, held>>
recovery == <<reconciliation, todo, unresolved>>
vars == <<durable, proc, recovery, index, call, owners, poisoned, shutting,
          controller, faults, crashes>>

Keys == ClientKeys \cup {OwnKey}
States == {"created", "preparing", "starting", "running", "stopping",
           "exited", "failed"}
Calls == [pc : {"prepare", "spawn", "gate", "release", "failing", "inline",
                "adopt", "fresh", "replay", "stop", "before_stop",
                "request_stop", "wait", "reconcile"},
          s : Sessions \cup {None}, key : Keys, then : {"return", "destroy"}]
FinalizerStates == {"none", "waiting", "ready", "broken", "refine", "commit",
                    "project", "closing", "done"}

ASSUME NoneAssumption == None \notin Calls

Idle == call = None /\ ~shutting
Call(pc, s) == [pc |-> pc, s |-> s, key |-> OwnKey, then |-> "return"]
At(pc) == call # None /\ call.pc = pc
Goto(pc) == call' = [call EXCEPT !.pc = pc]
Return == call' = None

Record(s, new) == state' = [state EXCEPT ![s] = new]

\* One of the failures the bound allows.
Fault == faults < MaxFaults /\ faults' = faults + 1
NoFault == UNCHANGED faults

Init ==
    /\ state = [s \in Sessions |-> "created"]
    /\ stopping_key = [s \in Sessions |-> None]
    /\ receipts = {} /\ residue = {}
    /\ proc = [s \in Sessions |-> "none"]
    /\ reconciliation = FALSE /\ index = {} /\ call = None
    /\ todo = {} /\ unresolved = FALSE
    /\ managed = [s \in Sessions |-> "none"]
    /\ state_mutex = [s \in Sessions |-> None]
    /\ transition_mutex = [s \in Sessions |-> None]
    /\ finalizer = [s \in Sessions |-> "none"]
    /\ reservations = {} /\ terminating = {}
    /\ poisoned = FALSE /\ shutting = FALSE
    /\ controller = [s \in Sessions |-> "unaware"]
    /\ faults = 0 /\ crashes = 0

---------------------------------------------------------------------------
(* start: linux_session_runtime::start and start_linux_pty_session.        *)

\* A session that is not (or no longer) preparing is answered from the
\* registry; nothing is launched.
start(s) ==
    /\ Idle /\ reconciliation
    /\ IF state[s] \in {"created", "preparing"}
         THEN /\ s \notin index
              /\ Record(s, "preparing")
              /\ call' = Call("prepare", s)
         ELSE UNCHANGED state /\ call' = Call("replay", s)
    /\ UNCHANGED <<stopping_key, journal, proc, recovery, index, owners,
                   poisoned, shutting, controller, faults, crashes>>

\* resolve_start_inputs, prepare, reserve_terminal, then mark_starting.  Any
\* of them may refuse, which leaves the session to be started again.
mark_starting ==
    /\ At("prepare")
    /\ \/ /\ Record(call.s, "starting") /\ Goto("spawn")
          /\ reservations' = reservations \cup {call.s}
       \/ UNCHANGED <<state, reservations>> /\ Return
    /\ UNCHANGED <<stopping_key, journal, proc, recovery, index, managed,
                   state_mutex, transition_mutex, finalizer, terminating,
                   poisoned, shutting, controller, faults, crashes>>

\* launch_pty_child: the clone waits on its pipe, is mapped, attached to its
\* cgroup and given its terminal.  If any of that fails it is killed there.
launch_pty_child ==
    /\ At("spawn")
    /\ \/ proc' = [proc EXCEPT ![call.s] = "held"] /\ Goto("gate")
       \/ UNCHANGED proc /\ Goto("failing")
    /\ UNCHANGED <<durable, recovery, index, owners, poisoned, shutting,
                   controller, faults, crashes>>

\* The gate captures the child's identity and records it as running; if that
\* fails the child is killed on its pipe.
before_child_release ==
    /\ At("gate")
    /\ \/ /\ Record(call.s, "running") /\ Goto("release")
          /\ UNCHANGED proc /\ NoFault
       \/ /\ UNCHANGED state /\ Goto("failing") /\ Fault
          /\ proc' = [proc EXCEPT ![call.s] = "dead"]
    /\ UNCHANGED <<stopping_key, journal, recovery, index, owners, poisoned,
                   shutting, controller, crashes>>

\* The child is released and its waiter and finalizer start.  A child that
\* cannot be released is killed on its pipe; without a waiter thread the call
\* stops the child and reaps it, and without a finalizer thread it stops the
\* child and finalizes it itself.  That stop may fail.
release_child ==
    LET s == call.s
        Managed == /\ managed' = [managed EXCEPT ![s] = "waiting"]
                   /\ finalizer' = [finalizer EXCEPT ![s] = "waiting"]
        Stopped == \/ proc' = [proc EXCEPT ![s] = "dead"] /\ NoFault
                   \/ proc' = [proc EXCEPT ![s] = "alive"] /\ Fault
    IN
    /\ At("release")
    /\ \/ proc' = [proc EXCEPT ![s] = "alive"] /\ NoFault
          /\ Managed /\ Goto("adopt")
       \/ Stopped /\ UNCHANGED <<managed, finalizer>> /\ Goto("failing")
       \/ Stopped /\ Managed /\ Goto("inline")
    /\ UNCHANGED <<durable, recovery, index, state_mutex, transition_mutex,
                   held, poisoned, shutting, controller, crashes>>

\* The child is gone; mark_failed for a launch that did not come about, whose
\* reservation goes with its owner.
launch_failed ==
    /\ At("failing") /\ proc[call.s] # "alive"
    /\ \/ Record(call.s, "failed") /\ NoFault
       \/ UNCHANGED state /\ Fault
    /\ reservations' = reservations \ {call.s}
    /\ Return
    /\ UNCHANGED <<stopping_key, journal, proc, recovery, index, managed,
                   state_mutex, transition_mutex, finalizer, terminating,
                   poisoned, shutting, controller, crashes>>

\* Mutant: a full index lets go of the session without stopping it.
adopt_drops ==
    /\ At("adopt")
    /\ IF Cardinality(index) < MaxSessions
         THEN index' = index \cup {call.s} /\ Goto("fresh")
         ELSE UNCHANGED index /\ Return
    /\ UNCHANGED <<durable, proc, recovery, owners, poisoned, shutting,
                   controller, faults, crashes>>

\* A full index refuses the session; its destructor stops it and waits.
adopt ==
    /\ At("adopt")
    /\ IF Cardinality(index) < MaxSessions
         THEN index' = index \cup {call.s} /\ Goto("fresh")
         ELSE /\ UNCHANGED index
              /\ call' = [call EXCEPT !.pc = "stop", !.then = "destroy"]
    /\ UNCHANGED <<durable, proc, recovery, owners, poisoned, shutting,
                   controller, faults, crashes>>

\* Mutant: a lost reply to a replay is degraded as well.
serve_reply_degrades_replay ==
    /\ At("fresh") \/ At("replay")
    /\ \/ /\ controller' = [controller EXCEPT ![call.s] =
                              IF @ = "unaware" THEN "aware" ELSE @]
          /\ Return
       \/ /\ UNCHANGED controller
          /\ IF call.s \in index THEN Goto("stop") ELSE Return
    /\ UNCHANGED <<durable, proc, recovery, index, owners, poisoned, shutting,
                   faults, crashes>>

\* serve_one sends the reply.  If that fails, degrade_failed_delivery stops a
\* guest this very request launched, and no other.
serve_reply ==
    /\ At("fresh") \/ At("replay")
    /\ \/ /\ controller' = [controller EXCEPT ![call.s] =
                              IF @ = "unaware" THEN "aware" ELSE @]
          /\ Return
       \/ /\ UNCHANGED controller
          /\ IF At("fresh") THEN Goto("stop") ELSE Return
    /\ UNCHANGED <<durable, proc, recovery, index, owners, poisoned, shutting,
                   faults, crashes>>

---------------------------------------------------------------------------
(* stop, cleanup and the destruction of a session.                         *)

handle_stop_session(s, key) ==
    /\ Idle /\ s \in index
    /\ call' = [Call("stop", s) EXCEPT !.key = key]
    /\ controller' = [controller EXCEPT ![s] = "asked"]
    /\ UNCHANGED <<durable, proc, recovery, index, owners, poisoned, shutting,
                   faults, crashes>>

\* A stop ends: the caller returns, or goes on to wait for the finalizer.
StopEnds(told) ==
    /\ IF call.then = "return" THEN Return ELSE Goto("wait")
    /\ controller' = IF told /\ call.key \in ClientKeys
                       THEN [controller EXCEPT ![call.s] = "told"]
                       ELSE controller

\* Mutant: whether the session has finished is not asked.
stop_finished ==
    LET s == call.s IN
    /\ At("stop") /\ state_mutex[s] = None
    /\ state_mutex' = [state_mutex EXCEPT ![s] = "stop"]
    /\ Goto("before_stop")
    /\ UNCHANGED <<durable, proc, recovery, index, managed, transition_mutex,
                   finalizer, held, poisoned, shutting, controller, faults,
                   crashes>>

\* managed_pty_session::stop takes the managed state mutex; a session that
\* has finished needs no stop.
stop ==
    LET s == call.s IN
    /\ At("stop") /\ state_mutex[s] = None
    /\ IF managed[s] = "waiting"
         THEN /\ state_mutex' = [state_mutex EXCEPT ![s] = "stop"]
              /\ Goto("before_stop") /\ UNCHANGED controller
         ELSE StopEnds(TRUE) /\ UNCHANGED state_mutex
    /\ UNCHANGED <<durable, proc, recovery, index, managed, transition_mutex,
                   finalizer, held, poisoned, shutting, faults, crashes>>

\* The stop gate, under both mutexes: mark_stopping, or its replay under the
\* same key.  A refusal leaves the guest as it is.
before_stop ==
    LET s == call.s IN
    /\ At("before_stop") /\ transition_mutex[s] = None
    /\ \/ /\ state[s] = "running"
          /\ Record(s, "stopping")
          /\ stopping_key' = [stopping_key EXCEPT ![s] = call.key]
          /\ Goto("request_stop") /\ UNCHANGED <<state_mutex, controller>>
          /\ NoFault
       \/ /\ state[s] = "stopping" /\ stopping_key[s] = call.key
          /\ Goto("request_stop")
          /\ UNCHANGED <<state, stopping_key, state_mutex, controller>>
          /\ NoFault
       \/ /\ IF state[s] = "running" \/ stopping_key[s] = call.key
               THEN Fault ELSE NoFault
          /\ state_mutex' = [state_mutex EXCEPT ![s] = None]
          /\ StopEnds(FALSE)
          /\ UNCHANGED <<state, stopping_key>>
    /\ UNCHANGED <<journal, proc, recovery, index, managed, transition_mutex,
                   finalizer, held, poisoned, shutting, crashes>>

Killed(s) == [proc EXCEPT ![s] = IF @ = "alive" THEN "dead" ELSE @]

\* linux_resource_lifecycle::request_stop kills the cgroup, unless the monitor
\* has set out to: then there is nothing to do, even if the monitor failed.
request_stop ==
    LET s == call.s IN
    /\ At("request_stop")
    /\ state_mutex' = [state_mutex EXCEPT ![s] = None]
    /\ \/ /\ s \notin terminating /\ proc' = Killed(s)
          /\ terminating' = terminating \cup {s}
          /\ StopEnds(TRUE) /\ NoFault
       \/ /\ s \in terminating /\ UNCHANGED <<proc, terminating>>
          /\ StopEnds(TRUE) /\ NoFault
       \/ /\ s \notin terminating /\ UNCHANGED <<proc, terminating>>
          /\ StopEnds(FALSE) /\ Fault
    /\ UNCHANGED <<durable, recovery, index, managed, transition_mutex,
                   finalizer, reservations, poisoned, shutting, crashes>>

\* The wall-time, output or resource limit of a session: kill_cgroup says that
\* it has started before it tries.
kill_cgroup(s) ==
    /\ proc[s] = "alive" /\ s \notin terminating
    /\ managed[s] = "waiting" \/ (At("failing") /\ call.s = s)
    /\ terminating' = terminating \cup {s}
    /\ \/ proc' = Killed(s) /\ NoFault
       \/ UNCHANGED proc /\ Fault
    /\ UNCHANGED <<durable, recovery, index, call, managed, state_mutex,
                   transition_mutex, finalizer, reservations, poisoned,
                   shutting, controller, crashes>>

\* The owner of s is gone, with its threads and its mutexes.
Release(s) ==
    /\ managed' = [managed EXCEPT ![s] = "none"]
    /\ finalizer' = [finalizer EXCEPT ![s] = "none"]
    /\ reservations' = reservations \ {s}
    /\ terminating' = terminating \ {s}
    /\ UNCHANGED <<state_mutex, transition_mutex>>

\* ~linux_pty_session waits for its finalizer; so does a start call that had
\* to finalize the session itself.
wait ==
    /\ At("wait") \/ At("inline")
    /\ finalizer[call.s] = "done"
    /\ Release(call.s)
    /\ index' = index \ {call.s}
    /\ Return
    /\ UNCHANGED <<durable, proc, recovery, poisoned, shutting, controller,
                   faults, crashes>>

cleanup(s) ==
    /\ Idle /\ s \in index
    /\ finalizer[s] = "done"
    /\ index' = index \ {s}
    /\ Release(s)
    /\ UNCHANGED <<durable, proc, recovery, call, poisoned, shutting,
                   controller, faults, crashes>>

---------------------------------------------------------------------------
(* The waiter and the finalizer of a session.                              *)

\* The waiter reaps the child and publishes its receipt under state_mutex.
wait_for_terminal(s) ==
    /\ managed[s] = "waiting" /\ proc[s] = "dead"
    /\ state_mutex[s] = None
    /\ \E result \in {"receipt", "error"} :
          managed' = [managed EXCEPT ![s] = result]
    /\ UNCHANGED <<durable, proc, recovery, index, call, state_mutex,
                   transition_mutex, finalizer, held, poisoned, shutting,
                   controller, faults, crashes>>

FinalizerGoes(s, to) == finalizer' = [finalizer EXCEPT ![s] = to]

\* managed->wait().
finalize(s) ==
    /\ finalizer[s] = "waiting" /\ managed[s] # "waiting"
    /\ state_mutex[s] = None
    /\ FinalizerGoes(s, IF managed[s] = "receipt" THEN "ready" ELSE "broken")
    /\ UNCHANGED <<durable, proc, recovery, index, call, managed, state_mutex,
                   transition_mutex, held, poisoned, shutting, controller,
                   faults, crashes>>

lock_transition(s) ==
    /\ finalizer[s] \in {"ready", "broken"}
    /\ transition_mutex[s] = None
    /\ transition_mutex' = [transition_mutex EXCEPT ![s] = "finalizer"]
    /\ FinalizerGoes(s, IF finalizer[s] = "ready" THEN "refine" ELSE "closing")
    /\ UNCHANGED <<durable, proc, recovery, index, call, managed, state_mutex,
                   held, poisoned, shutting, controller, faults, crashes>>

\* wait_refinement takes the managed state mutex under transition_mutex: the
\* opposite order from stop.
wait_refinement(s) ==
    /\ finalizer[s] = "refine"
    /\ state_mutex[s] = None
    /\ FinalizerGoes(s, "commit")
    /\ UNCHANGED <<durable, proc, recovery, index, call, managed, state_mutex,
                   transition_mutex, held, poisoned, shutting, controller,
                   faults, crashes>>

\* A commit that fails was rolled back; if the rollback fails too, the record
\* may be in the file all the same, and the journal refuses everything else.
\* Either way the reservation is spent.
commit_terminal(s) ==
    /\ finalizer[s] = "commit"
    /\ \/ /\ ~poisoned
          /\ receipts' = receipts \cup {s}
          /\ FinalizerGoes(s, "project")
          /\ UNCHANGED <<residue, poisoned>> /\ NoFault
       \/ /\ UNCHANGED <<journal, poisoned>>
          /\ FinalizerGoes(s, "closing")
          /\ IF poisoned THEN NoFault ELSE Fault
       \/ /\ ~poisoned
          /\ residue' = residue \cup {s} /\ UNCHANGED receipts
          /\ poisoned' = TRUE
          /\ FinalizerGoes(s, "closing") /\ Fault
    /\ reservations' = reservations \ {s}
    /\ UNCHANGED <<state, stopping_key, proc, recovery, index, call, managed,
                   state_mutex, transition_mutex, terminating, shutting,
                   controller, crashes>>

\* The protocol owns the producer and is destroyed before the sessions are;
\* after that only the reservations keep the producer.
ProducerAlive == ~shutting \/ reservations # {}

Unlock(s) ==
    /\ transition_mutex' = [transition_mutex EXCEPT ![s] = None]
    /\ FinalizerGoes(s, "done")

\* mark_exited: the producer confirms the receipt and the session's end is
\* recorded.  If the producer is gone the call is undefined: it may succeed,
\* fail, or take the daemon down (Crash).
mark_exited(s) ==
    /\ finalizer[s] = "project"
    /\ Unlock(s)
    /\ \/ /\ ~poisoned /\ state[s] \in {"running", "stopping"}
          /\ Record(s, "exited") /\ NoFault
       \/ /\ UNCHANGED state
          /\ IF poisoned \/ ~ProducerAlive THEN NoFault ELSE Fault
    /\ UNCHANGED <<stopping_key, journal, proc, recovery, index, call,
                   managed, state_mutex, held, poisoned, shutting, controller,
                   crashes>>

\* close_failed_locked.
close_failed(s) ==
    /\ finalizer[s] = "closing"
    /\ Unlock(s)
    /\ \/ /\ state[s] \in {"running", "stopping"}
          /\ Record(s, "failed") /\ NoFault
       \/ UNCHANGED state /\ Fault
    /\ UNCHANGED <<stopping_key, journal, proc, recovery, index, call,
                   managed, state_mutex, held, poisoned, shutting, controller,
                   crashes>>

---------------------------------------------------------------------------
(* Reconciliation.                                                         *)

\* Sage's page, acknowledgement and start requests all call it first; a
\* report that left nothing unresolved is kept.
reconcile ==
    /\ Idle /\ ~reconciliation
    /\ call' = Call("reconcile", None)
    /\ todo' = {s \in Sessions :
                  state[s] \in {"starting", "running", "stopping"}}
    /\ unresolved' = FALSE
    /\ UNCHANGED <<durable, proc, reconciliation, index, owners, poisoned,
                   shutting, controller, faults, crashes>>

\* Mutant: the receipt is not looked for.
classify_ignoring_receipts(s) ==
    /\ At("reconcile") /\ s \in todo
    /\ todo' = todo \ {s}
    /\ Record(s, "failed")
    /\ proc' = Killed(s)
    /\ UNCHANGED <<stopping_key, journal, reconciliation, index, call,
                   owners, unresolved, poisoned, shutting, controller,
                   faults, crashes>>

\* terminal_for_execution.
HasTerminal(s) == s \in receipts \cup residue

\* One candidate: closed by its receipt; or, without one, by the absence of
\* its process, or by killing it through its cgroup.  A pid that is another
\* process's by now settles nothing.
classify(s) ==
    /\ At("reconcile") /\ s \in todo
    /\ todo' = todo \ {s}
    /\ \/ /\ state[s] # "starting" /\ HasTerminal(s)
          /\ Record(s, "exited") /\ UNCHANGED <<proc, unresolved>>
       \/ /\ state[s] = "starting" \/ (~HasTerminal(s) /\ proc[s] # "reused")
          /\ Record(s, "failed")
          /\ proc' = Killed(s) /\ UNCHANGED unresolved
       \/ /\ state[s] # "starting" /\ ~HasTerminal(s)
          /\ proc[s] = "reused"
          /\ unresolved' = TRUE /\ UNCHANGED <<state, proc>>
    /\ UNCHANGED <<stopping_key, journal, reconciliation, index, call,
                   owners, poisoned, shutting, controller, faults, crashes>>

\* A failed write, kill or observation aborts the whole reconciliation.
reconcile_fails ==
    /\ At("reconcile") /\ todo # {} /\ Fault
    /\ todo' = {} /\ Return
    /\ UNCHANGED <<durable, proc, reconciliation, unresolved, index, owners,
                   poisoned, shutting, controller, crashes>>

reconcile_ends ==
    /\ At("reconcile") /\ todo = {}
    /\ reconciliation' = ~unresolved
    /\ Return
    /\ UNCHANGED <<durable, proc, todo, unresolved, index, owners, poisoned,
                   shutting, controller, faults, crashes>>

---------------------------------------------------------------------------
(* The end of a daemon, and the kernel.                                    *)

ForgetDaemon ==
    /\ reconciliation' = FALSE /\ index' = {} /\ call' = None
    /\ todo' = {} /\ unresolved' = FALSE
    /\ managed' = [s \in Sessions |-> "none"]
    /\ state_mutex' = [s \in Sessions |-> None]
    /\ transition_mutex' = [s \in Sessions |-> None]
    /\ finalizer' = [s \in Sessions |-> "none"]
    /\ reservations' = {} /\ terminating' = {}
    /\ poisoned' = FALSE /\ shutting' = FALSE

\* A held child reads the end of its pipe; a released one is killed by its
\* parent-death signal, but not at once. The daemon dies between two appends:
\* an append to the registry that is cut short leaves a file that no daemon
\* opens (Residue and open_or_create of SessionRegistry), and nothing of this
\* module happens any more.
Crash ==
    /\ crashes < MaxCrashes /\ crashes' = crashes + 1
    /\ ForgetDaemon
    /\ proc' = [s \in Sessions |-> IF proc[s] = "held" THEN "dead" ELSE proc[s]]
    /\ UNCHANGED <<durable, controller, faults>>

\* run() returns: the server's protocol, and with it its producer, is
\* destroyed before the runtime.
shutdown ==
    /\ Idle /\ crashes < MaxCrashes /\ crashes' = crashes + 1
    /\ shutting' = TRUE
    /\ UNCHANGED <<durable, proc, recovery, index, call, owners, poisoned,
                   controller, faults>>

\* ~linux_pty_session for each indexed session in turn.
destroy(s) ==
    /\ shutting /\ call = None /\ s \in index
    /\ call' = [Call("stop", s) EXCEPT !.then = "destroy"]
    /\ UNCHANGED <<durable, proc, recovery, index, owners, poisoned, shutting,
                   controller, faults, crashes>>

exit_daemon ==
    /\ shutting /\ call = None /\ index = {}
    /\ ForgetDaemon
    /\ UNCHANGED <<durable, proc, controller, faults, crashes>>

\* A guest ends by itself.
guest_exits(s) ==
    /\ proc[s] = "alive"
    /\ proc' = [proc EXCEPT ![s] = "dead"]
    /\ UNCHANGED <<durable, recovery, index, call, owners, poisoned, shutting,
                   controller, faults, crashes>>

\* The pid of a reaped guest is given to another process.
pid_reused(s) ==
    /\ proc[s] = "dead" /\ managed[s] = "none" /\ crashes > 0
    /\ proc' = [proc EXCEPT ![s] = "reused"]
    /\ UNCHANGED <<durable, recovery, index, call, owners, poisoned, shutting,
                   controller, faults, crashes>>

\* That process ends, too.
pid_freed(s) ==
    /\ proc[s] = "reused"
    /\ proc' = [proc EXCEPT ![s] = "dead"]
    /\ UNCHANGED <<durable, recovery, index, call, owners, poisoned, shutting,
                   controller, faults, crashes>>

Server ==
    \/ mark_starting \/ launch_pty_child \/ before_child_release
    \/ release_child \/ launch_failed \/ adopt \/ serve_reply
    \/ stop \/ before_stop \/ request_stop \/ wait
    \/ \E s \in Sessions : classify(s)
    \/ reconcile_ends
    \/ \E s \in Sessions : destroy(s)
    \/ exit_daemon

Finalizer(s) ==
    \/ wait_for_terminal(s) \/ finalize(s) \/ lock_transition(s)
    \/ wait_refinement(s) \/ commit_terminal(s) \/ mark_exited(s)
    \/ close_failed(s)

Next ==
    \/ \E s \in Sessions : start(s) \/ cleanup(s)
    \/ \E s \in Sessions, key \in ClientKeys : handle_stop_session(s, key)
    \/ Server
    \/ reconcile
    \/ reconcile_fails
    \/ \E s \in Sessions : Finalizer(s)
    \/ \E s \in Sessions : 
          kill_cgroup(s) \/ guest_exits(s) \/ pid_reused(s) \/ pid_freed(s)
    \/ Crash
    \/ shutdown

Spec == Init /\ [][Next]_vars

\* Threads run; Sage keeps calling, and its calls, which make the daemon
\* reconcile, are served in turn; the watchdog enforces the wall-time limit.
\* A waiter or finalizer that wants a mutex gets it even if stop requests keep
\* taking it in between.
Fairness ==
    /\ WF_vars(Server)
    /\ SF_vars(reconcile)
    /\ \A s \in Sessions : SF_vars(Finalizer(s)) /\ WF_vars(kill_cgroup(s))

FairSpec == Spec /\ Fairness

---------------------------------------------------------------------------
(* Properties.                                                             *)

Open == {"starting", "running", "stopping"}
Terminal == {"exited", "failed"}

\* Every variable has its type; the index stays within its bound.
TypeOK ==
    /\ state \in [Sessions -> States]
    /\ stopping_key \in [Sessions -> Keys \cup {None}]
    /\ receipts \subseteq Sessions /\ residue \subseteq Sessions
    /\ proc \in [Sessions -> {"none", "held", "alive", "dead", "reused"}]
    /\ reconciliation \in BOOLEAN
    /\ index \subseteq Sessions /\ Cardinality(index) <= MaxSessions
    /\ call \in Calls \cup {None}
    /\ todo \subseteq Sessions /\ unresolved \in BOOLEAN
    /\ managed \in [Sessions -> {"none", "waiting", "receipt", "error"}]
    /\ state_mutex \in [Sessions -> {None, "stop"}]
    /\ transition_mutex \in [Sessions -> {None, "finalizer"}]
    /\ finalizer \in [Sessions -> FinalizerStates]
    /\ reservations \subseteq Sessions /\ terminating \subseteq Sessions
    /\ poisoned \in BOOLEAN /\ shutting \in BOOLEAN
    /\ controller \in [Sessions -> {"unaware", "aware", "asked", "told"}]
    /\ faults \in 0..MaxFaults /\ crashes \in 0..MaxCrashes

\* A guest runs only while the registry says so: its running record is
\* durable before it is released, and no record of its end is made while it
\* still runs, by the finalizer or by recovery.
RunningGuestIsRecorded ==
    \A s \in Sessions :
       /\ proc[s] = "held" => state[s] \in {"starting", "running"}
       /\ proc[s] = "alive" => state[s] \in {"running", "stopping"}

\* Once a daemon has reconciled, every guest that runs has an owner that can
\* stop it: the index, or the call that is launching or destroying it.
RunningGuestIsOwned ==
    reconciliation =>
       \A s \in Sessions : proc[s] = "alive" =>
          s \in index \/ (call # None /\ call.s = s)

\* No guest runs unaccounted for.
GuestsAreAccountedFor ==
    TypeOK /\ RunningGuestIsRecorded /\ RunningGuestIsOwned

\* A committed receipt wins: a session that has one is never recorded as
\* failed, whichever of finalizer and recovery gets to it.  (A record that a
\* failed rollback left in the file may be that of a failed session.)
ReceiptIsNeverDisowned ==
    \A s \in Sessions : s \in receipts => state[s] # "failed"

\* A guest whose controller knows of it is not stopped unless the controller
\* asked for it or the daemon is shutting down: a replayed start whose reply
\* is lost gains no authority to stop it.
NoUnaskedStop ==
    [][\A s \in Sessions :
         state[s] = "running" /\ state'[s] = "stopping" =>
            controller[s] # "aware" \/ shutting]_vars

\* As long as its daemon lives, a controller that was told its stop succeeded
\* has no guest running, unless the resource monitor had set out to kill the
\* guest and failed.
ToldStoppedIsStopped ==
    \A s \in Sessions :
       controller[s] = "told" /\ managed[s] = "waiting" =>
          proc[s] # "alive" \/ s \in terminating

\* Both: what the registry and a controller were told of a session's end is so.
EndsAreTrue == ReceiptIsNeverDisowned /\ ToldStoppedIsStopped

\* Every call comes back, also one that destroys a session: the opposite lock
\* orders of stop and of the finalizer never meet.
CallsReturn == (call # None) ~> (call = None \/ faults > 0)

\* Through crashes and restarts every session that was started is closed,
\* unless the pid of its guest went to another process.
StartedSessionsClose ==
    \A s \in Sessions :
       (state[s] \in Open) ~>
          (state[s] \in Terminal \/ proc[s] = "reused" \/ faults > 0)

\* Both, as long as no write fails: nothing is left hanging.
NothingHangs == CallsReturn /\ StartedSessionsClose

\* The finalizer consults the receipt producer only while it exists.
ProducerOutlivesFinalizers ==
    \A s \in Sessions : finalizer[s] = "project" => ProducerAlive
============================================================================
