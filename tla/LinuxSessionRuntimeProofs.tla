---------------------- MODULE LinuxSessionRuntimeProofs ----------------------
(* Proofs about LinuxSessionRuntime: no guest runs without a record and an   *)
(* owner, what is recorded and told of a session's end is true, and no guest *)
(* is stopped behind its controller's back.                                  *)
EXTENDS LinuxSessionRuntime, FiniteSetTheorems, TLAPS

---------------------------------------------------------------------------
(* The inductive invariant.                                                *)

Unlaunched == {"created", "preparing", "starting"}
LaunchPcs == {"prepare", "spawn", "gate", "release", "failing"}
StopPcs == {"stop", "before_stop", "request_stop"}

\* What a control call may rely on from one of its steps to the next.  A call
\* that launches a session is its only owner; a stop that is not part of a
\* destruction is of a session in the index.
CallInv ==
    call # None =>
       /\ call.pc # "reconcile" => call.s \in Sessions
       /\ call.then = "destroy" => call.pc \in StopPcs \cup {"wait"}
       /\ call.pc = "wait" => call.then = "destroy"
       /\ shutting => call.then = "destroy"
       /\ (call.pc = "reconcile") = ~reconciliation
       /\ call.pc \in LaunchPcs =>
             /\ managed[call.s] = "none" /\ call.s \notin index
             /\ ~HasTerminal(call.s)
       /\ call.pc \in LaunchPcs \cup {"inline", "adopt", "fresh"} =>
             controller[call.s] = "unaware"
       /\ call.pc = "prepare" => state[call.s] = "preparing"
       /\ call.pc = "replay" => state[call.s] \notin {"created", "preparing"}
       /\ call.pc \in {"spawn", "gate"} => state[call.s] = "starting"
       /\ call.pc = "release" => state[call.s] = "running"
       /\ call.pc = "failing" => state[call.s] \in {"starting", "running"}
       /\ call.pc \in {"inline", "adopt", "fresh"} \cup StopPcs \cup {"wait"} =>
             managed[call.s] # "none"
       /\ call.pc \in {"fresh"} \cup StopPcs /\ call.then = "return" => call.s \in index
       /\ call.pc \in StopPcs => controller[call.s] # "aware" \/ shutting

\* A guest is held on its pipe only by the call that launches it, which
\* releases no guest but a held one.
HeldInv ==
    \A s \in Sessions :
       (proc[s] = "held") = (call # None /\ call.s = s /\ call.pc \in {"gate", "release"})

\* A session that was not launched has no owner, no receipt and no controller
\* that asked for its end; a finalizer works on a session that is recorded as
\* running, and on a receipt that is committed only to project it.
SessionInv ==
    \A s \in Sessions :
       /\ state[s] \in Unlaunched =>
             /\ managed[s] = "none" /\ ~HasTerminal(s)
             /\ controller[s] \in {"unaware", "aware"}
       /\ state[s] \in {"created", "preparing"} => controller[s] = "unaware"
       /\ (managed[s] = "none") = (finalizer[s] = "none")
       /\ s \in index => managed[s] # "none"
       /\ finalizer[s] \notin {"none", "waiting"} => managed[s] # "waiting"
       /\ finalizer[s] \notin {"none", "done"} => state[s] \in {"running", "stopping"}
       /\ finalizer[s] \in {"waiting", "ready", "broken", "refine", "commit", "closing"} =>
             s \notin receipts

\* Who is known to run: nobody whose waiter has reaped it, nobody with a
\* terminal receipt.
DeadInv ==
    \A s \in Sessions :
       managed[s] \in {"receipt", "error"} \/ HasTerminal(s) => proc[s] # "alive"

\* Before a daemon has reconciled it owns nothing, and a reconciliation in
\* progress still has to see every guest that runs.
RecoveryInv ==
    ~reconciliation =>
       /\ index = {} /\ \A s \in Sessions : managed[s] = "none"
       /\ call # None => \A s \in Sessions : proc[s] = "alive" => s \in todo

\* Who can stop a guest that runs once the daemon has reconciled: the index,
\* or a call that does not return before the guest is gone or adopted.
Owner(s) ==
    \/ s \in index
    \/ /\ call # None /\ call.s = s
       /\ call.pc \in {"failing", "inline", "adopt"} \/ call.then = "destroy"
OwnedInv == reconciliation => \A s \in Sessions : proc[s] = "alive" => Owner(s)

RuntimeInv ==
    /\ TypeOK /\ CallInv /\ HeldInv /\ SessionInv /\ DeadInv /\ RecoveryInv /\ OwnedInv
    /\ RunningGuestIsRecorded /\ ReceiptIsNeverDisowned /\ ToldStoppedIsStopped
---------------------------------------------------------------------------
(* Every step preserves it.  The actions that touch the index or many parts  *)
(* of the state have a lemma of their own.                                   *)

USE DEF RuntimeInv, HasTerminal, Calls, Keys, States, FinalizerStates, Unlaunched, LaunchPcs,
        StopPcs, Owner, durable, journal, held, owners, recovery, Call, At, Goto, Return, Idle,
        Fault, NoFault, Record, Killed, Release, StopEnds, FinalizerGoes, Unlock, ForgetDaemon

\* The index is finite, so its size is a number.
LEMMA IndexSize ==
    ASSUME TypeOK
    PROVE  /\ Cardinality(index) \in Nat
           /\ \A s \in Sessions :
                 /\ Cardinality(index \cup {s}) \in 0..(Cardinality(index) + 1)
                 /\ Cardinality(index \ {s}) \in 0..Cardinality(index)
           /\ Cardinality({}) = 0
  <1>1. IsFiniteSet(index)
    BY RuntimeAssumption, FS_Subset DEF TypeOK
  <1>2. Cardinality(index) \in Nat /\ Cardinality({}) = 0
    BY <1>1, FS_CardinalityType, FS_EmptySet
  <1>3. ASSUME NEW s \in Sessions
        PROVE  /\ Cardinality(index \cup {s}) \in 0..(Cardinality(index) + 1)
               /\ Cardinality(index \ {s}) \in 0..Cardinality(index)
    <2>1. /\ IsFiniteSet(index \cup {s}) /\ IsFiniteSet(index \ {s})
          /\ Cardinality(index \cup {s}) \in {Cardinality(index), Cardinality(index) + 1}
      BY <1>1, FS_AddElement, FS_Subset
    <2>2. Cardinality(index \ {s}) <= Cardinality(index)
      BY <1>1, FS_Subset
    <2>3. Cardinality(index \ {s}) \in Nat
      BY <2>1, FS_CardinalityType
    <2> QED
      BY <1>2, <2>1, <2>2, <2>3
  <1> QED
    BY <1>2, <1>3

\* adopt: the session changes its owner, from the call to the index.
LEMMA AdoptKeepsInv ==
    ASSUME RuntimeInv, adopt PROVE RuntimeInv'
  <1>1. CASE Cardinality(index) < MaxSessions
    <2>1. call.s \in Sessions /\ index' = index \cup {call.s} /\ call' = [call EXCEPT !.pc = "fresh"]
      BY <1>1 DEF adopt, TypeOK, CallInv
    <2>2. Cardinality(index \cup {call.s}) <= MaxSessions
      <3>1. /\ Cardinality(index) \in Nat
            /\ Cardinality(index \cup {call.s}) \in 0..(Cardinality(index) + 1)
        BY <2>1, IndexSize
      <3> QED
        BY <1>1, <3>1, RuntimeAssumption
    <2>3. TypeOK'
      BY <2>1, <2>2 DEF adopt, TypeOK
    <2> QED
      BY <2>1, <2>3, NoneAssumption DEF adopt, TypeOK, CallInv, HeldInv, SessionInv, DeadInv,
         RecoveryInv, OwnedInv, RunningGuestIsRecorded, ReceiptIsNeverDisowned,
         ToldStoppedIsStopped
  <1>2. CASE ~(Cardinality(index) < MaxSessions)
    <2>1. /\ call \in Calls /\ UNCHANGED index
          /\ call' = [call EXCEPT !.pc = "stop", !.then = "destroy"]
      BY <1>2 DEF adopt, TypeOK
    <2>2. call' = [pc |-> "stop", s |-> call.s, key |-> call.key, then |-> "destroy"]
      BY <2>1
    <2>3. TypeOK'
      BY <2>1, <2>2 DEF adopt, TypeOK
    <2>4. CallInv'
      BY <2>1, <2>2 DEF adopt, CallInv
    <2>5. HeldInv'
      BY <2>1, <2>2 DEF adopt, HeldInv
    <2>6. OwnedInv'
      BY <2>1, <2>2, NoneAssumption DEF adopt, OwnedInv
    <2> QED
      BY <2>1, <2>2, <2>3, <2>4, <2>5, <2>6, NoneAssumption DEF adopt, SessionInv, DeadInv,
         RecoveryInv, RunningGuestIsRecorded, ReceiptIsNeverDisowned, ToldStoppedIsStopped
  <1> QED
    BY <1>1, <1>2

\* serve_reply: a controller that is told of a launch was unaware of it.
LEMMA ServeReplyKeepsInv ==
    ASSUME RuntimeInv, serve_reply PROVE RuntimeInv'
  <1>1. TypeOK'
    BY DEF serve_reply, TypeOK, CallInv
  <1>2. \A s \in Sessions : controller'[s] # controller[s] =>
            /\ controller[s] = "unaware" /\ controller'[s] = "aware"
            /\ state[s] \notin {"created", "preparing"}
    BY DEF serve_reply, TypeOK, CallInv, SessionInv
  <1>3. SessionInv' /\ ToldStoppedIsStopped'
    BY <1>2 DEF serve_reply, TypeOK, SessionInv, ToldStoppedIsStopped
  <1>4. CallInv' /\ HeldInv' /\ DeadInv' /\ RecoveryInv' /\ OwnedInv'
    BY NoneAssumption DEF serve_reply, TypeOK, CallInv, HeldInv, DeadInv, RecoveryInv, OwnedInv
  <1> QED
    BY <1>1, <1>3, <1>4 DEF serve_reply, RunningGuestIsRecorded, ReceiptIsNeverDisowned

\* wait and cleanup: a session leaves the index when its finalizer is done.
LEMMA ReleaseKeepsInv ==
    ASSUME RuntimeInv, wait \/ (\E s \in Sessions : cleanup(s)) PROVE RuntimeInv'
  <1>1. CASE wait
    <2>1. call.s \in Sessions /\ index' = index \ {call.s}
      BY <1>1 DEF wait, TypeOK, CallInv
    <2>2. Cardinality(index \ {call.s}) <= MaxSessions
      <3>1. Cardinality(index) \in Nat /\ Cardinality(index \ {call.s}) \in 0..Cardinality(index)
        BY <2>1, IndexSize
      <3> QED
        BY <3>1, RuntimeAssumption DEF TypeOK
    <2>3. TypeOK'
      BY <1>1, <2>1, <2>2 DEF wait, TypeOK
    <2> QED
      BY <1>1, <2>1, <2>3 DEF wait, TypeOK, CallInv, HeldInv, SessionInv, DeadInv, RecoveryInv,
         OwnedInv, RunningGuestIsRecorded, ReceiptIsNeverDisowned, ToldStoppedIsStopped
  <1>2. ASSUME NEW s \in Sessions, cleanup(s) PROVE RuntimeInv'
    <2>1. Cardinality(index') <= MaxSessions
      BY <1>2, IndexSize, RuntimeAssumption, SMTT(30) DEF cleanup, TypeOK
    <2>2. TypeOK'
      BY <1>2, <2>1 DEF cleanup, TypeOK
    <2> QED
      BY <1>2, <2>2 DEF cleanup, TypeOK, CallInv, HeldInv, SessionInv, DeadInv, RecoveryInv,
         OwnedInv, RunningGuestIsRecorded, ReceiptIsNeverDisowned, ToldStoppedIsStopped
  <1> QED
    BY <1>1, <1>2

\* commit_terminal: the session of the new record runs no more.
LEMMA CommitKeepsInv ==
    ASSUME RuntimeInv, NEW s \in Sessions, commit_terminal(s) PROVE RuntimeInv'
  <1>1. TypeOK'
    <2>1. poisoned' \in BOOLEAN
      BY DEF commit_terminal, TypeOK
    <2>2. receipts' \subseteq Sessions /\ residue' \subseteq Sessions
      BY DEF commit_terminal, TypeOK
    <2>3. finalizer' \in [Sessions -> FinalizerStates] /\ faults' \in 0..MaxFaults
      BY RuntimeAssumption DEF commit_terminal, TypeOK
    <2> QED
      BY <2>1, <2>2, <2>3 DEF commit_terminal, TypeOK
  <1>2. proc[s] # "alive" /\ proc[s] # "held" /\ state[s] \in {"running", "stopping"}
        /\ s \notin receipts /\ managed[s] # "none"
    BY NoneAssumption DEF commit_terminal, TypeOK, SessionInv, DeadInv, CallInv, HeldInv
  <1>3. SessionInv' /\ DeadInv' /\ ReceiptIsNeverDisowned'
    BY <1>2 DEF commit_terminal, TypeOK, SessionInv, DeadInv, ReceiptIsNeverDisowned
  <1>4. CallInv' /\ HeldInv' /\ RecoveryInv' /\ OwnedInv'
    BY <1>2 DEF commit_terminal, TypeOK, CallInv, HeldInv, RecoveryInv, OwnedInv
  <1> QED
    BY <1>1, <1>3, <1>4 DEF commit_terminal, RunningGuestIsRecorded, ToldStoppedIsStopped

\* reconcile begins: every guest that runs is a candidate.
LEMMA ReconcileKeepsInv ==
    ASSUME RuntimeInv, reconcile PROVE RuntimeInv'
  <1>1. TypeOK'
    BY DEF reconcile, TypeOK
  <1>2. RecoveryInv' /\ OwnedInv' /\ CallInv' /\ HeldInv'
    BY NoneAssumption DEF reconcile, TypeOK, RecoveryInv, OwnedInv, RunningGuestIsRecorded,
       CallInv, HeldInv
  <1> QED
    BY <1>1, <1>2 DEF reconcile, SessionInv, DeadInv, RunningGuestIsRecorded,
       ReceiptIsNeverDisowned, ToldStoppedIsStopped

\* classify: a candidate is closed as exited only if its guest is gone, and as
\* failed only if it has no receipt.
LEMMA ClassifyKeepsInv ==
    ASSUME RuntimeInv, NEW s \in Sessions, classify(s) PROVE RuntimeInv'
  <1>1. TypeOK'
    <2>1. unresolved' \in BOOLEAN
      BY DEF classify, TypeOK
    <2> QED
      BY <2>1 DEF classify, TypeOK
  <1>2. ~reconciliation /\ proc[s] # "held" /\ proc'[s] # "alive"
    BY DEF classify, TypeOK, CallInv, HeldInv, DeadInv
  <1>3. SessionInv' /\ DeadInv' /\ ReceiptIsNeverDisowned' /\ RunningGuestIsRecorded'
    BY <1>2 DEF classify, TypeOK, SessionInv, DeadInv, RecoveryInv, ReceiptIsNeverDisowned,
       RunningGuestIsRecorded
  <1>4. CallInv' /\ HeldInv' /\ RecoveryInv' /\ OwnedInv' /\ ToldStoppedIsStopped'
    BY <1>2 DEF classify, TypeOK, CallInv, HeldInv, RecoveryInv, OwnedInv, ToldStoppedIsStopped
  <1> QED
    BY <1>1, <1>3, <1>4

\* The daemon dies: what it owned is forgotten, what it recorded is not.
LEMMA CrashKeepsInv ==
    ASSUME RuntimeInv, Crash PROVE RuntimeInv'
  <1>1. TypeOK'
    <2>1. Cardinality(index') <= MaxSessions
      BY IndexSize, RuntimeAssumption DEF Crash
    <2>2. crashes' \in 0..MaxCrashes
      BY RuntimeAssumption DEF Crash, TypeOK
    <2> QED
      BY <2>1, <2>2 DEF Crash, TypeOK
  <1> QED
    BY <1>1 DEF Crash, TypeOK, CallInv, HeldInv, SessionInv, DeadInv, RecoveryInv, OwnedInv,
       RunningGuestIsRecorded, ReceiptIsNeverDisowned, ToldStoppedIsStopped

\* RuntimeInv is inductive.
LEMMA RuntimeInvInductive ==
    ASSUME RuntimeInv, [Next]_vars PROVE RuntimeInv'
  <1> USE RuntimeAssumption, NoneAssumption DEF TypeOK, CallInv, HeldInv, SessionInv, DeadInv,
          RecoveryInv, OwnedInv, RunningGuestIsRecorded, ReceiptIsNeverDisowned,
          ToldStoppedIsStopped
  <1>1. ASSUME NEW s \in Sessions, start(s) PROVE RuntimeInv'
    BY <1>1 DEF start
  <1>2. CASE mark_starting
    BY <1>2 DEF mark_starting
  <1>3. CASE launch_pty_child
    BY <1>3 DEF launch_pty_child
  <1>4. CASE before_child_release
    BY <1>4 DEF before_child_release
  <1>5. CASE release_child
    BY <1>5 DEF release_child
  <1>6. CASE launch_failed
    BY <1>6 DEF launch_failed
  <1>7. ASSUME NEW s \in Sessions, NEW key \in ClientKeys, handle_stop_session(s, key) PROVE RuntimeInv'
    BY <1>7 DEF handle_stop_session
  <1>8. CASE stop
    BY <1>8 DEF stop
  <1>9. CASE before_stop
    BY <1>9 DEF before_stop
  <1>10. CASE request_stop
    BY <1>10 DEF request_stop
  <1>11. ASSUME NEW s \in Sessions, kill_cgroup(s) PROVE RuntimeInv'
    BY <1>11 DEF kill_cgroup
  <1>12. ASSUME NEW s \in Sessions, wait_for_terminal(s) PROVE RuntimeInv'
    BY <1>12 DEF wait_for_terminal
  <1>13. ASSUME NEW s \in Sessions, finalize(s) PROVE RuntimeInv'
    BY <1>13 DEF finalize
  <1>14. ASSUME NEW s \in Sessions, lock_transition(s) PROVE RuntimeInv'
    BY <1>14 DEF lock_transition
  <1>15. ASSUME NEW s \in Sessions, wait_refinement(s) PROVE RuntimeInv'
    BY <1>15 DEF wait_refinement
  <1>16. ASSUME NEW s \in Sessions, mark_exited(s) PROVE RuntimeInv'
    BY <1>16 DEF mark_exited
  <1>17. ASSUME NEW s \in Sessions, close_failed(s) PROVE RuntimeInv'
    BY <1>17 DEF close_failed
  <1>18. CASE reconcile_fails
    BY <1>18 DEF reconcile_fails
  <1>19. CASE reconcile_ends
    BY <1>19 DEF reconcile_ends
  <1>20. CASE shutdown
    BY <1>20 DEF shutdown
  <1>21. ASSUME NEW s \in Sessions, destroy(s) PROVE RuntimeInv'
    BY <1>21 DEF destroy
  <1>22. CASE exit_daemon
    BY <1>22 DEF exit_daemon
  <1>23. ASSUME NEW s \in Sessions, guest_exits(s) PROVE RuntimeInv'
    BY <1>23 DEF guest_exits
  <1>24. ASSUME NEW s \in Sessions, pid_reused(s) PROVE RuntimeInv'
    BY <1>24 DEF pid_reused
  <1>25. ASSUME NEW s \in Sessions, pid_freed(s) PROVE RuntimeInv'
    BY <1>25 DEF pid_freed
  <1>26. CASE UNCHANGED vars
    BY <1>26 DEF vars
  <1> QED
    BY <1>1, <1>2, <1>3, <1>4, <1>5, <1>6, <1>7, <1>8, <1>9, <1>10, <1>11, <1>12, <1>13,
       <1>14, <1>15, <1>16, <1>17, <1>18, <1>19, <1>20, <1>21, <1>22, <1>23, <1>24, <1>25,
       <1>26, AdoptKeepsInv, ServeReplyKeepsInv, ReleaseKeepsInv, CommitKeepsInv,
       ReconcileKeepsInv, ClassifyKeepsInv, CrashKeepsInv DEF Next, Server, Finalizer

---------------------------------------------------------------------------
(* The theorems.                                                           *)

\* RuntimeInv holds in every reachable state, for any number of sessions,
\* failing writes and crashes.
THEOREM RuntimeInvariant == Spec => []RuntimeInv
  <1>1. Init => RuntimeInv
    <2> SUFFICES ASSUME Init PROVE RuntimeInv
      OBVIOUS
    <2>1. TypeOK
      <3>1. Cardinality(index) <= MaxSessions
        BY RuntimeAssumption, FS_EmptySet DEF Init
      <3>2. faults \in 0..MaxFaults /\ crashes \in 0..MaxCrashes
        BY RuntimeAssumption DEF Init
      <3> QED
        BY <3>1, <3>2 DEF Init, TypeOK
    <2> QED
      BY <2>1 DEF Init, CallInv, HeldInv, SessionInv, DeadInv, RecoveryInv, OwnedInv,
         RunningGuestIsRecorded, ReceiptIsNeverDisowned, ToldStoppedIsStopped
  <1> QED
    BY <1>1, RuntimeInvInductive, PTL DEF Spec

\* No guest runs unrecorded or, once the daemon has reconciled, unowned
\* (linux_session_executor.cpp, linux_session_recovery.cpp).
THEOREM GuestsAccounted == Spec => []GuestsAreAccountedFor
  <1>1. RuntimeInv => GuestsAreAccountedFor
    BY DEF GuestsAreAccountedFor, RunningGuestIsOwned, OwnedInv
  <1> QED
    BY <1>1, RuntimeInvariant, PTL

\* A committed receipt is never disowned by a failed record, and a controller
\* told that its session stopped was told the truth.
THEOREM EndsTold == Spec => []EndsAreTrue
  <1>1. RuntimeInv => EndsAreTrue
    BY DEF EndsAreTrue
  <1> QED
    BY <1>1, RuntimeInvariant, PTL

\* No step of any thread sets a guest whose controller knows of it to stopping
\* unless that controller asked or the daemon is shutting down: before_stop is
\* the only writer of that record, and CallInv says who got there.
THEOREM StopsAreAsked == Spec => NoUnaskedStop
  <1>1. RuntimeInv /\ [Next]_vars =>
          [\A s \in Sessions : state[s] = "running" /\ state'[s] = "stopping" =>
              controller[s] # "aware" \/ shutting]_vars
    <2> SUFFICES ASSUME RuntimeInv, Next, NEW s \in Sessions,
                        state[s] = "running", state'[s] = "stopping"
                 PROVE  controller[s] # "aware" \/ shutting
      OBVIOUS
    <2> USE DEF TypeOK, CallInv
    <2>1. CASE before_stop
      BY <2>1 DEF before_stop
    <2>2. CASE \E t \in Sessions : classify(t) \/ destroy(t)
      BY <2>2 DEF classify, destroy
    <2>3. CASE Server /\ ~before_stop /\ ~\E t \in Sessions : classify(t) \/ destroy(t)
      BY <2>3 DEF Server, mark_starting, launch_pty_child, before_child_release, release_child,
         launch_failed, adopt, serve_reply, stop, request_stop, wait, reconcile_ends,
         exit_daemon
    <2>4. CASE \E t \in Sessions : start(t) \/ cleanup(t) \/ Finalizer(t)
      BY <2>4 DEF start, cleanup, Finalizer, wait_for_terminal, finalize, lock_transition,
         wait_refinement, commit_terminal, mark_exited, close_failed
    <2>5. CASE ~(Server \/ \E t \in Sessions : start(t) \/ cleanup(t) \/ Finalizer(t))
      BY <2>5 DEF Next, handle_stop_session, reconcile, reconcile_fails, kill_cgroup,
         guest_exits, pid_reused, pid_freed, Crash, shutdown
    <2> QED
      BY <2>1, <2>2, <2>3, <2>4, <2>5
  <1> QED
    BY <1>1, RuntimeInvariant, PTL DEF Spec, NoUnaskedStop
=============================================================================
