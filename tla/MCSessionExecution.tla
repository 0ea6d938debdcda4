-------------------------- MODULE MCSessionExecution --------------------------
(* How a session is carried out, here or on a remote host; the two share no *)
(* state, so one at a time is exercised.                                    *)
(* Here: one session, one caller of stop, a ring smaller than the guest's   *)
(* output and an output limit the guest can pass.                           *)
(* There: a client that prepares, starts, reads, waits, stops and cleans up *)
(* one session in two epochs, repeats its keys with the same and with other *)
(* content, and sends what the executor refuses.                            *)
EXTENDS ManagedSession, RemoteValidation

VARIABLE active   \* "managed" or "remote"

Bound(r) == [r EXCEPT !.digest = canonical_payload(r)]
Frame(method, epoch, key, ttl) ==
    [method |-> method, sid |-> "s", epoch |-> epoch, key |-> key, ttl |-> ttl,
     desc |-> "fixed", digest |-> <<>>, fields |-> method = "read",
     cursor |-> 0, max |-> 1]
Good(method, epoch, key, ttl) == Bound(Frame(method, epoch, key, ttl))

MCRequests ==
    { Good("prepare", 1, "p", 2), Good("prepare", 1, "p2", 2), Good("prepare", 2, "p", 2),
      Good("start", 1, "b", 2), Good("start", 1, "b2", 2),
      Good("read", 1, "r", 2), Good("wait", 1, "w", 2), Good("wait", 1, "w2", 2),
      Good("stop", 1, "w", 2), Good("cleanup", 1, "c", 2),
      Frame("stop", 1, "y", 1), Frame("malformed", 1, "y", 1), Good("health", 1, "h", 1),
      Bound([Frame("stop", 1, "w", 1) EXCEPT !.desc = "other"]) }

MCInit == ManagedInit /\ RemoteInit /\ active \in {"managed", "remote"}
MCNext ==
    \/ active = "managed" /\ ManagedNext /\ UNCHANGED <<active, remoteVars>>
    \/ active = "remote" /\ RemoteNext /\ UNCHANGED <<active, managedVars>>

\* The threads of the active part are scheduled, a guest that is dead hangs up,
\* and time passes.
Here == active = "managed"
There == active = "remote"
MCFairSpec ==
    /\ MCInit /\ [][MCNext]_<<active, managedVars, remoteVars>>
    /\ WF_managedVars(Here /\ watchdog_loop) /\ WF_managedVars(Here /\ Poller)
    /\ WF_managedVars(Here /\ Drainer) /\ WF_managedVars(Here /\ Waiter)
    /\ WF_managedVars(Here /\ GuestHangsUp /\ ~Alive)
    /\ \A t \in Threads : WF_managedVars(Here /\ kill_cgroup(t))
    /\ \A p \in Stoppers :
          WF_managedVars(Here /\ before_stop(p)) /\ WF_managedVars(Here /\ request_stop(p))
    /\ WF_remoteVars(There /\ Main) /\ WF_remoteVars(There /\ Watchdog)
    /\ WF_remoteVars(There /\ Tick)

\* A managed session ends with a published result, unless the kill of its
\* cgroup failed; no container outlives its lifetime, unless docker fails.
SessionsEnd == []<>(SessionEnded /\ ContainersEnded)
===============================================================================
