------------------------- MODULE SessionLifecycle -------------------------
(***************************************************************************)
(* What the session registry promises, with no file, no index and no       *)
(* crash: each session moves once through the phases of its life, under    *)
(* one plan, one authorization and one execution identity, and never       *)
(* leaves exited or failed.  Time only appears as the authorization's      *)
(* window, which the start has to fall into.                               *)
(***************************************************************************)
EXTENDS Integers

CONSTANTS Sessions, Plans, AuthIds, Execs, Procs, Instants, None

VARIABLE session   \* the visible life of each session

Absent == [state |-> "absent", plan |-> None, auth |-> None, from |-> 0,
           until |-> 0, exec |-> None, startedAt |-> 0, proc |-> None]

Init == session = [s \in Sessions |-> Absent]

Become(s, view) == session' = [session EXCEPT ![s] = view]

\* A session is created under a plan it keeps for life.
Create(s, p) ==
    /\ session[s] = Absent
    /\ Become(s, [Absent EXCEPT !.state = "created", !.plan = p])

\* An authorization is consumed by one reservation.
Reserve(s, id) ==
    /\ session[s].state = "created"
    /\ \E from, until \in Instants :
          /\ from < until
          /\ Become(s, [session[s] EXCEPT !.state = "preparing", !.auth = id,
                                          !.from = from, !.until = until])

\* The execution starts inside the authorization's window.
Start(s, exec) ==
    /\ session[s].state = "preparing"
    /\ \E t \in session[s].from .. (session[s].until - 1) :
          Become(s, [session[s] EXCEPT !.state = "starting", !.exec = exec,
                                       !.startedAt = t])

Run(s, proc) ==
    /\ session[s].state = "starting"
    /\ Become(s, [session[s] EXCEPT !.state = "running", !.proc = proc])

Stop(s) ==
    /\ session[s].state = "running"
    /\ Become(s, [session[s] EXCEPT !.state = "stopping"])

Exit(s) ==
    /\ session[s].state \in {"running", "stopping"}
    /\ Become(s, [session[s] EXCEPT !.state = "exited"])

Fail(s) ==
    /\ session[s].state \in {"starting", "running", "stopping"}
    /\ Become(s, [session[s] EXCEPT !.state = "failed"])

Next ==
    \E s \in Sessions :
       \/ \E p \in Plans : Create(s, p)
       \/ \E id \in AuthIds : Reserve(s, id)
       \/ \E exec \in Execs : Start(s, exec)
       \/ \E proc \in Procs \cup {None} : Run(s, proc)
       \/ Stop(s)
       \/ Exit(s)
       \/ Fail(s)

Spec == Init /\ [][Next]_session
===========================================================================
