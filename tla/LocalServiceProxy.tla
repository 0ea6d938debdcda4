--------------------------- MODULE LocalServiceProxy ---------------------------
(* The local-service proxy of one Linux session: a factory pins host service *)
(* sockets by identity, a session gives the guest either alias sockets in a *)
(* private directory ("path") or one inherited stream, workers carry one     *)
(* bounded exchange at a time and audit it in three phases, and the          *)
(* destructor removes what the session made.                                 *)
(* Identities are numbers: 0 is no object, 1 the pinned or own one, larger   *)
(* ones are objects that took its name later. An identity never returns:     *)
(* docs/architecture.md trusts same-UID processes not to re-create one.      *)
EXTENDS Integers, Sequences, FiniteSets, SequencesExt

CONSTANTS
    Jobs,         \* the configurations and sessions to try; its conns and
                  \* frames bound the guest's connections and writes
    Conns,        \* guest connections
    MaxReplace,   \* bound: objects another process puts in place of one
    MaxFaults     \* bound: failing system calls and audit appends

\* Connection 1 is the inherited stream, and 0 stands for no alias.
ASSUME ServiceAssumption ==
    /\ Conns \subseteq Nat /\ 1 \in Conns
    /\ \A j \in Jobs : /\ j.frames \in Nat
                       /\ \A e \in ToSet(j.endpoints) : e.alias \in Nat \ {0}

VARIABLES
    job,          \* the options of the factory and of the session
    phase,        \* where prepare_session and the destructor stand
    bound,        \* the alias whose listener is being made, with its rollback
    dir,          \* the object the session directory's name refers to
    home,         \* the recorded identity of the directory, 0 before
    socks,        \* the objects in the session's own directory
    listeners,    \* the recorded identity of each listener
    undo,         \* a removal: the listeners still to look at, the name last
                  \* looked at and the identity seen there
    host,         \* the objects at the endpoints' host paths
    stopAsked,    \* request_stop was called
    workers,      \* the workers
    conn,         \* the connections, as the guest sees them
    audit,        \* the events the sink recorded
    released,     \* exchanges whose response reached the guest, even in part
    contacted,    \* upstream peers that were sent a request
    marks,        \* the responses on the stream when the guest first pipelined
    replaced, faults

made == <<dir, home, socks, listeners, undo>>
vars == <<job, phase, bound, made, host, stopAsked, workers, conn, audit, released,
           contacted, marks, replaced, faults>>
history == <<audit, released, contacted, marks>>

--------------------------------------------------------------------------------
(* Construction: what the factory accepts. *)

\* is_sorted with adjacent_find: strictly increasing.
Ascending(s) == \A i, j \in DOMAIN s : i < j => s[i] < s[j]

adapter_valid(o) ==
    \/ o.adapter = <<>>
    \/ LET a == o.adapter[1] IN
       /\ (a.transport = "inherited") <=> (a.alias # 0)
       /\ a.runtimes # {} /\ a.channels = "admitted"

\* Every endpoint below an owner-only parent, no two of them one object.
endpoints_valid(o) ==
    /\ Ascending([i \in DOMAIN o.endpoints |-> o.endpoints[i].alias])
    /\ \A i \in DOMAIN o.endpoints : o.endpoints[i].private /\ o.endpoints[i].runtimes # {}
    /\ \A i, j \in DOMAIN o.endpoints :
         o.endpoints[i].object = o.endpoints[j].object => i = j

create(o) ==
    /\ adapter_valid(o) /\ o.audited /\ o.timeout \in 1..60000
    /\ o.concurrency \in 1..16 /\ Len(o.endpoints) \in 1..16 /\ o.root
    /\ endpoints_valid(o)
    /\ o.adapter # <<>> /\ o.adapter[1].transport = "inherited" =>
         \E e \in ToSet(o.endpoints) :
            e.alias = o.adapter[1].alias /\ o.adapter[1].runtimes \subseteq e.runtimes

inherited == job.adapter # <<>> /\ job.adapter[1].transport = "inherited"
Endpoints == ToSet(job.endpoints)

\* The endpoints of this runtime; an inherited stream has the adapter's alone.
Selected ==
    { e \in Endpoints : /\ job.runtime \in e.runtimes
                        /\ inherited => e.alias = job.adapter[1].alias }
Aliases == { e.alias : e \in Endpoints }
Served == { e.alias : e \in Selected }
Workers == IF inherited THEN 1..Cardinality(Served) ELSE 1..job.concurrency

endpoint_current(a) == host[a] = 1
operational == \A a \in Aliases : endpoint_current(a)

\* The directories above an endpoint, as the factory recorded them.
directory_ancestors(e) == e.above

\* A grant may name neither an endpoint nor a directory above one.
validate_path_grants ==
    /\ operational
    /\ \A g \in job.grants : \A e \in Endpoints :
         g # e.object /\ g \notin directory_ancestors(e)

Idle == [pc |-> "off", conn |-> 0, alias |-> 0, peer |-> 0, late |-> FALSE, n |-> 0]
NoConn == [state |-> "none", alias |-> 0, in |-> <<>>, out |-> 0, wrote |-> 0]

NoBound == [alias |-> 0, step |-> "", id |-> 0]
NoUndo == [todo |-> {}, alias |-> 0, seen |-> 0]

Init ==
    /\ job \in { j \in Jobs : create(j) }
    /\ phase = "new" /\ bound = NoBound
    /\ dir = 0 /\ home = 0 /\ undo = NoUndo
    /\ socks = [a \in Aliases |-> 0] /\ listeners = [a \in Aliases |-> 0]
    /\ host = [a \in Aliases |-> 1]
    /\ stopAsked = FALSE
    /\ workers = [i \in Workers |-> Idle]
    /\ conn = [c \in Conns |-> NoConn]
    /\ audit = {} /\ released = {} /\ contacted = {} /\ marks = -1
    /\ replaced = 0 /\ faults = 0

CallFails == faults < MaxFaults /\ faults' = faults + 1

--------------------------------------------------------------------------------
(* prepare_session. *)

\* Endpoints, grants and the runtime's selection are checked before anything
\* is made.
Admit ==
    /\ phase = "new"
    /\ phase' = IF /\ validate_path_grants /\ Served # {}
                THEN IF inherited THEN "streams" ELSE "mkdir"
                ELSE "gone"
    /\ UNCHANGED <<job, bound, made, host, stopAsked, workers, conn, history, replaced, faults>>

\* One connected pair for the adapter's alias, kept until it is handed over.
create_inherited_socketpair ==
    [NoConn EXCEPT !.state = "held", !.alias = CHOOSE a \in Served : TRUE]

\* The stream and its recorded identities; the worker starts with it.
MakeStream ==
    /\ phase = "streams"
    /\ \/ /\ phase' = "starting" /\ UNCHANGED faults
          /\ conn' = [c \in Conns |-> IF c = 1 THEN create_inherited_socketpair ELSE conn[c]]
       \/ CallFails /\ phase' = "gone" /\ UNCHANGED conn
    /\ UNCHANGED <<job, bound, made, host, stopAsked, workers, history, replaced>>

MakeDirectory ==
    /\ phase = "mkdir"
    /\ \/ phase' = "opendir" /\ dir' = 1 /\ UNCHANGED faults
       \/ CallFails /\ phase' = "gone" /\ UNCHANGED dir
    /\ UNCHANGED <<job, bound, home, socks, listeners, undo, host, stopAsked, workers, conn,
                   history, replaced>>

\* openat, fstat and the copy of the root's descriptor. What has the name now
\* becomes the session's directory, when it is a private one of this user.
OpenDirectory ==
    /\ phase = "opendir"
    /\ \/ dir # 0 /\ phase' = "binding" /\ home' = dir /\ UNCHANGED faults
       \/ /\ IF dir = 1 THEN CallFails ELSE UNCHANGED faults
          /\ phase' = "discard" /\ UNCHANGED home
    /\ UNCHANGED <<job, bound, dir, socks, listeners, undo, host, stopAsked, workers, conn,
                   history, replaced>>

\* A directory that was not taken is removed by its name; another one can
\* have entries of its own.
DiscardDirectory ==
    /\ phase = "discard" /\ phase' = "gone"
    /\ \E id \in {0, dir} : (dir = 1 => id = 0) /\ dir' = id
    /\ UNCHANGED <<job, bound, home, socks, listeners, undo, host, stopAsked, workers, conn,
                   history, replaced, faults>>

\* bind puts the socket in the directory with the mode the umask leaves.
BindListener ==
    /\ phase = "binding" /\ bound.alias = 0
    /\ \E a \in Served :
         /\ listeners[a] = 0
         /\ \A b \in Served : b < a => listeners[b] # 0
         /\ \/ /\ socks[a] = 0 /\ socks' = [socks EXCEPT ![a] = 1]
               /\ bound' = [alias |-> a, step |-> "remember", id |-> 0]
               /\ UNCHANGED <<phase, faults>>
            \/ /\ IF socks[a] = 0 THEN CallFails ELSE UNCHANGED faults
               /\ phase' = "stopping" /\ UNCHANGED <<socks, bound>>
    /\ UNCHANGED <<job, dir, home, listeners, undo, host, stopAsked, workers, conn, history,
                   replaced>>

\* bound_socket_rollback: the identity of the socket at the name, when there is
\* one and it can be read.
RememberListener ==
    /\ phase = "binding" /\ bound.alias # 0 /\ bound.step = "remember"
    /\ \/ bound' = [bound EXCEPT !.step = "chmod", !.id = socks[bound.alias]] /\ UNCHANGED faults
       \/ /\ IF socks[bound.alias] = 1 THEN CallFails ELSE UNCHANGED faults
          /\ bound' = [bound EXCEPT !.step = "chmod"]
    /\ UNCHANGED <<job, phase, made, host, stopAsked, workers, conn, history, replaced>>

\* The identity of what now stands at the name.
inspect_socket(a) == socks[a]

\* chmod, listen and inspect_socket. The identity of the rollback has the mode
\* before chmod: where chmod changed it, the rollback knows nothing any more.
FinishListener ==
    /\ phase = "binding" /\ bound.alias # 0
    /\ LET a == bound.alias IN
       \/ /\ bound.step = "chmod" /\ socks[a] # 0
          /\ bound' = [bound EXCEPT !.step = "listen"]
          /\ UNCHANGED <<listeners, faults>>
       \/ /\ bound.step = "listen" /\ inspect_socket(a) # 0
          /\ listeners' = [listeners EXCEPT ![a] = inspect_socket(a)]
          /\ bound' = NoBound /\ UNCHANGED faults
       \/ /\ bound.step \in {"chmod", "listen"}
          /\ IF socks[a] = 0 THEN UNCHANGED faults ELSE CallFails
          /\ \E id \in {0, bound.id} :
               /\ bound.step = "chmod" => id = bound.id
               /\ bound' = [bound EXCEPT !.step = "undo", !.id = id]
          /\ UNCHANGED listeners
    /\ UNCHANGED <<job, phase, dir, home, socks, undo, host, stopAsked, workers, conn, history,
                   replaced>>

\* ~bound_socket_rollback: removes the socket it remembers.
rollback(a) == bound.id # 0 /\ socks[a] = bound.id

\* A removal in two calls: the look at the name, then the unlink of whatever
\* has the name by then; another object need not be one that unlink removes.
Look(a) == undo' = [undo EXCEPT !.todo = @ \ {a}, !.alias = a, !.seen = socks[a]]
Unlink ==
    /\ \E id \in {0, socks[undo.alias]} :
         /\ socks[undo.alias] = undo.seen => id = 0
         /\ socks' = [socks EXCEPT ![undo.alias] = id]
    /\ undo' = [undo EXCEPT !.alias = 0, !.seen = 0]

RollBack ==
    /\ phase = "binding" /\ bound.step = "undo"
    /\ \/ undo.alias = 0 /\ rollback(bound.alias) /\ Look(bound.alias) /\ UNCHANGED <<phase, socks>>
       \/ undo.alias = 0 /\ ~rollback(bound.alias) /\ phase' = "stopping" /\ UNCHANGED <<socks, undo>>
       \/ undo.alias # 0 /\ Unlink /\ phase' = "stopping"
    /\ UNCHANGED <<job, bound, dir, home, listeners, host, stopAsked, workers, conn, history,
                   replaced, faults>>

EndBinding ==
    /\ phase = "binding" /\ bound.alias = 0 /\ \A a \in Served : listeners[a] # 0
    /\ phase' = "starting"
    /\ UNCHANGED <<job, bound, made, host, stopAsked, workers, conn, history, replaced, faults>>

\* The workers start one by one and run at once; a thread that cannot be made
\* unwinds the session with the others already running.
StartWorker ==
    /\ phase = "starting"
    /\ LET idle == { i \in Workers : workers[i].pc = "off" } IN
       \/ /\ idle # {}
          /\ LET i == CHOOSE x \in idle : \A y \in idle : x <= y IN
             workers' = [workers EXCEPT ![i] = [@ EXCEPT !.pc = "poll",
                                                         !.conn = IF inherited THEN 1 ELSE 0]]
          /\ phase' = IF Cardinality(idle) = 1 THEN "ready" ELSE phase
          /\ UNCHANGED faults
       \/ CallFails /\ phase' = "stopping" /\ UNCHANGED workers
    /\ UNCHANGED <<job, bound, made, host, stopAsked, conn, history, replaced>>

\* mount() clones the session's own directory; release_inherited_streams hands
\* over the guest's end while the endpoint is the pinned one.
HandOver ==
    /\ phase = "ready"
    /\ \/ /\ ~inherited
          /\ phase' = "serving" /\ UNCHANGED conn
       \/ /\ inherited
          /\ IF \A a \in Served : endpoint_current(a)
             THEN phase' = "serving" /\ conn' = [conn EXCEPT ![1].state = "open"]
             ELSE phase' = "stopping" /\ UNCHANGED conn
    /\ UNCHANGED <<job, bound, made, host, stopAsked, workers, history, replaced, faults>>

--------------------------------------------------------------------------------
(* The guest and the other processes of the host. *)

GuestConnect(c) ==
    /\ phase = "serving" /\ ~inherited /\ conn[c].state = "none" /\ c <= job.conns
    /\ \E a \in Served :
         /\ socks[a] = 1 /\ listeners[a] = 1 /\ ~stopAsked
         /\ conn' = [conn EXCEPT ![c].state = "queued", ![c].alias = a]
    /\ UNCHANGED <<job, phase, bound, made, host, stopAsked, workers, history, replaced, faults>>

\* A frame is a well-formed one or one the framing refuses. A frame written on
\* the stream before the last answer arrived is pipelined.
GuestWrite(c) ==
    /\ conn[c].state \in {"queued", "open"} /\ conn[c].wrote < job.frames
    /\ \E f \in {"good", "bad"} : conn' = [conn EXCEPT ![c].in = Append(@, f), ![c].wrote = @ + 1]
    /\ marks' = IF inherited /\ marks = -1 /\ conn[c].wrote > conn[c].out
                THEN conn[c].out ELSE marks
    /\ UNCHANGED <<job, phase, bound, made, host, stopAsked, workers, audit, released,
                   contacted, replaced, faults>>

GuestClose(c) ==
    /\ conn[c].state \in {"queued", "open"} /\ "eof" \notin ToSet(conn[c].in)
    /\ conn' = [conn EXCEPT ![c].in = Append(@, "eof"), ![c].wrote = job.frames]
    /\ UNCHANGED <<job, phase, bound, made, host, stopAsked, workers, history, replaced, faults>>

\* Another process takes an endpoint's, a listener's or the directory's name.
Replace ==
    /\ replaced < MaxReplace /\ replaced' = replaced + 1 /\ phase # "gone"
    /\ \/ /\ \E a \in Aliases, id \in {0, replaced + 2} :
               host[a] # 0 /\ host' = [host EXCEPT ![a] = id]
          /\ UNCHANGED <<dir, socks>>
       \/ /\ dir # 0
          /\ \E id \in {0, replaced + 2} : dir' = id
          /\ UNCHANGED <<host, socks>>
       \/ /\ \E a \in Aliases, id \in {0, replaced + 2} :
               home # 0 /\ socks[a] # id /\ socks' = [socks EXCEPT ![a] = id]
          /\ UNCHANGED <<host, dir>>
    /\ UNCHANGED <<job, phase, bound, home, listeners, undo, stopAsked, workers, conn, history,
                   faults>>

--------------------------------------------------------------------------------
(* A worker's exchange. *)

\* Mutant: a wait ends only when the peer acts.
interruption_never(i) == FALSE
\* interruption(): cancellation and the deadline end every wait.
interruption(i) == stopAsked \/ workers[i].late

Exchange(i) == <<workers[i].conn, workers[i].n>>
Goto(i, pc) == workers' = [workers EXCEPT ![i].pc = pc]
quiet == <<job, phase, bound, made, host, stopAsked, replaced>>

\* The absolute deadline of the exchange passes.
Expire(i) ==
    /\ workers[i].pc \notin {"off", "poll", "exit"} /\ ~workers[i].late
    /\ workers' = [workers EXCEPT ![i].late = TRUE]
    /\ UNCHANGED <<quiet, conn, history, faults>>

\* worker(): poll, accept4 and serve_connection, any ready listener in turn.
Accept(i) ==
    /\ ~inherited /\ workers[i].pc = "poll" /\ ~stopAsked
    /\ \E c \in Conns :
         /\ conn[c].state = "queued"
         /\ conn' = [conn EXCEPT ![c].state = "open"]
         /\ workers' = [workers EXCEPT ![i] = [Idle EXCEPT !.pc = "receive", !.conn = c,
                                               !.alias = conn[c].alias, !.n = 1]]
    /\ UNCHANGED <<quiet, history, faults>>

\* inherited_worker(): the stream is readable; the exchange's deadline starts.
Wake(i) ==
    /\ inherited /\ workers[i].pc = "poll" /\ ~stopAsked /\ conn[1].in # <<>>
    /\ workers' = [workers EXCEPT ![i] = [Idle EXCEPT !.pc = "receive", !.conn = 1,
                                          !.alias = conn[1].alias, !.n = workers[i].n + 1]]
    /\ UNCHANGED <<quiet, conn, history, faults>>

\* Leaving the loop shuts the stream down; a served connection is closed.
Leave(c) == [conn EXCEPT ![c].state = "closed"]

EndWorker(i) ==
    /\ workers[i].pc = "poll" /\ stopAsked
    /\ Goto(i, "exit")
    /\ conn' = IF inherited THEN Leave(1) ELSE conn
    /\ UNCHANGED <<quiet, history, faults>>

\* adopt refuses a descriptor that is no Unix stream of this user: a pathname
\* connection appends its failure, the stream's worker leaves.
AdoptFails(i) ==
    /\ workers[i].pc = "receive" /\ (inherited => workers[i].n = 1) /\ CallFails
    /\ Goto(i, IF inherited THEN "leave" ELSE "failed")
    /\ UNCHANGED <<quiet, conn, history>>

\* A frame with a length in bounds and all of its bytes.
receive_frame(f) == f = "good"

\* receive_frame, with the first boundary check of an inherited stream.
ReceiveFrame(i) ==
    /\ workers[i].pc = "receive"
    /\ LET c == workers[i].conn IN
       \/ /\ interruption(i)
          /\ Goto(i, IF inherited /\ stopAsked THEN "leave" ELSE "failed") /\ UNCHANGED conn
       \/ /\ ~interruption(i) /\ conn[c].in # <<>>
          /\ conn' = [conn EXCEPT ![c].in = Tail(@)]
          /\ Goto(i, IF receive_frame(Head(conn[c].in)) THEN "boundary1" ELSE "failed")
    /\ UNCHANGED <<quiet, history, faults>>

\* request_boundary_clean: nothing queued on the stream, its end included.
boundary_clean(i) == conn[workers[i].conn].in = <<>>

\* The four boundary checks; a pathname connection has none.
Boundary(i) ==
    /\ workers[i].pc \in {"boundary1", "boundary2", "boundary3", "boundary4"}
    /\ Goto(i, IF inherited /\ ~boundary_clean(i) THEN "failed"
               ELSE CASE workers[i].pc = "boundary1" -> "check"
                      [] workers[i].pc = "boundary2" -> "pending"
                      [] workers[i].pc = "boundary3" -> "send"
                      [] OTHER -> "delivered")
    /\ UNCHANGED <<quiet, conn, history, faults>>

\* connect_endpoint: the identity is checked before and after connect(2).
Connect(i) ==
    LET a == workers[i].alias IN
    /\ \/ /\ workers[i].pc = "check"
          /\ Goto(i, IF endpoint_current(a) THEN "connect" ELSE "failed")
       \/ /\ workers[i].pc = "connect" /\ host[a] # 0 /\ ~interruption(i)
          /\ workers' = [workers EXCEPT ![i].pc = "recheck", ![i].peer = host[a]]
       \/ /\ workers[i].pc = "connect" /\ (host[a] = 0 \/ interruption(i))
          /\ Goto(i, "failed")
    /\ UNCHANGED <<quiet, conn, history, faults>>

\* Mutant: the identity is checked before connect alone.
Recheck_none(i) == /\ workers[i].pc = "recheck" /\ Goto(i, "forward")
                   /\ UNCHANGED <<quiet, conn, history, faults>>
Recheck(i) == /\ workers[i].pc = "recheck"
              /\ Goto(i, IF endpoint_current(workers[i].alias) THEN "forward" ELSE "failed")
              /\ UNCHANGED <<quiet, conn, history, faults>>

\* The request goes up and the response comes back, or the service fails.
Forward(i) ==
    /\ workers[i].pc = "forward"
    /\ IF interruption(i) THEN Goto(i, "failed") /\ UNCHANGED <<contacted, faults>>
       ELSE /\ contacted' = contacted \cup {workers[i].peer}
            /\ \/ Goto(i, "boundary2") /\ UNCHANGED faults
               \/ Goto(i, "failed") /\ CallFails
    /\ UNCHANGED <<quiet, conn, audit, released, marks>>

\* append_delivery_audit: nothing is appended past the deadline, and an append
\* may fail; the deadline is read again after it.
append_delivery_audit(i, event) ==
    \/ ~workers[i].late /\ audit' = audit \cup {<<Exchange(i), event>>} /\ UNCHANGED faults
    \/ ~workers[i].late /\ CallFails /\ UNCHANGED audit
    \/ workers[i].late /\ UNCHANGED <<audit, faults>>

Pending(i) ==
    /\ workers[i].pc = "pending"
    /\ append_delivery_audit(i, "delivery_pending")
    /\ Goto(i, "gate")
    /\ UNCHANGED <<quiet, conn, released, contacted, marks>>

\* Recorded and still in time; a pathname connection ends without a further
\* event, the stream appends its failure.
Gate(i) ==
    /\ workers[i].pc = "gate"
    /\ Goto(i, IF <<Exchange(i), "delivery_pending">> \in audit /\ ~workers[i].late THEN "boundary3"
               ELSE IF inherited THEN "failed" ELSE "leave")
    /\ UNCHANGED <<quiet, conn, history, faults>>

\* send_frame: whole, or cut off by the deadline, the stop or a closed guest.
Send(i) ==
    /\ workers[i].pc = "send"
    /\ LET c == workers[i].conn IN
       \/ /\ ~interruption(i)
          /\ conn' = [conn EXCEPT ![c].out = @ + 1]
          /\ released' = released \cup {Exchange(i)} /\ Goto(i, "boundary4")
       \/ /\ interruption(i) \/ "eof" \in ToSet(conn[c].in)
          /\ UNCHANGED <<conn, released>> /\ Goto(i, "failed")
       \/ /\ ~interruption(i) /\ UNCHANGED conn
          /\ released' = released \cup {Exchange(i)}
          /\ workers' = [workers EXCEPT ![i].pc = "failed", ![i].late = TRUE]
    /\ UNCHANGED <<quiet, audit, contacted, marks, faults>>

\* The closing event. A served connection is closed; a failed stream is
\* poisoned: its worker leaves and shuts it down.
Settle(i) ==
    /\ workers[i].pc \in {"delivered", "failed", "leave"}
    /\ \/ workers[i].pc = "delivered" /\ append_delivery_audit(i, "delivered")
       \/ workers[i].pc = "failed" /\ append_delivery_audit(i, "delivery_failed")
       \/ workers[i].pc = "leave" /\ UNCHANGED <<audit, faults>>
    /\ Goto(i, IF inherited /\ workers[i].pc # "delivered" THEN "exit" ELSE "poll")
    /\ conn' = IF ~inherited \/ workers[i].pc # "delivered" THEN Leave(workers[i].conn) ELSE conn
    /\ UNCHANGED <<quiet, released, contacted, marks>>

WorkerStep(i) ==
    \/ Accept(i) \/ Wake(i) \/ EndWorker(i) \/ ReceiveFrame(i) \/ Boundary(i)
    \/ Connect(i) \/ Recheck(i) \/ Forward(i) \/ Pending(i) \/ Gate(i) \/ Send(i) \/ Settle(i)

--------------------------------------------------------------------------------
(* The destructor. *)

\* The executor drops the session at its end, whatever the guest still does.
DropSession ==
    /\ phase = "serving" /\ phase' = "stopping"
    /\ UNCHANGED <<job, bound, made, host, stopAsked, workers, conn, history, replaced, faults>>

\* request_stop, then shutdown of every listener and both ends of the stream.
RequestStop ==
    /\ phase = "stopping" /\ ~stopAsked
    /\ stopAsked' = TRUE
    /\ conn' = [c \in Conns |->
                  IF conn[c].state = "queued" \/ (inherited /\ conn[c].state \in {"held", "open"})
                  THEN [conn[c] EXCEPT !.state = "closed"] ELSE conn[c]]
    /\ UNCHANGED <<job, phase, bound, made, host, workers, history, replaced, faults>>

Joined == \A i \in Workers : workers[i].pc \in {"off", "exit"}

\* workers.clear() joins.
JoinWorkers ==
    /\ phase = "stopping" /\ stopAsked /\ Joined
    /\ phase' = "unlink" /\ undo' = [undo EXCEPT !.todo = { a \in Aliases : listeners[a] # 0 }]
    /\ UNCHANGED <<job, bound, dir, home, socks, listeners, host, stopAsked, workers, conn,
                   history, replaced, faults>>

\* Mutant: unlinks the alias whatever it now is.
Unlinked_byName(a) == listeners[a] # 0
\* Only a socket with the recorded identity is unlinked.
Unlinked(a) == listeners[a] # 0 /\ socks[a] = listeners[a]

RemoveSockets ==
    /\ phase = "unlink"
    /\ \/ /\ undo.alias = 0
          /\ \E a \in undo.todo :
               /\ \A b \in undo.todo : a <= b
               /\ IF Unlinked(a) THEN Look(a) ELSE undo' = [undo EXCEPT !.todo = @ \ {a}]
          /\ UNCHANGED <<phase, socks>>
       \/ undo.alias # 0 /\ Unlink /\ UNCHANGED phase
       \/ undo.alias = 0 /\ undo.todo = {} /\ phase' = "rmdir" /\ UNCHANGED <<socks, undo>>
    /\ UNCHANGED <<job, bound, dir, home, listeners, host, stopAsked, workers, conn, history,
                   replaced, faults>>

\* The look at the name, then rmdir of whatever has it: the session's own
\* directory when it is empty.
CheckDirectory ==
    /\ phase = "rmdir"
    /\ phase' = IF home # 0 /\ dir = home THEN "rmdir_seen" ELSE "gone"
    /\ UNCHANGED <<job, bound, made, host, stopAsked, workers, conn, history, replaced, faults>>

RemoveDirectory ==
    /\ phase = "rmdir_seen" /\ phase' = "gone"
    /\ \E id \in {0, dir} :
         /\ dir = home => (id = 0 <=> \A a \in Aliases : socks[a] = 0)
         /\ dir' = id
    /\ UNCHANGED <<job, bound, home, socks, listeners, undo, host, stopAsked, workers, conn,
                   history, replaced, faults>>

Prepare == Admit \/ MakeStream \/ MakeDirectory \/ OpenDirectory \/ DiscardDirectory \/ BindListener
           \/ RememberListener \/ FinishListener \/ RollBack \/ EndBinding \/ StartWorker
Destroy == RequestStop \/ JoinWorkers \/ RemoveSockets \/ CheckDirectory \/ RemoveDirectory
Guest == \E c \in Conns : GuestConnect(c) \/ GuestWrite(c) \/ GuestClose(c)

Next == \/ Prepare \/ HandOver \/ Guest \/ Replace \/ DropSession \/ Destroy
        \/ \E i \in Workers : WorkerStep(i) \/ AdoptFails(i) \/ Expire(i)

Spec == Init /\ [][Next]_vars
\* Threads run, time passes, and the executor drops the session in the end.
\* Nothing is assumed of the guest or of the services, and no failure is owed.
Fairness == /\ WF_vars(Prepare) /\ WF_vars(HandOver) /\ WF_vars(DropSession) /\ WF_vars(Destroy)
            /\ \A i \in 1..16 : /\ WF_vars(i \in Workers /\ WorkerStep(i))
                                /\ WF_vars(i \in Workers /\ Expire(i))
FairSpec == Spec /\ Fairness

--------------------------------------------------------------------------------
(* Properties. *)

\* Every byte of a response that reached the guest was preceded by its own
\* durable delivery_pending event, appended and checked within the deadline of
\* the exchange (append_delivery_audit and its gate).
ReleaseIsAudited ==
    /\ \A x \in released : <<x, "delivery_pending">> \in audit
    /\ \A i \in DOMAIN workers :
         workers[i].pc = "boundary3" \/ workers[i].pc = "send" =>
            <<Exchange(i), "delivery_pending">> \in audit
    /\ \A x \in audit : x[2] = "delivered" => x[1] \in released

\* A request is only sent to the service that was pinned when the factory was
\* made, although the socket's name can change hands before, during and after
\* connect(2); and no session runs with a grant that shows a pinned endpoint.
OnlyPinnedPeers ==
    /\ contacted \subseteq {1}
    /\ phase \in {"serving", "ready", "starting"} =>
         \A g \in job.grants : \A e \in Endpoints : g # e.object /\ g \notin e.above

\* A guest that writes a second request before it has the first answer gets at
\* most one more answer on the inherited stream: the boundary checks around
\* the exchange poison it.
PipeliningPoisons == marks # -1 => conn[1].out <= marks + 1

OwnIsRemoved ==
    phase = "gone" =>
      /\ \A a \in DOMAIN socks : listeners[a] # 0 => socks[a] # listeners[a]
      /\ home = 0 => dir # 1
      /\ home # 0 /\ dir = home =>
           \/ \E a \in DOMAIN socks : socks[a] > 1
           \/ bound.alias # 0 /\ bound.id = 0 /\ socks[bound.alias] = 1
\* The identities the session recorded for the name, and the time between the
\* look at a name and its unlink.
RecordedAs(a) == {listeners[a]} \cup (IF bound.alias = a THEN {bound.id} ELSE {})
InWindow(a) == undo.alias = a /\ socks[a] # undo.seen
ForeignIsKept ==
    replaced' = replaced =>
      /\ \A a \in DOMAIN socks :
           socks[a] > 1 /\ socks[a] \notin RecordedAs(a) /\ ~InWindow(a) => socks'[a] = socks[a]
      /\ dir > 1 /\ dir # home /\ phase \notin {"discard", "rmdir_seen"} => dir' = dir
\* The session's own sockets and directory are removed in the end; of its own
\* nothing stays but a socket its failing preparation does not know any more,
\* with the directory that holds it. An object that took one of the names is
\* kept, with three exceptions the calls by name leave open: it came before the
\* session read the identity it recorded, it came between the destructor's look
\* at the name and its unlink, or it came before a preparation that cannot open
\* its directory discards it.
TeardownIsExact == []OwnIsRemoved /\ [][ForeignIsKept]_vars

\* Whatever the guest, the services and the other processes do, a session ends:
\* every worker leaves its wait and the destructor's join returns.
SessionEnds == <>(phase = "gone")

TypeOK ==
    /\ phase \in {"new", "streams", "mkdir", "opendir", "discard", "binding", "starting", "ready",
                  "serving", "stopping", "unlink", "rmdir", "rmdir_seen", "gone"}
    /\ faults \in 0..MaxFaults /\ replaced \in 0..MaxReplace
    /\ \A a \in DOMAIN socks : socks[a] \in 0..(MaxReplace + 1)
================================================================================
