------------------------------- MODULE ToolKernel -------------------------------
(* One contained run of the public CLI (src/src/run/runner.cpp): execute, with *)
(* the kernel that mediates the agent's tool calls (src/src/kernel), its       *)
(* upstream MCP servers and their JSON-RPC clients (src/src/mcp), and exec,    *)
(* which only contains the agent.                                              *)
(*                                                                             *)
(* The kernel serves one request at a time, and its client of an upstream      *)
(* writes one frame and reads one. What is hard is what the other side does    *)
(* meanwhile: an upstream may say something nobody asked for, answer late or   *)
(* never, or die; the agent may leave; an audit append or a set-up step may    *)
(* fail. A tool's name is the sequence of its parts between dots.              *)
EXTENDS Integers, Sequences, FiniteSets, SequencesExt

CONSTANTS
    CommandLines,   \* the runs to try, each with what its agent may ask for;
                    \* its frames bound how often the agent asks
    MaxUnasked,     \* bound: frames an upstream sends without a request
    MaxMishaps      \* bound: steps that fail, and servers that die

StageNames == {"runtime", "profile", "audit", "proxy", "preset", "reporter", "agent"}
Forms == {"ok", "error", "quoted", "garbage", "shape", "cr"}

\* The parts of a run and its servers are told apart by name; a call that can be
\* decoded names a tool.
ASSUME KernelAssumption ==
    \A o \in CommandLines :
      /\ o.upstreams \in Seq(STRING \ StageNames) /\ o.forms \subseteq Forms
      /\ \A r \in o.asks :
           /\ r.plain \in BOOLEAN
           /\ r.method = "tools/call" /\ r.params \in {"valid", "cr"} => r.tool \in Seq(STRING)

VARIABLES
    opts,        \* the options
    kpc,        \* where execute or exec stands
    held,       \* stages of Stages that are done and not yet undone
    agent,      \* "none", "alive" or "gone"
    up,         \* the upstream servers, each with its client's state
    task,       \* the request being served
    requests,   \* frames the agent has sent
    toolRuns,   \* history: the tool calls the upstreams were given
    replies,    \* the responses the agent was sent
    log,        \* the events the audit sink took
    mishaps

kernelVars == <<opts, kpc, held, agent, up, task, requests, toolRuns, replies, log, mishaps>>

Servers == Range(opts.upstreams)

\* The parts of a run in the order they are made; they are undone in reverse.
Stages ==
    IF opts.mode = "run"
    THEN <<"runtime", "profile">> \o [i \in DOMAIN opts.upstreams |-> opts.upstreams[i]]
         \o <<"audit", "proxy", "agent">>
    ELSE <<"runtime", "profile", "audit", "proxy", "preset", "reporter", "agent">>

--------------------------------------------------------------------------------
(* Policy. *)

\* A text is the sequence of its parts; that of an absolute path begins with "/".
is_absolute(text) == text # <<>> /\ Head(text) = "/"

\* weakly_canonical: symbolic links are followed before ".." steps up.
canonical_or_lexical(links, path) ==
    FoldLeft(LAMBDA at, part :
               IF part = ".." THEN IF Len(at) <= 1 THEN at ELSE Front(at)
               ELSE IF Append(at, part) \in DOMAIN links THEN links[Append(at, part)]
               ELSE Append(at, part),
             <<>>, path)

\* An absolute prefix is a directory, any other the beginning of the text.
matches_prefix(links, value, root) ==
    IF is_absolute(root)
    THEN is_absolute(value)
         /\ IsPrefix(canonical_or_lexical(links, root), canonical_or_lexical(links, value))
    ELSE IsPrefix(root, value)

visible(engine, tool) == tool \in engine.allow

\* The engine the runner builds from its options: nothing is denied by name, and
\* what is not allowed is denied. An argument is a path, or no string, or not there.
check(engine, tool, argument) ==
    /\ visible(engine, tool)
    /\ \A rule \in {r \in engine.rules : r.tool = tool} :
         argument.kind = "path" /\ matches_prefix(engine.links, argument.path, rule.prefix)

--------------------------------------------------------------------------------
(* Setting up and undoing. *)

NoTask == [n |-> 0, method |-> "none"]

MayFail == mishaps < MaxMishaps /\ mishaps' = mishaps + 1
Fine == mishaps' = mishaps

\* registry::add: an upstream's name may not be taken.
duplicate(stage) == stage \in Servers /\ stage \in Range(SubSeq(Stages, 1, held))

\* The journal must be outside of what the agent can see.
audit_destination(stage) == stage = "audit" /\ opts.auditVisible

\* A preset goes with neither egress rules nor a selected variable that it owns.
start_agent_preset(stage) ==
    stage = "preset" /\ opts.preset /\ (opts.egress \/ opts.ownsSelected)

Refused(stage) == duplicate(stage) \/ audit_destination(stage) \/ start_agent_preset(stage)

\* The next part is made, or the run ends with an error.
Acquire ==
    /\ kpc = "setup" /\ held + 1 < Len(Stages)
    /\ LET stage == Stages[held + 1] IN
       \/ /\ ~Refused(stage) /\ Fine /\ held' = held + 1 /\ kpc' = kpc
          /\ up' = IF stage \in Servers THEN [up EXCEPT ![stage].alive = TRUE] ELSE up
       \/ Refused(stage) /\ Fine /\ kpc' = "unwind" /\ UNCHANGED <<held, up>>
       \/ MayFail /\ kpc' = "unwind" /\ UNCHANGED <<held, up>>
    /\ UNCHANGED <<opts, agent, task, requests, toolRuns, replies, log>>

Recorded(event) == log' = Append(log, event) /\ Fine

\* The launch is recorded, or nothing is launched.
record_launch ==
    /\ kpc = "setup" /\ held + 1 = Len(Stages)
    /\ \/ Recorded([what |-> "agent_launch", n |-> 0, status |-> "ok"]) /\ kpc' = "spawn"
       \/ MayFail /\ kpc' = "unwind" /\ UNCHANGED log
    /\ UNCHANGED <<opts, held, agent, up, task, requests, toolRuns, replies>>

spawn ==
    /\ kpc = "spawn"
    /\ \/ /\ Fine /\ agent' = "alive" /\ held' = held + 1
          /\ kpc' = IF opts.mode = "run" THEN "serve" ELSE "contained"
       \/ MayFail /\ kpc' = "unwind" /\ UNCHANGED <<agent, held>>
    /\ UNCHANGED <<opts, up, task, requests, toolRuns, replies, log>>

\* agent_handle::wait: after a while it terminates the agent, then kills it.
\* exec_contained waits for as long as the agent runs.
wait ==
    /\ \/ kpc = "wait"
       \/ kpc = "contained" /\ agent = "gone"
    /\ agent' = "gone" /\ kpc' = "record_exit"
    /\ UNCHANGED <<opts, held, up, task, requests, toolRuns, replies, log, mishaps>>

record_exit ==
    /\ kpc = "record_exit" /\ kpc' = "unwind"
    /\ \/ Recorded([what |-> "agent_exit", n |-> 0, status |-> "ok"])
       \/ MayFail /\ UNCHANGED log
    /\ UNCHANGED <<opts, held, agent, up, task, requests, toolRuns, replies>>

\* The last part made is destroyed: the handle kills its agent, a transport
\* ends its server's process group, the runtime's directory is removed.
Unwind ==
    /\ kpc = "unwind"
    /\ IF held = 0 THEN kpc' = "ended" /\ UNCHANGED <<held, agent, up>>
       ELSE LET stage == Stages[held] IN
            /\ held' = held - 1 /\ kpc' = kpc
            /\ agent' = IF stage = "agent" THEN "gone" ELSE agent
            /\ up' = IF stage \in Servers THEN [up EXCEPT ![stage].alive = FALSE] ELSE up
    /\ UNCHANGED <<opts, task, requests, toolRuns, replies, log, mishaps>>

--------------------------------------------------------------------------------
(* The kernel: server::run. *)

\* A response and the event recorded before it. An error message with a quote
\* or a line break cannot be encoded (encode_response_with_error).
Answer(t, body, of, plain, status) ==
    [t EXCEPT !.reply = [n |-> t.n, body |-> body, of |-> of,
                         tools |-> {q \in t.listed : visible(opts, q)}],
              !.plain = plain, !.status = status]
Audit == kpc' = "audit"

NoReply == [n |-> 0, body |-> "none", of |-> 0, tools |-> {}]
NewTask(r) == [n |-> requests + 1, method |-> r.method, r |-> r, step |-> "none", ext |-> 1,
               listed |-> {}, reply |-> NoReply, plain |-> TRUE, status |-> "none"]

\* registry::invoke splits at the first dot.
Namespace(tool) == Head(tool)
Known(tool) == Len(tool) > 1 /\ Namespace(tool) \in Servers

\* The next frame of the agent. One that is no request, or a notification,
\* gets no answer.
recv ==
    /\ kpc = "serve" /\ requests < opts.frames /\ agent = "alive"
    /\ requests' = requests + 1
    /\ \E r \in opts.asks :
         LET t == NewTask(r)
             Fail(plain, status) ==
               /\ task' = Answer(t, "error", 0, plain, status)
               /\ kpc' = IF status = "none" THEN "send" ELSE "audit"
             Result(body, status) == Audit /\ task' = Answer(t, body, 0, TRUE, status)
             Upstream(step) == task' = [t EXCEPT !.step = step] /\ kpc' = "transact"
         IN  \/ r.method \in {"garbage", "notification"} /\ UNCHANGED <<task, kpc>>
             \/ r.method = "initialize" /\ Result("info", "ok")
             \/ r.method = "unknown" /\ Fail(r.plain, "none")
             \/ /\ r.method = "tools/list"
                /\ IF opts.upstreams = <<>> THEN Result("tools", "ok") ELSE Upstream("list")
             \/ /\ r.method = "tools/call"
                /\ \/ r.params = "missing" /\ Fail(TRUE, "invalid_arguments")
                   \/ r.params = "malformed" /\ Fail(FALSE, "invalid_arguments")
                   \/ /\ r.params \in {"valid", "cr"}
                      /\ IF ~check(opts, r.tool, r.argument) THEN Result("denied", "invalid_arguments")
                         ELSE IF ~Known(r.tool) THEN Fail(r.plain, "execution_error")
                         ELSE Upstream("call")
    /\ UNCHANGED <<opts, held, agent, up, toolRuns, replies, log, mishaps>>

\* The agent closes its end or exits: the loop ends, and the run waits for it.
disconnect ==
    /\ kpc = "serve" /\ kpc' = "wait"
    /\ UNCHANGED <<opts, held, agent, up, task, requests, toolRuns, replies, log, mishaps>>

\* The event is recorded before the answer leaves; if it cannot be, or the
\* answer could not be encoded, the kernel ends.
audit_then_send ==
    /\ kpc = "audit"
    /\ \/ /\ Recorded([what |-> task.method, n |-> task.n, status |-> task.status])
          /\ kpc' = "send"
       \/ MayFail /\ kpc' = "unwind" /\ UNCHANGED log
    /\ UNCHANGED <<opts, held, agent, up, task, requests, toolRuns, replies>>

\* A write to a pipe nobody reads: SIGPIPE ends the process as it stands, or,
\* where its parent had the signal ignored, the write fails.
BrokenPipe(fails) == kpc' \in {"killed", fails}

send_reply ==
    /\ kpc = "send" /\ task' = NoTask
    /\ \/ ~task.plain /\ kpc' = "unwind" /\ UNCHANGED replies
       \/ task.plain /\ agent = "gone" /\ BrokenPipe("unwind") /\ UNCHANGED replies
       \/ task.plain /\ agent = "alive" /\ kpc' = "serve" /\ replies' = Append(replies, task.reply)
    /\ UNCHANGED <<opts, held, agent, up, requests, toolRuns, log, mishaps>>

--------------------------------------------------------------------------------
(* One exchange with an upstream: lazy_init over jsonrpc_client over its pipe. *)

\* The server the task needs next, and what it is asked.
Peer == IF task.step = "list" THEN opts.upstreams[task.ext] ELSE Namespace(task.r.tool)
Asked == IF ~up[Peer].ready THEN "initialize" ELSE task.step

\* The call fails: both methods answer with the error.
CallFails(plain) == Audit /\ task' = Answer(task, "error", 0, plain, "execution_error")

\* transact up to its send, which refuses arguments with a carriage return.
transact ==
    /\ kpc = "transact"
    /\ LET s == Peer
           frame == [id |-> up[s].last_id + 1, what |-> Asked, n |-> task.n, r |-> task.r]
           sendable == Asked = "call" => task.r.params # "cr"
       IN  \/ /\ sendable /\ up[s].alive
              /\ up' = [up EXCEPT ![s].last_id = @ + 1, ![s].inbox = Append(@, frame)]
              /\ kpc' = "await" /\ task' = task
           \/ /\ sendable => ~up[s].alive
              /\ up' = [up EXCEPT ![s].last_id = @ + 1]
              /\ \/ sendable /\ kpc' = "killed" /\ task' = task
                 \/ CallFails(TRUE)
    /\ UNCHANGED <<opts, held, agent, requests, toolRuns, replies, log, mishaps>>

\* The answer names the pending request.
Matches(frame) == frame.id = up[Peer].last_id

\* What the parser of the method makes of a response. A result of another
\* shape gives a message of several lines; an error of the server is passed on
\* as the tool's own for a call. A carriage return in raw JSON is kept, and the
\* agent's transport will refuse it.
parse_result(frame) ==
    CASE frame.form = "shape" -> "illegal"
      [] frame.form = "error" -> IF Asked = "call" THEN "tool_error" ELSE "plain"
      [] frame.form = "quoted" -> IF Asked = "call" THEN "tool_error" ELSE "illegal"
      [] frame.form \in {"ok", "cr"} -> "ok"

\* The first frame of the buffer, as transact takes it.
Taken(frame) ==
    CASE frame.form = "garbage" -> "illegal"
      [] frame.form = "unasked" -> "plain"
      [] OTHER -> IF Matches(frame) THEN parse_result(frame) ELSE "plain"

\* initialize was answered: the notification follows and the handshake is
\* remembered; then the request itself is made.
Initialized(s) ==
    IF up[s].alive
    THEN up' = [up EXCEPT ![s].outbox = Tail(@), ![s].ready = TRUE] /\ kpc' = "transact" /\ task' = task
    ELSE /\ up' = [up EXCEPT ![s].outbox = Tail(@)]
         /\ \/ kpc' = "killed" /\ task' = task
            \/ CallFails(TRUE)

\* One server's tools are known: the next is asked, or the list is answered
\* with what the policy lets the agent see.
Listed(plain) ==
    LET named == {<<Peer>> \o t : t \in opts.tools[Peer]}
        more == [task EXCEPT !.listed = @ \cup named, !.plain = @ /\ plain]
    IN  IF task.ext < Len(opts.upstreams)
        THEN kpc' = "transact" /\ task' = [more EXCEPT !.ext = @ + 1]
        ELSE Audit /\ task' = Answer(more, "tools", task.n, more.plain, "ok")

receive ==
    /\ kpc = "await"
    /\ LET s == Peer
           Drop == up' = [up EXCEPT ![s].outbox = Tail(@)]
       IN  \/ /\ up[s].outbox # <<>>
              /\ LET frame == Head(up[s].outbox) IN
                 CASE Taken(frame) = "plain" -> Drop /\ CallFails(TRUE)
                   [] Taken(frame) = "illegal" -> Drop /\ CallFails(FALSE)
                   [] Taken(frame) = "tool_error" ->
                        Drop /\ Audit /\ task' = Answer(task, "tool_error", frame.n, TRUE, "execution_error")
                   [] Taken(frame) = "ok" ->
                        IF Asked = "initialize" THEN Initialized(s)
                        ELSE IF Asked = "list" THEN Drop /\ Listed(frame.form # "cr")
                        ELSE Drop /\ Audit /\ task' = Answer(task, "result", frame.n, frame.form # "cr", "ok")
           \/ /\ up[s].outbox = <<>> /\ ~up[s].alive
              /\ up' = up /\ CallFails(TRUE)
    /\ UNCHANGED <<opts, held, agent, requests, toolRuns, replies, log, mishaps>>

--------------------------------------------------------------------------------
(* The other sides (external). *)

\* A server takes its next frame, runs a call, and answers in one of its ways.
Serve(s) ==
    /\ up[s].alive /\ up[s].inbox # <<>>
    /\ LET frame == Head(up[s].inbox) IN
       /\ \E form \in opts.forms :
            LET answer == [id |-> frame.id, form |-> form, n |-> frame.n] IN
            up' = [up EXCEPT ![s].inbox = Tail(@), ![s].outbox = Append(@, answer),
                             ![s].said = {answer}]
       /\ toolRuns' = IF frame.what # "call" THEN toolRuns
                      ELSE toolRuns \cup {[n |-> frame.n, tool |-> <<s>> \o Tail(frame.r.tool),
                                           argument |-> frame.r.argument]}
    /\ UNCHANGED <<opts, kpc, held, agent, task, requests, replies, log, mishaps>>

\* It says something nobody asked for, or repeats its last answer.  Servers
\* answer no request they were not given: they do not guess the next id.
Unasked(s) ==
    /\ up[s].alive /\ up[s].unasked < MaxUnasked
    /\ \E frame \in {[id |-> 0, form |-> "unasked", n |-> 0]} \cup up[s].said :
         up' = [up EXCEPT ![s].unasked = @ + 1, ![s].outbox = Append(@, frame)]
    /\ UNCHANGED <<opts, kpc, held, agent, task, requests, toolRuns, replies, log, mishaps>>

ServerDies(s) ==
    /\ up[s].alive /\ MayFail
    /\ up' = [up EXCEPT ![s].alive = FALSE, ![s].inbox = <<>>]
    /\ UNCHANGED <<opts, kpc, held, agent, task, requests, toolRuns, replies, log>>

AgentExits ==
    /\ agent = "alive" /\ agent' = "gone"
    /\ UNCHANGED <<opts, kpc, held, up, task, requests, toolRuns, replies, log, mishaps>>

--------------------------------------------------------------------------------

NewServer == [alive |-> FALSE, ready |-> FALSE, last_id |-> 0, inbox |-> <<>>, outbox |-> <<>>,
              said |-> {}, unasked |-> 0]

KernelInit ==
    /\ opts \in CommandLines /\ kpc = "setup" /\ held = 0 /\ agent = "none"
    /\ up = [s \in Servers |-> NewServer] /\ task = NoTask /\ requests = 0 /\ toolRuns = {}
    /\ replies = <<>> /\ log = <<>> /\ mishaps = 0

\* The steps of glove itself; it leaves the loop by itself only after the agent.
KernelStep ==
    \/ Acquire \/ record_launch \/ spawn \/ wait \/ record_exit \/ Unwind
    \/ (disconnect /\ agent = "gone") \/ audit_then_send \/ send_reply \/ transact \/ receive

KernelNext ==
    \/ KernelStep \/ recv \/ disconnect \/ AgentExits
    \/ \E s \in Servers : Serve(s) \/ Unasked(s) \/ ServerDies(s)

--------------------------------------------------------------------------------
(* Properties. *)

Logged(n) == \E i \in DOMAIN log : log[i].n = n
Over == {"unwind", "ended", "killed"}

\* The agent runs only once its launch is recorded. An upstream is given only
\* calls that the policy allows, each is recorded unless it is being served or
\* the run ends first, and a result the agent gets is the one its own call had,
\* recorded as such before, whatever an upstream sent unasked, late or twice,
\* as long as it does not guess the id of a request to come.
ToolCallsAreMediated ==
    /\ agent # "none" => log # <<>> /\ log[1].what = "agent_launch"
    /\ \A c \in toolRuns :
         /\ check(opts, c.tool, c.argument)
         /\ c.n = task.n \/ Logged(c.n) \/ kpc \in Over
    /\ \A i \in DOMAIN replies :
         /\ \A j \in DOMAIN replies : replies[i].n = replies[j].n => i = j
         /\ replies[i].tools \subseteq opts.allow
         /\ replies[i].body = "result" =>
              /\ replies[i].of = replies[i].n
              /\ \E c \in toolRuns : c.n = replies[i].n
              /\ \E e \in Range(log) : e.n = replies[i].n /\ e.status = "ok"

\* A server that is alive and has not said anything since it was asked.
AwaitsServer == kpc = "await" /\ up[Peer].alive /\ up[Peer].outbox = <<>>

\* The run comes back to its agent while that lives, and else returns and leaves
\* nothing of its own behind; only a silent server, for which there is no
\* deadline, and a broken pipe keep it from that.
RunIsOver ==
    \/ kpc \in {"serve", "contained"} /\ agent = "alive"
    \/ kpc = "ended" /\ held = 0 /\ agent # "alive" /\ \A s \in Servers : ~up[s].alive
    \/ kpc = "killed" \/ AwaitsServer
================================================================================
