---------------------------- MODULE MCHostCommands ----------------------------
(* The operator's commands: two policy commands with plain, online and       *)
(* hostile options, and plans a client may submit against the resulting      *)
(* policies; setup, adopt and cleanup on the hosts of SetupInit; a contained *)
(* run with its upstream servers; and the audit journal such runs write.     *)
(* They share no state, so one at a time is exercised.                       *)
EXTENDS RuntimePolicy, HostSetup, ToolKernel, AuditJournal

VARIABLE active   \* "policy", "setup", "run" or "journal"

Plain == [kind |-> "prepare", hostile |-> FALSE, backend |-> "linux_production",
          egress |-> {}, secrets |-> {}, secretFileSafe |-> TRUE]
Online == [Plain EXCEPT !.egress = {"online"}, !.secrets = {1}]
Hostile == [Plain EXCEPT !.hostile = TRUE]
StageOnly == [Plain EXCEPT !.kind = "stage"]
MCOptions ==
    { Plain, Online, Hostile, StageOnly, [Online EXCEPT !.hostile = TRUE],
      [Online EXCEPT !.secretFileSafe = FALSE] }

Shape == [schema |-> 1, template |-> "safe", runtime |-> "codex",
          backend |-> "linux_production", egress |-> "no-network",
          tool |-> "sage-readonly", profile |-> "small", grants |-> <<>>,
          libraries |-> <<>>, secrets |-> <<>>, refinement |-> FALSE]
Read == [name |-> 1, alias |-> "workspace", access |-> "read", ttl |-> 1, exposed |-> FALSE]
MCPlanShapes ==
    { Shape, [Shape EXCEPT !.template = "hostile-analysis", !.profile = "hostile"],
      [Shape EXCEPT !.grants = <<Read>>, !.egress = "online", !.secrets = <<1>>] }

Asks(method) == [method |-> method, plain |-> TRUE]
Calls(tool, path) ==
    [method |-> "tools/call", params |-> "valid", plain |-> TRUE, tool |-> tool,
     argument |-> [kind |-> "path", path |-> path]]
Reads == Calls(<<"fs", "read">>, <<"/", "work", "a">>)
Gets == Calls(<<"web", "get">>, <<"x">>)
\* A well-behaved pair of servers, and an agent that uses both.
Contained ==
    [mode |-> "run", frames |-> 2, upstreams |-> <<"fs", "web">>,
     links |-> [p \in {<<"/", "work", "out">>} |-> <<"/", "etc">>],
     allow |-> {<<"fs", "read">>, <<"web", "get">>, <<"db", "get">>},
     rules |-> {[tool |-> <<"fs", "read">>, prefix |-> <<"/", "work">>],
                [tool |-> <<"web", "get">>, prefix |-> <<"x">>]},
     tools |-> [fs |-> {<<"read">>, <<"write">>}, web |-> {<<"get">>}],
     auditVisible |-> FALSE, preset |-> FALSE, egress |-> FALSE, ownsSelected |-> FALSE,
     forms |-> {"ok"},
     asks |-> {Reads, Gets, Calls(<<"fs", "read">>, <<"/", "work", "out", "..", "a">>)}]
Alone == [Contained EXCEPT !.mode = "exec", !.upstreams = <<>>, !.preset = TRUE]
MCCommandLines ==
    { Contained, Alone, [Alone EXCEPT !.egress = TRUE],
      \* Every way a server can answer, and every kind of frame.
      [Contained EXCEPT !.frames = 1,
         !.forms = {"ok", "error", "quoted", "garbage", "shape", "cr"},
         !.asks = {Asks("garbage"), Asks("notification"), Asks("initialize"), Asks("unknown"),
                   [Asks("unknown") EXCEPT !.plain = FALSE], Asks("tools/list"), Gets,
                   Calls(<<"db", "get">>, <<"x">>), Calls(<<"web", "get">>, <<"y", "x">>), [Reads EXCEPT !.params = "missing"],
                   [Reads EXCEPT !.params = "cr"],
                   [Reads EXCEPT !.params = "malformed"],
                   [Reads EXCEPT !.argument.kind = "missing"]}],
      [Contained EXCEPT !.upstreams = <<"fs", "fs">>],
      [Contained EXCEPT !.auditVisible = TRUE],
      [Contained EXCEPT !.upstreams = <<>>, !.asks = {Asks("tools/list"), Gets}] }

\* No journal, a short one, one past the cap, and two that end within a line.
MCOldJournals ==
    { <<>>, <<1, 1, 0, 2, 0>>, <<1, 1, 1, 0, 2, 2, 0, 3, 0>>,
      <<1, 1, 0, 2, 2, 0, 3, 3, 3, 3>>, <<1, 1, 0, 2>> }

\* A part that is not active rests in one of its initial states.
MCInit ==
    /\ Init /\ SetupInit /\ KernelInit /\ JournalInit
    /\ active \in {"policy", "setup", "run", "journal"}
    /\ active # "policy" => source = (CHOOSE v \in Versions : TRUE) /\ trusted = TRUE
    /\ active # "setup" => file = NoFiles /\ dirs = {} /\ sessionPolicy = TRUE
    /\ active # "run" => opts = Alone
    /\ active # "journal" => bytes = <<>>
MCNext ==
    /\ UNCHANGED active
    /\ \/ active = "policy" /\ Next /\ UNCHANGED <<setupVars, kernelVars, journalVars>>
       \/ active = "setup" /\ SetupNext /\ UNCHANGED <<vars, kernelVars, journalVars>>
       \/ active = "run" /\ KernelNext /\ UNCHANGED <<vars, setupVars, journalVars>>
       \/ active = "journal" /\ JournalNext /\ UNCHANGED <<vars, setupVars, kernelVars>>
\* Every running process is scheduled.
MCSpec ==
    /\ MCInit /\ [][MCNext]_<<active, vars, setupVars, kernelVars, journalVars>>
    /\ \A c \in Commands : WF_vars(active = "policy" /\ (AcquireLock(c) \/ Step(c)))
    /\ WF_setupVars(active = "setup" /\ Execute)
    /\ WF_kernelVars(active = "run" /\ KernelStep)
    /\ WF_journalVars(active = "journal" /\ Call)

\* What the commands leave behind can be relied on: snapshots are whole, a plan
\* is launched only as it was authorized, a setup that succeeded is usable, an
\* agent's tool calls are mediated, and the journal keeps what it acknowledged.
HostIsSound ==
    /\ SnapshotIsWhole /\ LaunchIsAuthorized /\ SuccessIsUsable
    /\ ToolCallsAreMediated /\ TrailIsKept

\* A command that fails or undoes takes away nothing that was not its own, and
\* a failing setup everything that was.
UndoIsExact == OnlyOwnIsRemoved /\ FailureLeavesNothing

\* Every command returns: none waits for ever on a lock, a contained run comes
\* back to its agent or ends with everything it made undone, a record returns,
\* and setup that is repeated succeeds in the end unless a person, the
\* environment, a half-written file or a directory whose mode an earlier setup
\* did not come to restrict is in the way.
CommandsSettle ==
    /\ CommandsFinish /\ SetupConverges
    /\ []<>(active = "run" => RunIsOver)
    /\ []<>RecordIsOver
=============================================================================
