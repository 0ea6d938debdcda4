------------------------------- MODULE HostSetup -------------------------------
(***************************************************************************)
(* glove setup, setup adopt and setup cleanup (src/src/host/setup.cpp):    *)
(* the commands that create the daemon's configuration, its audit key, its *)
(* path exposure policy and directories, record in a ledger what they      *)
(* created, and take it away again.                                        *)
(*                                                                         *)
(* One command runs at a time, as its operator runs it.  It may die at any *)
(* step, the daemon may be running, and between commands, or between a     *)
(* preview and its confirmation, the operator edits and removes files.     *)
(*                                                                         *)
(* A file is its content and who wrote it; its digest is its content.  A   *)
(* file is created empty and then written: "torn" in between.  The         *)
(* configuration is "current", or "volatile" when an older version put the *)
(* runtime directory there, or some "other" one.  A directory is made with *)
(* the mode the umask leaves it and then restricted: "loose" in between.   *)
(***************************************************************************)
EXTENDS Integers, Sequences, FiniteSets, SequencesExt, Selection

CONSTANTS
    MaxCommands,   \* bound: commands other than setup
    MaxEdits,      \* bound: what the operator does by hand
    SetupFaults,   \* bound: crashes and failing system calls
    Absent

Files == {"config", "audit_key", "policy", "ledger"}
Dirs == {"config_dir", "state_dir", "runtime_dir", "materializations"}
Keys == {"k0", "k1"}
\* What a file may say; "absent" is what reading no file gives.
Texts == Keys \cup {"absent", "torn", "current", "volatile", "other", "expected", "entries"}

Paths == Files \cup Dirs
Resources == [path : Paths, owned : BOOLEAN, digest : Texts \cup {Absent}]
FileRecs == [content : Texts \ {"absent"}, by : {"setup", "operator"}, entries : Seq(Resources)]

ASSUME SetupAssumption ==
    /\ {MaxCommands, MaxEdits, SetupFaults} \subseteq Nat
    /\ Absent \notin Texts \cup FileRecs

VARIABLES
    file,          \* Files -> Absent or [content, by, entries], entries of the ledger
    dirs,          \* the directories that exist with mode 0700
    loose,         \* those that exist with the mode the umask left them
    journal,       \* the daemon has written its journal into the state directory
    sock,          \* Absent or the directory whose gloved.sock a daemon holds
    sessionPolicy, \* validate_session_policy_file accepts the session policy
    act,           \* the running command
    result,        \* what the last setup returned: "none", "ok" or "refused"
    installed,     \* setup returned ok, and nothing was taken away since
    commands, edits, setupFaults

env == <<loose, journal, sock, sessionPolicy>>
counts == <<commands, edits, setupFaults>>
setupVars == <<file, dirs, env, act, result, installed, counts>>

NoCommand == [pc |-> "idle"]
AtStep(pc) == act.pc = pc
Torn == [content |-> "torn", by |-> "setup", entries |-> <<>>]
Content(p) == IF file[p] = Absent THEN "absent" ELSE file[p].content

-----------------------------------------------------------------------------
(* What the files say.                                                     *)

\* read_owner_file and the parsers refuse a torn file.
Readable(p) == Content(p) \notin {"absent", "torn"}
valid_audit_key == Readable("audit_key")
load_config == Readable("config")
load_setup_ledger == Readable("ledger")

\* The entries of a directory.
Entries(d) ==
    CASE d = "config_dir" -> {p \in {"config", "policy"} : file[p] # Absent}
      [] d = "state_dir" -> {p \in {"audit_key", "ledger"} : file[p] # Absent}
                              \cup ((dirs \cup loose) \cap {"materializations"})
                              \cup (IF journal THEN {"journal"} ELSE {})
      [] d = "runtime_dir" -> IF sock = d THEN {"gloved.sock"} ELSE {}
      [] d = "materializations" -> {}

\* fill_random: a key that differs from every one on record.
FreshKey ==
    CHOOSE k \in Keys :
        file["ledger"] # Absent => \A i \in DOMAIN file["ledger"].entries :
                                      file["ledger"].entries[i].digest # k

Resource(p, owned, digest) == [path |-> p, owned |-> owned, digest |-> digest]

\* make_setup_ledger: directories first, the configuration last.
make_setup_ledger(made, owned) ==
    LET dir(d) == Resource(d, d \in made, Absent)
        own(p) == Resource(p, p \in owned, Content(p))
    IN  << dir("config_dir"), dir("state_dir"), dir("runtime_dir"), dir("materializations"),
           own("audit_key"), own("policy"), own("config") >>
LedgerPossible == \A p \in {"audit_key", "policy", "config"} : Readable(p)

-----------------------------------------------------------------------------
(* Steps every command is made of.                                         *)

Return(r) ==
    /\ act' = NoCommand
    /\ result' = IF act.kind = "setup" THEN r ELSE result
    /\ installed' = (installed \/ (act.kind = "setup" /\ r = "ok"))
Continue(pc) == act' = [act EXCEPT !.pc = pc] /\ UNCHANGED <<result, installed>>

\* Mutant: what was there before is rolled back too.
Created_All(paths) == paths

\* The paths this command created itself, in the order they are removed.
Created(paths) == Those(paths, act.created)

\* The rollback of an error at each of the files setup creates.
Rollback(at) ==
    CASE at = "audit_key" -> <<>>
      [] at = "policy" -> Created(<<"audit_key">>)
      [] at = "config" -> Created(<<"policy", "audit_key">>)
      [] at = "ledger" /\ act.fresh ->
            Created(<<"config", "policy", "audit_key">>) \o Reverse(act.dirs)
      [] at = "ledger" /\ ~act.fresh -> <<>>

Refuse(at) ==
    IF Rollback(at) = <<>> THEN Return("refused")
    ELSE act' = [act EXCEPT !.pc = "undo", !.todo = Rollback(at)] /\ UNCHANGED <<result, installed>>

\* One unlink or rmdir of a rollback; nobody looks whether it works.
Undo ==
    /\ AtStep("undo")
    /\ LET p == Head(act.todo)
       IN  /\ file' = IF p \in Files THEN [file EXCEPT ![p] = Absent] ELSE file
           /\ dirs' = IF p \in Dirs /\ Entries(p) = {} THEN dirs \ {p} ELSE dirs
    /\ IF Tail(act.todo) = <<>> THEN Return("refused")
       ELSE act' = [act EXCEPT !.todo = Tail(@)] /\ UNCHANGED <<result, installed>>
    /\ UNCHANGED <<env, counts>>

\* create_owner_file: O_EXCL, then write_exact; an error unlinks it again.
OpenFile(p) ==
    /\ file[p] = Absent
    /\ file' = [file EXCEPT ![p] = Torn]
    /\ act' = [act EXCEPT !.pc = "write", !.todo = <<p>>] /\ UNCHANGED <<result, installed>>

AfterFile(p) == CASE p = "audit_key" -> "policy" [] p = "policy" -> "config" [] p = "config" -> "ledger"

write_exact ==
    /\ AtStep("write")
    /\ LET p == act.todo[1]
           text == CASE p = "audit_key" -> FreshKey [] p = "policy" -> "expected"
                     [] p = "config" -> "current" [] p = "ledger" -> "entries"
       IN  /\ file' = [file EXCEPT ![p].content = text,
                                   ![p].entries = IF p = "ledger" THEN act.ledger ELSE <<>>]
           /\ IF p = "ledger" THEN Return("ok")
              ELSE /\ act' = [act EXCEPT !.created = @ \cup {p}, !.pc = AfterFile(p), !.todo = <<>>]
                   /\ UNCHANGED <<result, installed>>
    /\ UNCHANGED <<dirs, env, counts>>

WriteFails ==
    /\ AtStep("write") /\ setupFaults < SetupFaults /\ setupFaults' = setupFaults + 1
    /\ file' = [file EXCEPT ![act.todo[1]] = Absent]
    /\ Refuse(act.todo[1])
    /\ UNCHANGED <<dirs, env, commands, edits>>

\* The process dies: what it made stays, also a torn file.
Dies ==
    /\ ~AtStep("idle") /\ setupFaults < SetupFaults /\ setupFaults' = setupFaults + 1
    /\ act' = NoCommand
    /\ UNCHANGED <<file, dirs, env, result, installed, commands, edits>>

-----------------------------------------------------------------------------
(* setup.                                                                  *)

KeepHostEnv == UNCHANGED <<env, counts>>
Started(kind, pc) ==
    [kind |-> kind, pc |-> pc, fresh |-> FALSE, migrate |-> FALSE, created |-> {}, dirs |-> <<>>,
     todo |-> <<>>, ledger |-> <<>>, before |-> file]

\* An existing configuration must be the requested one, but for the runtime
\* directory of older versions.
plan_setup == Content("config") \in {"absent", "current", "volatile"}

setup_command ==
    /\ AtStep("idle") /\ sessionPolicy /\ plan_setup
    /\ act' = [Started("setup", IF file["config"] = Absent THEN "config_dir" ELSE "existing")
                 EXCEPT !.fresh = file["config"] = Absent,
                        !.migrate = Content("config") = "volatile"]
    /\ UNCHANGED <<file, dirs, result, installed>> /\ KeepHostEnv

\* The directories in the order they are made, and what comes after them.
AfterDir(d) ==
    CASE d = "config_dir" /\ act.fresh -> "state_dir"
      [] d = "config_dir" /\ ~act.fresh -> "runtime_dir"
      [] d = "state_dir" -> "runtime_dir"
      [] d = "runtime_dir" -> "materializations"
      [] d = "materializations" -> IF act.fresh THEN "audit_key" ELSE "ledger"

\* ensure_directory refuses a directory others may enter, and remembers
\* whether it made the directory.
Ensured(d) == IF d \in dirs THEN act.dirs ELSE Append(act.dirs, d)

ensure_directory(d) ==
    /\ AtStep(d)
    /\ dirs' = IF d \in loose THEN dirs ELSE dirs \cup {d}
    /\ IF d \in loose \/ (AfterDir(d) = "audit_key" /\ ~sessionPolicy) THEN Return("refused")
       ELSE /\ act' = [act EXCEPT !.pc = AfterDir(d), !.dirs = Ensured(d)]
            /\ UNCHANGED <<result, installed>>
    /\ UNCHANGED file /\ KeepHostEnv

\* create_directories has made the directory with the mode the umask leaves
\* it, and the process dies before chmod or chmod fails.
DirectoryFails ==
    /\ setupFaults < SetupFaults /\ setupFaults' = setupFaults + 1
    /\ \E d \in Dirs \ (dirs \cup loose) :
         /\ \/ AtStep(d)
            \/ AtStep("existing") /\ act.migrate /\ sock # "volatile_dir" /\ d = "runtime_dir"
         /\ loose' = loose \cup {d}
    /\ Return("refused") \/ (act' = NoCommand /\ UNCHANGED <<result, installed>>)
    /\ UNCHANGED <<file, dirs, journal, sock, sessionPolicy, commands, edits>>

\* A configuration that exists: it is migrated while no daemon uses it, and
\* key, policy and session policy must be in order.
existing_config ==
    /\ AtStep("existing")
    /\ IF act.migrate /\ (sock = "volatile_dir" \/ "runtime_dir" \in loose)
       THEN Return("refused") /\ UNCHANGED dirs
       ELSE IF act.migrate
       THEN /\ dirs' = dirs \cup {"runtime_dir"}
            /\ act' = [act EXCEPT !.pc = "migrate", !.dirs = Ensured("runtime_dir")]
            /\ UNCHANGED <<result, installed>>
       ELSE Continue("validate") /\ UNCHANGED dirs
    /\ UNCHANGED file /\ KeepHostEnv

\* A candidate of the process's own, renamed over the configuration.
migrate ==
    /\ AtStep("migrate") /\ file' = [file EXCEPT !["config"].content = "current"]
    /\ Continue("validate")
    /\ UNCHANGED dirs /\ KeepHostEnv

\* The candidate cannot be written or renamed: it is unlinked.
MigrationFails ==
    /\ AtStep("migrate") /\ setupFaults < SetupFaults /\ setupFaults' = setupFaults + 1
    /\ Return("refused")
    /\ UNCHANGED <<file, dirs, env, commands, edits>>

validate_existing ==
    /\ AtStep("validate")
    /\ IF valid_audit_key /\ Content("policy") = "expected" /\ sessionPolicy
       THEN Continue("config_dir") ELSE Return("refused")
    /\ UNCHANGED <<file, dirs>> /\ KeepHostEnv

create_audit_key ==
    /\ AtStep("audit_key")
    /\ \/ OpenFile("audit_key")
       \/ /\ file["audit_key"] # Absent /\ UNCHANGED file
          /\ IF valid_audit_key THEN Continue("policy") ELSE Return("refused")
    /\ UNCHANGED dirs /\ KeepHostEnv

create_policy ==
    /\ AtStep("policy")
    /\ \/ OpenFile("policy")
       \/ /\ file["policy"] # Absent /\ UNCHANGED file
          /\ IF Content("policy") = "expected" THEN Continue("config") ELSE Refuse("policy")
    /\ UNCHANGED dirs /\ KeepHostEnv

create_config == AtStep("config") /\ OpenFile("config") /\ UNCHANGED dirs /\ KeepHostEnv

\* write_or_validate_setup_ledger: an existing ledger is left as it is.
write_or_validate_setup_ledger ==
    /\ AtStep("ledger")
    /\ \/ /\ file["ledger"] = Absent
          /\ file' = [file EXCEPT !["ledger"] = Torn]
          /\ act' = [act EXCEPT !.pc = "write", !.todo = <<"ledger">>,
                       !.ledger = IF act.kind = "adopt" THEN act.ledger
                                  ELSE make_setup_ledger(Range(act.dirs), act.created)]
          /\ UNCHANGED <<result, installed>>
       \/ /\ file["ledger"] # Absent /\ UNCHANGED file
          /\ IF load_setup_ledger THEN Return("ok") ELSE Refuse("ledger")
    /\ UNCHANGED dirs /\ KeepHostEnv

-----------------------------------------------------------------------------
(* adopt and cleanup.                                                      *)

MayStart == AtStep("idle") /\ commands < MaxCommands /\ commands' = commands + 1
KeepCommand == UNCHANGED <<file, dirs, env, result, installed, edits, setupFaults>>

plan_setup_adoption ==
    /\ load_config /\ Content("config") # "volatile" /\ LedgerPossible
    /\ {"runtime_dir", "materializations"} \subseteq dirs /\ sessionPolicy

\* Adoption records everything and owns nothing.
setup_adopt_command ==
    /\ MayStart /\ plan_setup_adoption
    /\ act' = [Started("adopt", "adopt") EXCEPT !.ledger = make_setup_ledger({}, {})]
    /\ KeepCommand

execute_setup_adoption ==
    /\ AtStep("adopt")
    /\ IF plan_setup_adoption /\ act.ledger = make_setup_ledger({}, {})
       THEN Continue("ledger") ELSE Return("refused")
    /\ UNCHANGED <<file, dirs>> /\ KeepHostEnv

Exists(p) == IF p \in Files THEN file[p] # Absent ELSE p \in dirs \cup loose

unchanged(r) == Content(r.path) = r.digest

\* Last resource first; a directory goes when all it holds goes before it.
plan_setup_cleanup ==
    LET rs == Reverse(file["ledger"].entries)
        goes[i \in DOMAIN rs] ==
            /\ Exists(rs[i].path) /\ rs[i].owned
            /\ IF rs[i].digest # Absent THEN unchanged(rs[i])
               ELSE /\ rs[i].path \in dirs
                    /\ \A e \in Entries(rs[i].path) :
                         e = "ledger" \/ \E j \in 1..(i - 1) : rs[j].path = e /\ goes[j]
        removable(i) == IF rs[i].digest # Absent THEN unchanged(rs[i]) ELSE goes[i]
        status(i) == IF ~Exists(rs[i].path) THEN "absent"
                     ELSE IF ~rs[i].owned THEN "retained"
                     ELSE IF removable(i) THEN "removable" ELSE "blocked"
    IN  [i \in DOMAIN rs |-> [path |-> rs[i].path, status |-> status(i)]]

setup_cleanup_command ==
    /\ MayStart /\ load_config /\ load_setup_ledger
    /\ act' = [Started("cleanup", "confirm") EXCEPT !.ledger = file["ledger"].entries,
                                                    !.todo = plan_setup_cleanup]
    /\ KeepCommand

\* Mutant: the configuration is removed last.
RemovalOrder_ConfigLast(paths) ==
    Reverse(Those(paths, Files)) \o <<"ledger">> \o Those(paths, Dirs)

\* Files go first, the configuration before the key it needs, then the
\* ledger, then the directories.
RemovalOrder(paths) == Those(paths, Files) \o <<"ledger">> \o Those(paths, Dirs)

\* execute_setup_cleanup plans again: what was confirmed must still hold.
confirm_cleanup ==
    /\ AtStep("confirm")
    /\ IF /\ load_config /\ load_setup_ledger /\ file["ledger"].entries = act.ledger
          /\ \E items \in {plan_setup_cleanup} :
               items = act.todo /\ \A i \in DOMAIN items : items[i].status # "blocked"
       THEN LET go == Those(act.todo, {i \in Range(act.todo) : i.status = "removable"})
            IN  /\ act' = [act EXCEPT !.pc = "remove",
                             !.todo = RemovalOrder([i \in DOMAIN go |-> go[i].path])]
                /\ installed' = FALSE /\ UNCHANGED result
       ELSE Return("refused")
    /\ UNCHANGED <<file, dirs>> /\ KeepHostEnv

\* One unlink or rmdir; the first that fails ends the command.
execute_setup_cleanup ==
    /\ AtStep("remove")
    /\ LET p == Head(act.todo)
           gone == Exists(p) /\ (p \in Dirs => Entries(p) = {})
       IN  /\ file' = IF gone /\ p \in Files THEN [file EXCEPT ![p] = Absent] ELSE file
           /\ dirs' = IF gone THEN dirs \ {p} ELSE dirs
           /\ IF gone /\ Tail(act.todo) # <<>>
              THEN act' = [act EXCEPT !.todo = Tail(@)] /\ UNCHANGED <<result, installed>>
              ELSE Return("refused")
    /\ KeepHostEnv

-----------------------------------------------------------------------------
(* The daemon and the operator.                                            *)

StartsServing ==
    /\ sock = Absent /\ load_config /\ valid_audit_key
    /\ sock' = IF Content("config") = "volatile" THEN "volatile_dir" ELSE "runtime_dir"
    /\ sock' \in dirs \cup {"volatile_dir"} /\ journal' = TRUE
    /\ UNCHANGED <<file, dirs, loose, sessionPolicy, act, result, installed, counts>>

StopsServing ==
    /\ sock # Absent /\ sock' = Absent
    /\ UNCHANGED <<file, dirs, loose, journal, sessionPolicy, act, result, installed, counts>>

\* By hand, between commands or between preview and confirmation; the session
\* policy, which setup does not own, at any time.
Operator ==
    /\ edits < MaxEdits /\ edits' = edits + 1
    /\ \/ /\ AtStep("idle") \/ AtStep("confirm")
          /\ \E p \in Files :
               /\ file[p] # Absent
               /\ \/ file' = [file EXCEPT ![p] = Absent]
                  \/ /\ p \in {"config", "policy"}
                     /\ file' = [file EXCEPT ![p] = [Torn EXCEPT !.content = "other", !.by = "operator"]]
          /\ installed' = FALSE /\ UNCHANGED sessionPolicy
       \/ sessionPolicy' = ~sessionPolicy /\ UNCHANGED <<file, installed>>
    /\ UNCHANGED <<dirs, loose, journal, sock, act, result, commands, setupFaults>>

-----------------------------------------------------------------------------
\* A bare host, one where the operator made the key or a policy, and one that
\* an older version set up.
Written(content, by) == [content |-> content, by |-> by, entries |-> <<>>]
NoFiles == [p \in Files |-> Absent]
OldLedger ==
    << Resource("config_dir", TRUE, Absent), Resource("state_dir", TRUE, Absent),
       Resource("audit_key", TRUE, "k0"), Resource("policy", TRUE, "expected"),
       Resource("config", TRUE, "volatile") >>
OldHost ==
    [p \in Files |-> CASE p = "config" -> Written("volatile", "setup")
                       [] p = "audit_key" -> Written("k0", "setup")
                       [] p = "policy" -> Written("expected", "setup")
                       [] p = "ledger" -> [Written("entries", "setup") EXCEPT !.entries = OldLedger]]

SetupInit ==
    /\ \/ file = NoFiles /\ dirs \in {{}, {"config_dir"}} /\ installed = FALSE
       \/ /\ file = [NoFiles EXCEPT !["audit_key"] = Written("k0", "operator")]
          /\ dirs = {"state_dir"} /\ installed = FALSE
       \/ /\ \E c \in {"expected", "other"} :
               file = [NoFiles EXCEPT !["policy"] = Written(c, "operator")]
          /\ dirs = {"config_dir"} /\ installed = FALSE
       \/ file = OldHost /\ dirs = {"config_dir", "state_dir"} /\ installed = TRUE
    /\ loose = {} /\ journal = FALSE /\ sock = Absent /\ sessionPolicy \in BOOLEAN
    /\ act = NoCommand /\ result = "none"
    /\ commands = 0 /\ edits = 0 /\ setupFaults = 0

\* The steps of a running command.
Execute ==
    \/ existing_config \/ migrate \/ validate_existing
    \/ \E d \in Dirs : ensure_directory(d)
    \/ create_audit_key \/ create_policy \/ create_config
    \/ write_or_validate_setup_ledger \/ write_exact \/ Undo
    \/ execute_setup_adoption \/ confirm_cleanup \/ execute_setup_cleanup

SetupNext ==
    \/ Execute \/ WriteFails \/ DirectoryFails \/ MigrationFails \/ Dies
    \/ setup_command \/ setup_adopt_command \/ setup_cleanup_command
    \/ StartsServing \/ StopsServing \/ Operator

-----------------------------------------------------------------------------
(* Properties.                                                             *)

\* Rollback and cleanup remove no file that setup did not write itself or
\* that was changed since, whatever ledger an earlier, dead or older command
\* left behind.
OnlyOwnIsRemoved ==
    [][\A p \in Files :
         file[p] # Absent /\ file'[p] = Absent /\ edits' = edits => file[p].by = "setup"]_setupVars

\* Setup that answers with an error leaves every file as it found it, except
\* that a configuration may have been migrated.
FailureLeavesNothing ==
    [][act.pc # "idle" /\ act'.pc = "idle" /\ setupFaults' = setupFaults
         /\ act.kind = "setup" /\ result' = "refused" =>
         \A p \in Files : \/ file'[p] = act.before[p]
                          \/ p = "config" /\ act.migrate /\ file'[p].content = "current"]_setupVars

Usable ==
    /\ load_config /\ valid_audit_key /\ Readable("policy")
    /\ {"config_dir", "state_dir"} \subseteq dirs
    /\ Content("config") = "current" => "runtime_dir" \in dirs

\* Once setup has succeeded the daemon finds what it needs until cleanup is
\* confirmed or somebody takes it away, also while setup is run again,
\* migrates the configuration, fails or dies.
SuccessIsUsable ==
    /\ installed => Usable
    /\ installed /\ result = "ok" => load_setup_ledger

HalfWritten == \E p \in Files : Content(p) = "torn"

\* Setup run again and again succeeds, wherever an earlier setup or cleanup
\* died or failed, unless that was inside a file, or between making a
\* directory and restricting its mode, which every later setup refuses, or a
\* person or the environment is in the way.
SetupConverges ==
    []<>(act.pc # "idle") =>
        []<>(\/ installed /\ result = "ok"
             \/ HalfWritten \/ loose # {} \/ edits > 0 \/ ~sessionPolicy \/ sock = "volatile_dir"
             \/ Content("policy") = "other")
================================================================================
