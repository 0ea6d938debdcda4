---------------------------- MODULE RuntimePolicy ----------------------------
(***************************************************************************)
(* The session policy: the operator commands that stage a harness and      *)
(* rewrite the policy file (src/src/host/runtime_policy.cpp,               *)
(* runtime_snapshot.cpp), and the validator with which the daemon admits   *)
(* plans against the policy it loaded (src/src/supervisor/session_plan.cpp)*)
(*                                                                         *)
(* A command is a process.  It plans from the installed harness, takes the *)
(* flock next to the policy, derives the next revision, stages the harness *)
(* again (now for real) and renames the new policy into place.  `policy    *)
(* stage' runs the staging part alone, without the lock.  Commands         *)
(* interleave, die, and meet a harness that is upgraded under them.        *)
(*                                                                         *)
(* A harness is the version its two closure roots (package, interpreter)   *)
(* hold; the digest of a closure is that version.  A policy is its         *)
(* revision, the options it was prepared with and the launch target: the   *)
(* rest of its text follows from these.  Candidate and staging files carry *)
(* the writer's pid in their names: no other process sees them, they are   *)
(* part of the command.  Time is counted in half seconds.                  *)
(***************************************************************************)
EXTENDS Integers, Sequences, FiniteSets, SequencesExt, TLC

CONSTANTS
    Commands,     \* the processes of the operator
    Versions,     \* the versions of the harness
    Options,      \* the options commands are run with
    PlanShapes,   \* the plans a client submits, but for revision, command, expiry
    MaxRevision,  \* the largest revision (2^64 - 1 in the code)
    MaxTtl,       \* max_plan_ttl_ms, in half seconds
    MaxTime,      \* bound: the clock
    MaxRuns,      \* bound: commands started
    MaxUpgrades,  \* bound: harness upgrades
    MaxFaults,    \* bound: crashes and failing system calls
    None

ASSUME PolicyAssumption ==
    /\ {MaxRevision, MaxTtl, MaxTime, MaxRuns, MaxUpgrades, MaxFaults} \subseteq Nat
    /\ MaxRevision > 0 /\ None \notin Commands \cup Versions /\ "installed" \notin Versions
    /\ None \notin [revision : Nat, options : Options, target : Versions \cup {"installed"}]
    /\ None \notin [content : Seq(Versions), sealed : BOOLEAN]

VARIABLES
    source,    \* the version installed on the host
    trusted,   \* the installed closure lies under trusted directories only
    policy,    \* the policy file: None or [revision, options, target]
    snaps,     \* digest -> None or [content, sealed]
    entry,     \* the protected entry point: None, "installed" or a digest
    lock,      \* who holds the policy update lock
    cmd,       \* the state of each command
    daemon,    \* None or the policy the running daemon loaded
    plan,      \* None or an admitted plan and the policy that admitted it
    launched,  \* None or the last launch of this daemon
    now, runs, upgrades, faults

files == <<policy, snaps, entry, lock>>
service == <<daemon, plan, launched, now>>
vars == <<source, trusted, files, cmd, service, runs, upgrades, faults>>

Idle == [pc |-> "idle"]
Installed == "installed"

-----------------------------------------------------------------------------
(* What prepare_session_policy writes for its options.                     *)

\* An owner-only, single-link regular file; a symbolic link is not.
canonical_owner_secret(o) == o.secretFileSafe

valid_egress_options(o) == "no-network" \notin o.egress
valid_secret_options(o) == o.secrets # {} => canonical_owner_secret(o)

\* Options a command refuses before it touches anything.
valid_options(o) ==
    /\ o.hostile => o.backend = "linux_production" /\ o.egress = {} /\ o.secrets = {}
    /\ valid_egress_options(o) /\ valid_secret_options(o)

\* generate_runtime_policy: adapter_command_digest commits to the launch.
runtime_template(p) ==
    [id |-> IF p.options.hostile THEN "hostile-analysis" ELSE "safe",
     runtime |-> "codex", command |-> p.target, launch |-> p.target,
     backend |-> p.options.backend,
     aliases |-> {"workspace"}, destinations |-> {"libraries"}]

workspace_access(p) ==
    IF p.options.hostile THEN {"ephemeral_write"}
                         ELSE {"read", "ephemeral_write", "retained_write"}
resource_profiles(p) ==
    IF p.options.hostile THEN {"hostile"} ELSE {"small", "interactive"}
egress_policy_ids(p) == {"no-network"} \cup p.options.egress

\* Seconds of wall time a profile allows; a plan must be able to outlive it.
wall_time(profile) ==
    CASE profile = "hostile" -> 60 [] profile = "small" -> 120 [] profile = "interactive" -> 300
max_plan_ttl_secs == 600

-----------------------------------------------------------------------------
(* The validator.                                                          *)

validate_runtime_policy(t) == t.command = t.launch
valid_egress_policies(p) == p.options.egress \subseteq egress_policy_ids(p)
valid_secret_mounts(p) == runtime_template(p).runtime = "codex"

\* session_plan_validator::build.
build(p) ==
    /\ p.revision \in 1 .. MaxRevision
    /\ valid_egress_policies(p) /\ valid_secret_mounts(p)
    /\ validate_runtime_policy(runtime_template(p))
    /\ runtime_template(p).destinations \subseteq {"libraries"}
    /\ \A r \in resource_profiles(p) : max_plan_ttl_secs >= wall_time(r) + 1

\* session_plan_validator::load of a file that may be missing.
valid_policy(p) ==
    /\ p # None /\ resource_profiles(p) # {} /\ workspace_access(p) # {}
    /\ build(p)

canonical_unique(names) ==
    \A i \in 2 .. Len(names) : names[i - 1] < names[i]

\* Schema 1 rounds the time a plan has left up to seconds, schema 2 down.
remaining_ttl_secs(pl, at) ==
    IF pl.schema = 1 THEN (pl.expires - at + 1) \div 2 ELSE (pl.expires - at) \div 2

validate_path_projection(p, pl, at) ==
    /\ canonical_unique([i \in DOMAIN pl.grants |-> pl.grants[i].name])
    /\ \A g \in Range(pl.grants) :
         /\ g.ttl <= remaining_ttl_secs(pl, at)
         /\ IF pl.schema = 1
            THEN /\ g.alias \in runtime_template(p).aliases
                 /\ g.access \in workspace_access(p) \ {"retained_write"}
            ELSE g.exposed

validate_remote_constraints(pl) ==
    pl.backend = "remote_linux_container" =>
        /\ pl.secrets = <<>>
        /\ \A g \in Range(pl.grants) : g.access \notin {"direct_write", "retained_write"}

validate_library_projection(p, pl) ==
    /\ canonical_unique([i \in DOMAIN pl.libraries |-> pl.libraries[i].name])
    /\ \A l \in Range(pl.libraries) : l.alias \in runtime_template(p).destinations

\* No template a command writes is the refinement template.
validate_refinement_plan(pl) == ~pl.refinement

validate_secret_projection(p, pl) ==
    canonical_unique(pl.secrets) /\ Range(pl.secrets) \subseteq p.options.secrets

same_revision(p, pl) == pl.revision = p.revision

validate_json(p, pl, at) ==
    /\ same_revision(p, pl)
    /\ pl.expires > at /\ pl.expires - at <= MaxTtl
    /\ LET t == runtime_template(p)
       IN  /\ pl.template = t.id /\ pl.runtime = t.runtime
           /\ pl.command = t.command /\ pl.backend = t.backend
    /\ validate_remote_constraints(pl)
    /\ pl.egress \in egress_policy_ids(p) /\ pl.tool = "sage-readonly"
    /\ pl.profile \in resource_profiles(p)
    /\ validate_path_projection(p, pl, at)
    /\ validate_library_projection(p, pl)
    /\ validate_refinement_plan(pl)
    /\ validate_secret_projection(p, pl)

-----------------------------------------------------------------------------
(* Steps of a command.                                                     *)

At(c, pc) == cmd[c].pc = pc
Goto(c, pc) == cmd' = [cmd EXCEPT ![c].pc = pc]
KeepRest == UNCHANGED <<source, trusted, service, runs, upgrades>>

\* A command returns, with or without an error: ~policy_update_lock runs.
End(c) ==
    /\ cmd' = [cmd EXCEPT ![c] = Idle]
    /\ lock' = IF lock = c THEN None ELSE lock

\* A system call of the step fails and nothing of it remains.
Fails(c) == faults < MaxFaults /\ faults' = faults + 1 /\ End(c)

\* The closure and what it needs lie under trusted directories.
closure_launch_is_trusted == trusted

\* A plan names the snapshot for the digest of the closure as it is now.
plan_runtime_snapshot == source

\* derive_runtime_dependency_closure: what staging the harness as it is
\* installed now would launch.
launch_target == IF closure_launch_is_trusted THEN Installed ELSE plan_runtime_snapshot

\* The digest of two copied roots: a version, if both are of that version.
snapshot_tree_digest(copy) == IF copy[1] = copy[2] THEN copy[1] ELSE None

\* An entry point of setup's own is replaceable, anything else is not.
entry_acceptable(t) == entry \in {None, t} \cup Versions /\ (entry \in Versions => snaps[entry] # None)

\* The checks and the dry staging of prepare_session_policy, or `policy stage'.
Begin(c, o) ==
    /\ At(c, "idle") /\ runs < MaxRuns /\ runs' = runs + 1
    /\ valid_options(o) /\ entry_acceptable(launch_target)
    /\ cmd' = [cmd EXCEPT ![c] =
         [pc |-> IF o.kind = "stage" THEN "stage" ELSE "lock", options |-> o,
          planned |-> launch_target, target |-> None, exists |-> FALSE,
          relink |-> FALSE, copy |-> <<>>, update |-> None, previous |-> None]]
    /\ UNCHANGED <<source, trusted, files, service, upgrades, faults>>

\* Mutant: the update is not serialized.
AcquireLock_Shared(c) ==
    /\ At(c, "lock") /\ Goto(c, "derive")
    /\ UNCHANGED <<files, faults>> /\ KeepRest

AcquireLock(c) ==
    /\ At(c, "lock") /\ lock = None
    /\ lock' = c /\ Goto(c, "derive")
    /\ UNCHANGED <<policy, snaps, entry, faults>> /\ KeepRest

\* The candidate at the existing revision tells whether anything changed.
derive_policy_update(c) ==
    LET fresh == [revision |-> 1, options |-> cmd[c].options, target |-> cmd[c].planned]
        same == policy # None /\ [fresh EXCEPT !.revision = policy.revision] = policy
    IN  IF policy = None THEN fresh
        ELSE IF same THEN None
        ELSE [fresh EXCEPT !.revision = policy.revision + 1]

DerivePolicyUpdate(c) ==
    /\ At(c, "derive") /\ UNCHANGED <<policy, snaps, entry, faults>> /\ KeepRest
    /\ LET update == derive_policy_update(c)
       IN  IF policy # None /\ (~valid_policy(policy)
                \/ (update # None /\ policy.revision = MaxRevision))
           THEN End(c)
           ELSE /\ cmd' = [cmd EXCEPT ![c].pc = "stage", ![c].update = update,
                                      ![c].previous = policy]
                /\ UNCHANGED lock

\* stage_runtime_harness_impl, from the harness as it is installed by now.
Stage(c) ==
    /\ At(c, "stage") /\ UNCHANGED <<policy, snaps, entry, faults>> /\ KeepRest
    /\ IF ~entry_acceptable(launch_target) THEN End(c)
       ELSE /\ cmd' = [cmd EXCEPT ![c].target = launch_target,
                                  ![c].exists = entry # None,
                                  ![c].relink = entry # launch_target,
                                  ![c].pc = IF trusted THEN "link" ELSE "materialize"]
            /\ UNCHANGED lock

\* materialize_runtime_snapshot of a digest that exists already: only a
\* sealed root with the bytes of its name is reused.
ReuseSnapshot(c) ==
    /\ At(c, "materialize") /\ UNCHANGED <<policy, snaps, entry, faults>> /\ KeepRest
    /\ LET s == snaps[cmd[c].target]
       IN  /\ s # None
           /\ IF s.sealed /\ snapshot_tree_digest(s.content) = cmd[c].target
              THEN Goto(c, "link") /\ UNCHANGED lock
              ELSE End(c)

\* One closure root is copied into the staging directory.
CopyRoot(c) ==
    /\ At(c, "materialize") \/ At(c, "copy")
    /\ At(c, "materialize") => snaps[cmd[c].target] = None
    /\ cmd' = [cmd EXCEPT ![c].copy = Append(@, source),
                          ![c].pc = IF cmd[c].copy = <<>> THEN "copy" ELSE "verify"]
    /\ UNCHANGED <<files, faults>> /\ KeepRest

\* Mutant: the copy is published without being hashed again.
VerifyCopy_Trusting(c) ==
    /\ At(c, "verify") /\ Goto(c, "publish")
    /\ UNCHANGED <<files, faults>> /\ KeepRest

VerifyCopy(c) ==
    /\ At(c, "verify") /\ UNCHANGED <<policy, snaps, entry, faults>> /\ KeepRest
    /\ IF snapshot_tree_digest(cmd[c].copy) = cmd[c].target
       THEN Goto(c, "publish") /\ UNCHANGED lock
       ELSE End(c)

\* rename onto a directory that exists fails; its bytes decide.
PublishSnapshot(c) ==
    /\ At(c, "publish") /\ UNCHANGED <<policy, entry, faults>> /\ KeepRest
    /\ LET d == cmd[c].target
       IN  \/ /\ snaps[d] = None
              /\ snaps' = [snaps EXCEPT ![d] = [content |-> cmd[c].copy, sealed |-> FALSE]]
              /\ Goto(c, "seal") /\ UNCHANGED lock
           \/ /\ snaps[d] # None /\ UNCHANGED snaps
              /\ IF snapshot_tree_digest(snaps[d].content) = d THEN Goto(c, "link") /\ UNCHANGED lock
                                                ELSE End(c)

\* When the chmod fails the snapshot is removed as far as the read-only
\* directories in it let their owner: it goes, or stays as it is.
SealSnapshot(c) ==
    /\ At(c, "seal") /\ UNCHANGED <<policy, entry>> /\ KeepRest
    /\ \/ /\ snaps' = [snaps EXCEPT ![cmd[c].target].sealed = TRUE]
          /\ Goto(c, "link") /\ UNCHANGED <<lock, faults>>
       \/ /\ snaps' \in {[snaps EXCEPT ![cmd[c].target] = None], snaps}
          /\ Fails(c)

\* The symbolic link is replaced by rename, unless it pointed there before.
LinkEntry(c) ==
    /\ At(c, "link") /\ UNCHANGED <<policy, snaps, lock, faults>> /\ KeepRest
    /\ entry' = IF cmd[c].relink THEN cmd[c].target ELSE entry
    /\ Goto(c, "resolve")

\* resolve_runtime_executable through the link just made.
ResolveEntry(c) ==
    /\ At(c, "resolve") /\ UNCHANGED <<policy, snaps, faults>> /\ KeepRest
    /\ LET t == cmd[c].target
           resolved == entry = t /\ (t \in Versions => snaps[t] # None)
       IN  \/ /\ resolved /\ UNCHANGED entry
              /\ IF cmd[c].options.kind = "stage" \/ cmd[c].update = None
                 THEN End(c) ELSE Goto(c, "check") /\ UNCHANGED lock
           \/ /\ ~resolved /\ End(c)
              /\ entry' = IF cmd[c].exists THEN entry ELSE None

\* activate_policy_update: the candidate is written and validated, and the
\* policy read once more.
CheckCurrent(c) ==
    /\ At(c, "check") /\ UNCHANGED <<policy, snaps, entry>> /\ KeepRest
    /\ \/ /\ valid_policy(cmd[c].update) /\ policy = cmd[c].previous
          /\ Goto(c, "activate") /\ UNCHANGED <<lock, faults>>
       \/ /\ ~valid_policy(cmd[c].update) \/ policy # cmd[c].previous
          /\ End(c) /\ UNCHANGED faults
       \/ Fails(c)

\* The rename; a failing directory sync after it only changes the answer.
ActivatePolicy(c) ==
    /\ At(c, "activate") /\ UNCHANGED <<snaps, entry, faults>> /\ KeepRest
    /\ policy' = cmd[c].update /\ End(c)

\* The process dies; the kernel drops its lock, its own files stay as litter.
Crash(c) ==
    /\ ~At(c, "idle") /\ Fails(c)
    /\ UNCHANGED <<policy, snaps, entry>> /\ KeepRest

Step(c) ==
    \/ DerivePolicyUpdate(c) \/ Stage(c) \/ ReuseSnapshot(c) \/ CopyRoot(c)
    \/ VerifyCopy(c) \/ PublishSnapshot(c) \/ SealSnapshot(c) \/ LinkEntry(c)
    \/ ResolveEntry(c) \/ CheckCurrent(c) \/ ActivatePolicy(c)

-----------------------------------------------------------------------------
(* The host and the operator around the commands.                          *)

UpgradeHarness(v) ==
    /\ upgrades < MaxUpgrades /\ upgrades' = upgrades + 1
    /\ v # source /\ source' = v
    /\ UNCHANGED <<trusted, files, cmd, service, runs, faults>>

\* A hand edit takes the next revision but not the lock.  The window between
\* a command's last look at the file and its rename is left out, see README.
EditPolicy(o) ==
    /\ upgrades < MaxUpgrades /\ upgrades' = upgrades + 1
    /\ policy # None /\ policy.revision < MaxRevision
    /\ \A c \in Commands : ~At(c, "activate")
    /\ valid_options(o) /\ o # policy.options
    /\ policy' = [policy EXCEPT !.revision = @ + 1, !.options = o]
    /\ UNCHANGED <<source, trusted, snaps, entry, lock, cmd, service, runs, faults>>

KeepHost == UNCHANGED <<source, trusted, files, cmd, runs, upgrades, faults>>

\* gloved loads the policy once, when it starts.
StartDaemon ==
    /\ daemon = None /\ valid_policy(policy)
    /\ daemon' = policy /\ UNCHANGED <<plan, launched, now>> /\ KeepHost

StopDaemon ==
    /\ daemon # None /\ daemon' = None /\ launched' = None
    /\ UNCHANGED <<plan, now>> /\ KeepHost

\* session_registry admits a plan with canonicalize_json; the plan outlives
\* the daemon in the session journal.
AdmitPlan(shape, r, t, x) ==
    /\ daemon # None /\ plan = None
    /\ LET pl == shape @@ [revision |-> r, command |-> t, expires |-> x]
       IN  /\ validate_json(daemon, pl, now)
           /\ plan' = [document |-> pl, admitted |-> daemon]
    /\ launched' = None
    /\ UNCHANGED <<daemon, now>> /\ KeepHost

\* The secret and egress policies a launch gets are the validator's.
resolve_runtime_launch_json(p, pl) ==
    [policy |-> p, target |-> p.target, egress |-> {pl.egress} \cap p.options.egress,
     secrets |-> Range(pl.secrets)]

\* A launch validates the stored plan again, against the policy loaded now;
\* executing a snapshot that does not exist fails.
Launch ==
    /\ daemon # None /\ plan # None
    /\ validate_json(daemon, plan.document, now)
    /\ daemon.target \in Versions => snaps[daemon.target] # None
    /\ launched' = [launch |-> resolve_runtime_launch_json(daemon, plan.document),
                    admitted |-> plan.admitted, document |-> plan.document, at |-> now,
                    ran |-> IF daemon.target = Installed THEN <<>>
                            ELSE snaps[daemon.target].content]
    /\ plan' = None
    /\ UNCHANGED <<daemon, now>> /\ KeepHost

\* A stored plan that no longer passes stays refused.
DropPlan ==
    /\ daemon # None /\ plan # None
    /\ ~validate_json(daemon, plan.document, now)
    /\ plan' = None /\ UNCHANGED <<daemon, launched, now>> /\ KeepHost

Tick ==
    /\ now < MaxTime /\ now' = now + 1
    /\ UNCHANGED <<daemon, plan, launched>> /\ KeepHost

-----------------------------------------------------------------------------
Init ==
    /\ source \in Versions /\ trusted \in BOOLEAN
    /\ policy = None /\ snaps = [d \in Versions |-> None] /\ entry = None
    /\ lock = None /\ cmd = [c \in Commands |-> Idle]
    /\ daemon = None /\ plan = None /\ launched = None /\ now = 0
    /\ runs = 0 /\ upgrades = 0 /\ faults = 0

Next ==
    \/ \E c \in Commands :
         \/ \E o \in Options : Begin(c, o)
         \/ AcquireLock(c) \/ Step(c) \/ Crash(c)
    \/ \E v \in Versions : UpgradeHarness(v)
    \/ \E o \in Options : EditPolicy(o)
    \/ StartDaemon \/ StopDaemon
    \/ \E s \in PlanShapes, r \in 1 .. MaxRevision, t \in Versions \cup {Installed},
          x \in now + 1 .. now + MaxTtl : AdmitPlan(s, r, t, x)
    \/ Launch \/ DropPlan \/ Tick

Spec == Init /\ [][Next]_vars

\* A running process is scheduled; with MaxRuns commands in all, a waiter gets
\* the lock once it stays free.
FairSpec == Spec /\ \A c \in Commands : WF_vars(AcquireLock(c) \/ Step(c))

-----------------------------------------------------------------------------
(* Properties.                                                             *)

\* Whatever commands overlap, fail or die, each change of the policy file
\* takes exactly the next revision: no two policies carry one revision and no
\* update is lost between derive_policy_update and the rename.
RevisionsAdvance ==
    [][policy' # policy =>
         policy'.revision = (IF policy = None THEN 0 ELSE policy.revision) + 1]_vars

\* A published snapshot holds the bytes its name digests, although the harness
\* is upgraded while it is copied and two stagings race for one name.
SnapshotIsWhole == \A d \in Versions : snaps[d] # None => snaps[d].content = <<d, d>>

\* A plan is launched only under the very policy that admitted it, before it
\* expires, with no more than it asked for, and a launch from a snapshot runs
\* the bytes the policy commits to: across updates, edits and daemon restarts.
LaunchIsAuthorized ==
    launched # None =>
        /\ launched.launch.policy = launched.admitted
        /\ launched.at < launched.document.expires
        /\ launched.launch.egress \subseteq {launched.document.egress}
        /\ launched.launch.target = launched.document.command
        /\ launched.launch.target \in Versions =>
               launched.ran = <<launched.launch.target, launched.launch.target>>

\* Every command returns: none waits for ever on the update lock.
CommandsFinish == \A c \in Commands : []<>At(c, "idle")
=============================================================================
