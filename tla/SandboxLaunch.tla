---------------------------- MODULE SandboxLaunch ----------------------------
(***************************************************************************)
(* How glove turns a validated profile into a contained process on Linux   *)
(* (src/src/container/linux/clone_spawner.cpp), what a managed launch      *)
(* commits to before (managed_launch_binding.cpp) and the descriptor       *)
(* bridge it may get (linux_egress_bridge.cpp).                            *)
(*                                                                         *)
(* Parent and child run concurrently after clone3.  Each walks an order    *)
(* of steps, `parent' and `child' name the step each is about to take.     *)
(* The child holds a copy of the parent's descriptor table, waits on the   *)
(* sync pipe, builds its root, seals itself and executes the agent.  A     *)
(* step may fail, the cgroup may be killed, the file at the program's path *)
(* may be replaced, and the supervisor may die, at any point.              *)
(*                                                                         *)
(* A path is the sequence of its components; a file's identity (device,    *)
(* inode and content digest) is a number.                                  *)
(***************************************************************************)
EXTENDS Integers, Sequences, FiniteSets, SequencesExt

CONSTANTS
    Jobs,       \* the launches considered, see MCSessionLaunch
    MaxFd,      \* bound: the descriptor numbers 0 .. MaxFd
    MaxFaults,  \* bound: failing steps
    MaxReplace  \* bound: replacements of the file at the program's path

\* At most 16 streams are inherited.
StreamName ==
    <<"stream1", "stream2", "stream3", "stream4", "stream5", "stream6", "stream7", "stream8",
      "stream9", "stream10", "stream11", "stream12", "stream13", "stream14", "stream15",
      "stream16">>

\* A process has descriptors for stdio; only a managed launch has session mounts.
ASSUME LaunchAssumption ==
    /\ MaxFd \in Nat /\ MaxFd >= 2 /\ MaxFaults \in Nat /\ MaxReplace \in Nat
    /\ \A j \in Jobs :
          /\ j.kind \in {"mcp", "exec", "managed", "pty"}
          /\ j.streams \in 0 .. Len(StreamName)
          /\ j.layout \in Seq(STRING) /\ j.program \in Seq(STRING)
          /\ j.rules \in Seq(Seq(STRING))
          /\ j.mounts \in Seq(Range(j.mounts))
          /\ \A m \in Range(j.mounts) : m.target \in Seq(STRING)
          /\ j.kind \in {"mcp", "exec"} => j.mounts = <<>>

VARIABLES
    job,      \* the launch: kind, network, mounts, descriptor layout, ...
    host,     \* identity of the file at the program's path on the host
    commit,   \* identity in the binding the controller approved
    held,     \* identity behind executable_mount
    parent, child,
    fds,      \* the child's descriptor table
    mountTable, \* the mounts of the child's root, oldest first
    denied,   \* system calls the child's seccomp filter refuses
    armed,    \* the parent-death signal is installed
    mapped,   \* uid_map and gid_map are written
    grouped,  \* the child is a member of the session's cgroup
    acked,    \* a byte is in the sync pipe
    done,     \* the parent's completed steps
    image,    \* identity of the executed program
    alive,    \* the supervisor process exists
    faults

vars == <<job, host, commit, held, parent, child, fds, mountTable, denied, armed,
          mapped, grouped, acked, done, image, alive, faults>>

NoImage == -1
Closed == "closed"
Fds == 0 .. MaxFd
Managed == job.kind \in {"managed", "pty"}
bridged_loopback_port == job.net # "none"

-----------------------------------------------------------------------------
(* The launch binding of a managed session.                                *)

mount_within(candidate, under) == IsPrefix(under, candidate)
Overlapping(a, b) == mount_within(a, b) \/ mount_within(b, a)
Home == <<"home", "agent">>

valid_mount_source_identity(m) == m.ident # "none" /\ m.dir = (m.ident = "dir")

reserve_mount_projection(m, earlier) ==
    /\ m.target # <<>>
    /\ \A e \in Range(earlier) : e.alias # m.alias /\ e.target # m.target

validate_secret_mount(m) ==
    /\ m.secret # "" /\ m.alias = "secret"
    /\ m.target # Home /\ mount_within(m.target, Home)
    /\ valid_mount_source_identity(m) /\ ~m.dir
    /\ ~m.library /\ m.adapter = "" /\ ~m.adoption /\ ~m.service
    /\ m.part = "" /\ m.bytes = 0

validate_read_only_mount(m, earlier) ==
    /\ m.part = "" /\ m.bytes = 0 /\ m.adapter = "" /\ ~m.adoption
    /\ valid_mount_source_identity(m)
    /\ CASE m.secret # "" -> validate_secret_mount(m)
         [] m.secret = "" /\ m.service ->
              /\ \A e \in Range(earlier) : ~e.service
              /\ m.alias = "local-services" /\ m.dir /\ ~m.library
              /\ m.target = <<"run", "glove-services", "local">>
         [] m.secret = "" /\ ~m.service /\ m.library -> ~m.dir
         [] OTHER -> TRUE

Partitioned(ms) == {m \in Range(ms) : m.writable /\ m.secret = ""}

validate_writable_mount(m, earlier) ==
    \/ m.secret # "" /\ validate_secret_mount(m)
    \/ /\ m.secret = "" /\ m.part # "" /\ m.bytes > 0 /\ ~m.library /\ ~m.service
       /\ \A e \in Partitioned(earlier) : e.part = m.part => e.bytes = m.bytes
       /\ \/ /\ m.adapter # "" /\ m.part = "scratch" /\ m.alias = "runtime-home"
             /\ m.target = Home /\ m.ident = "none" /\ m.dir
             /\ m.adoption => m.adapter = "pi"
             /\ \A e \in Range(earlier) : e.adapter = ""
          \/ /\ m.adapter = "" /\ ~m.adoption /\ m.part = "scratch"
             /\ <<m.alias, m.target>> \in { <<"scratch-tmp", <<"tmp">>>>,
                                            <<"scratch-var", <<"var", "tmp">>>> }
             /\ m.ident = "none" /\ m.dir
          \/ /\ m.adapter = "" /\ ~m.adoption /\ m.part # "scratch"
             /\ m.part = m.alias /\ valid_mount_source_identity(m)

validate_mount_projection_entry(m, earlier) ==
    /\ reserve_mount_projection(m, earlier)
    /\ IF m.writable THEN validate_writable_mount(m, earlier)
                     ELSE validate_read_only_mount(m, earlier)

\* The home and a secret of the same runtime beneath it, in either order.
allowed_secret_home_overlap(a, b) ==
    \E home, secret \in {a, b} :
        /\ home.adapter # "" /\ home.target = Home
        /\ secret.secret = home.adapter
        /\ secret.target # Home /\ mount_within(secret.target, Home)

QuotaTotal(ms) ==
    LET parts == {m.part : m \in Partitioned(ms)}
        bytes(p) == (CHOOSE m \in Partitioned(ms) : m.part = p).bytes
    IN  FoldSet(LAMBDA p, sum : sum + bytes(p), 0, parts)

validate_mount_projection(ms, limit, home) ==
    /\ Len(ms) >= 2
    /\ \A i \in DOMAIN ms :
          validate_mount_projection_entry(ms[i], SubSeq(ms, 1, i - 1))
    /\ \A i, k \in DOMAIN ms :
          i < k /\ Overlapping(ms[i].target, ms[k].target)
              => allowed_secret_home_overlap(ms[i], ms[k])
    /\ Cardinality({m \in Range(ms) : m.writable /\ m.secret = ""
                        /\ m.adapter = "" /\ m.part = "scratch"}) = 2
    /\ home = (\E m \in Range(ms) : m.adapter # "")
    /\ QuotaTotal(ms) = limit

\* The descriptor environment and the service directory exclude each other.
validate_inherited_streams(n, env, serviceMounts) ==
    IF n = 0 THEN "fds" \notin env
             ELSE serviceMounts = 0 /\ "dir" \notin env /\ "fds" \in env

bind_managed_launch_projection ==
    LET ms == job.mounts
        serviceMounts == Cardinality({m \in Range(ms) : m.service})
    IN  /\ job.net # "bridge"
        /\ \/ job.workDir = <<"workspace">>
           \/ job.workDir = Home /\ job.home
        /\ validate_mount_projection(ms, job.diskBytes, job.home)
        /\ validate_inherited_streams(job.streams, job.env, serviceMounts)
        /\ serviceMounts = Cardinality(job.env \cap {"dir"})
        /\ \E m \in Range(ms) : mount_within(m.target, job.workDir)

\* The spawner's own check of the mounts, in the order they will be attached.
validate_managed_mounts(ms) ==
    /\ Len(ms) >= 2
    /\ \A m \in Range(ms) : m.target # <<>> /\ ~Overlapping(m.target, job.program)
    /\ \A i, k \in DOMAIN ms : i < k /\ Overlapping(ms[i].target, ms[k].target)
          => /\ ms[i].adapter # "" /\ ms[i].target = Home
             /\ ms[k].secret = ms[i].adapter
             /\ ms[k].target # Home /\ mount_within(ms[k].target, Home)
    /\ \E m \in Range(ms) : m.target = <<"tmp">>
    /\ \E m \in Range(ms) : m.target = <<"var", "tmp">>

prepare_managed_launch ==
    /\ job.limitsMatch
    /\ validate_managed_mounts(job.mounts)
    /\ bind_managed_launch_projection

Init ==
    /\ job \in Jobs
    /\ host = 0 /\ commit = NoImage /\ held = NoImage
    /\ parent = "bind" /\ child = "none"
    /\ fds = [n \in Fds |-> Closed] /\ mountTable = <<>> /\ denied = {}
    /\ armed = FALSE /\ mapped = FALSE /\ grouped = FALSE /\ acked = FALSE
    /\ done = {} /\ image = NoImage /\ alive = TRUE /\ faults = 0

-----------------------------------------------------------------------------
(* The parent.                                                             *)

\* Each order ends at "launched".
spawn_order == <<"clone", "uid_map", "egress", "ack", "output", "launched">>

launch_passthrough_child ==
    <<"clone", "uid_map", "attach", "egress", "output", "gate", "ack", "launched">>

launch_pty_child ==
    <<"clone", "uid_map", "attach", "egress", "output", "gate", "ack", "launched">>

Order == CASE job.kind = "mcp" -> spawn_order
           [] job.kind \in {"exec", "managed"} -> launch_passthrough_child
           [] job.kind = "pty" -> launch_pty_child

\* A step that does not apply is passed over.
Applies(s) ==
    /\ s = "egress" => bridged_loopback_port
    /\ s \in {"attach", "output", "gate"} => job.kind # "exec"

Later(s) == {k \in DOMAIN Order : Applies(Order[k]) /\ \E i \in 1 .. k - 1 : Order[i] = s}

ParentAt(s) == alive /\ parent = s
ParentDone(s) ==
    /\ parent' = Order[Min(Later(s))]
    /\ done' = done \cup {s}
ChildUnchanged == UNCHANGED <<child, fds, mountTable, denied, armed, image>>

\* Preparation binds a managed launch; an unmanaged one starts at once.
bind_managed_session ==
    /\ ParentAt("bind")
    /\ IF ~Managed THEN parent' = "clone" /\ UNCHANGED commit
       ELSE IF prepare_managed_launch THEN parent' = "start" /\ commit' = host
       ELSE parent' = "refused" /\ UNCHANGED commit
    /\ UNCHANGED <<job, host, held, mapped, grouped, acked, done, alive, faults>>
    /\ ChildUnchanged

\* The start binds again, keeps the executable open, and compares.
start_managed_session ==
    /\ ParentAt("start")
    /\ held' = host
    /\ parent' = IF host = commit THEN "clone" ELSE "refused"
    /\ UNCHANGED <<job, host, commit, mapped, grouped, acked, done, alive, faults>>
    /\ ChildUnchanged

\* Objects a child of each kind inherits above stdio.
OpenObjects ==
    {"sync_r", "sync_w", "daemon"}
    \cup (IF bridged_loopback_port THEN {"egress_h", "egress_s"} ELSE {})
    \cup {StreamName[i] : i \in 1 .. job.streams}
    \cup (IF Managed THEN {"program", "mount"} ELSE {})
    \cup (IF job.kind = "pty" THEN {"master", "slave"} ELSE {})
    \cup (IF job.kind \in {"mcp", "managed"} THEN {"out_r", "out_w", "err_r", "err_w"} ELSE {})
    \cup (IF job.kind = "mcp" THEN {"in_r", "in_w"} ELSE {})

\* The k-th entry of the layout is the n-th that is open.
IsNth(k, n) ==
    /\ job.layout[k] \in OpenObjects
    /\ Cardinality({i \in 1 .. k : job.layout[i] \in OpenObjects}) = n

Inherited ==
    [n \in Fds |->
        IF n <= 2 THEN "host_stdio"
        ELSE IF \E k \in DOMAIN job.layout : IsNth(k, n - 2)
        THEN job.layout[CHOOSE k \in DOMAIN job.layout : IsNth(k, n - 2)]
        ELSE Closed]

CloseAll(t, objects) == [n \in Fds |-> IF t[n] \in objects THEN Closed ELSE t[n]]
Dup2(t, object, n) == [t EXCEPT ![n] = object]

\* Mutant: the child keeps its copy of the sync pipe's write end.
ChildTable_keeps_writer == CloseAll(Inherited, {"egress_h"})
ChildTable == CloseAll(Inherited, {"sync_w", "egress_h"})

clone3 ==
    /\ ParentAt("clone")
    /\ child' = "arm" /\ fds' = ChildTable
    /\ grouped' = (Managed /\ job.direct)
    /\ ParentDone("clone")
    /\ UNCHANGED <<job, host, commit, held, mountTable, denied, armed, mapped, acked,
                   image, alive, faults>>

setup_uid_map ==
    /\ ParentAt("uid_map")
    /\ mapped' = TRUE /\ ParentDone("uid_map")
    /\ UNCHANGED <<job, host, commit, held, grouped, acked, alive, faults>>
    /\ ChildUnchanged

attach ==
    /\ ParentAt("attach")
    /\ grouped' = TRUE /\ ParentDone("attach")
    /\ UNCHANGED <<job, host, commit, held, mapped, acked, alive, faults>>
    /\ ChildUnchanged

\* start_host_egress_bridge, output_pump or pty_session_channel, the gate.
ParentStep(s) ==
    /\ ParentAt(s)
    /\ ParentDone(s)
    /\ UNCHANGED <<job, host, commit, held, mapped, grouped, acked, alive, faults>>
    /\ ChildUnchanged
start_host_egress_bridge == ParentStep("egress")
create_output == ParentStep("output")
before_child_release == ParentStep("gate")

\* Writing to the pipe of a dead child raises SIGPIPE, which nobody masks.
acknowledge ==
    /\ ParentAt("ack")
    /\ IF child \in {"exited", "reaped"}
       THEN alive' = FALSE /\ UNCHANGED <<parent, done, acked>>
       ELSE acked' = TRUE /\ ParentDone("ack") /\ UNCHANGED alive
    /\ UNCHANGED <<job, host, commit, held, mapped, grouped, faults>>
    /\ ChildUnchanged

\* Close everything, SIGKILL, waitpid, return the error.
fail ==
    /\ parent' = "failed" /\ armed' = FALSE
    /\ child' = IF child = "none" THEN "none" ELSE "reaped"

ParentFails ==
    /\ alive /\ parent \in {"clone", "uid_map", "attach", "egress", "output", "gate"}
    /\ faults < MaxFaults /\ faults' = faults + 1
    /\ fail
    /\ UNCHANGED <<job, host, commit, held, fds, mountTable, denied, mapped, grouped,
                   acked, done, image, alive>>

\* linux_agent_handle::wait polls, sends SIGTERM, polls, sends SIGKILL.
wait ==
    /\ alive /\ job.kind = "mcp"
    /\ \/ /\ parent \in {"launched", "terminated"} /\ child = "exited"
          /\ parent' = "waited" /\ child' = "reaped"
       \/ /\ parent = "launched" /\ child # "exited"
          /\ parent' = "terminated"
          /\ child' \in {child, "exited"}
       \/ /\ parent = "terminated" /\ child # "exited"
          /\ parent' = "waited" /\ child' = "reaped"
    /\ UNCHANGED <<job, host, commit, held, fds, mountTable, denied, armed, mapped,
                   grouped, acked, done, image, alive, faults>>

-----------------------------------------------------------------------------
(* The child, between clone3 and execv.                                    *)

child_setup_and_exec ==
    <<"arm", "sync", "private", "rootfs", "pivot", "egress", "seccomp", "stdio",
      "workdir", "environment", "streams", "close", "exec", "agent">>

child_setup_and_exec_passthrough ==
    <<"arm", "sync", "private", "rootfs", "pivot", "capture", "egress", "seccomp",
      "workdir", "environment", "streams", "close", "exec", "agent">>

After(order, s) == order[1 + CHOOSE i \in DOMAIN order : order[i] = s]

ChildOrder == IF job.kind = "mcp" THEN child_setup_and_exec
              ELSE child_setup_and_exec_passthrough

\* A step that needs a denied call exits instead of advancing.
ChildAt(s, needs) ==
    /\ child = s
    /\ child' = IF needs \cap denied # {} THEN "exited"
                ELSE After(ChildOrder, s)
    /\ UNCHANGED <<job, host, commit, held, parent, mapped, grouped, done, alive, faults>>

set_parent_death_signal ==
    /\ ChildAt("arm", {})
    /\ armed' = TRUE
    /\ UNCHANGED <<fds, mountTable, denied, acked, image>>

read_sync ==
    /\ acked
    /\ ChildAt("sync", {})
    /\ acked' = FALSE /\ fds' = CloseAll(fds, {"sync_r"})
    /\ UNCHANGED <<mountTable, denied, armed, image>>

\* End of file: no process holds the write end any more.
sync_closed ==
    /\ child = "sync" /\ ~acked /\ ~alive /\ "sync_w" \notin Range(fds)
    /\ child' = "exited"
    /\ UNCHANGED <<job, host, commit, held, parent, fds, mountTable, denied, armed,
                   mapped, grouped, acked, done, image, alive, faults>>

mount_private ==
    /\ ChildAt("private", {"mount"})
    /\ UNCHANGED <<fds, mountTable, denied, armed, acked, image>>

Bound(target, what) == [target |-> target, what |-> what]

\* Runtime paths, the profile's closures, the program, then the session.
build_rootfs ==
    [i \in DOMAIN job.rules |-> Bound(job.rules[i], "host")]
    \o <<Bound(job.program, "program")>>
    \o [i \in DOMAIN job.mounts |-> Bound(job.mounts[i].target, i)]

\* An unmanaged program is bound by path, at this moment; a moved mount's
\* descriptor is closed.
rootfs ==
    /\ child = "rootfs"
    /\ child' = After(ChildOrder, "rootfs")
    /\ mountTable' = build_rootfs
    /\ held' = IF Managed THEN held ELSE host
    /\ fds' = CloseAll(fds, {"mount"})
    /\ UNCHANGED <<job, host, commit, parent, denied, armed, mapped, grouped,
                   acked, done, image, alive, faults>>

pivot_into ==
    /\ ChildAt("pivot", {"mount", "pivot_root"})
    /\ UNCHANGED <<fds, mountTable, denied, armed, acked, image>>

install_child_output_capture ==
    /\ ChildAt("capture", {})
    /\ fds' = CASE job.kind = "pty" ->
                     CloseAll(Dup2(Dup2(Dup2(CloseAll(fds, {"master"}), "slave_io", 0),
                                        "slave_io", 1), "slave_io", 2), {"slave"})
                [] job.kind = "managed" ->
                     CloseAll(Dup2(Dup2(fds, "out_io", 1), "err_io", 2),
                              {"out_r", "out_w", "err_r", "err_w"})
                [] OTHER -> fds
    /\ UNCHANGED <<mountTable, denied, armed, acked, image>>

\* The forwarder is forked here, before the filter, and keeps the channel.
install_sandbox_egress_bridge ==
    /\ ChildAt("egress", IF bridged_loopback_port
                         THEN {"socket", "bind", "listen"} ELSE {})
    /\ fds' = CloseAll(fds, {"egress_s"})
    /\ UNCHANGED <<mountTable, denied, armed, acked, image>>

restrict_inherited_socket_inspection(n) ==
    IF n = 0 THEN {"getsockname", "getsockopt"} ELSE {"getsockname_others"}

AlwaysDenied ==
    {"bind", "listen", "accept", "mount", "pivot_root", "setns", "ptrace", "bpf",
     "io_uring", "move_mount", "tiocsti"}

setup_seccomp(proxy, n) ==
    AlwaysDenied
    \cup (IF proxy THEN {"socket_unspec", "socket_other"}
          ELSE {"socket", "connect", "setsockopt"}
               \cup restrict_inherited_socket_inspection(n))

seccomp_load ==
    /\ ChildAt("seccomp", {})
    /\ denied' = setup_seccomp(bridged_loopback_port, job.streams)
    /\ UNCHANGED <<fds, mountTable, armed, acked, image>>

dup_stdio ==
    /\ ChildAt("stdio", {})
    /\ fds' = CloseAll(Dup2(Dup2(Dup2(fds, "in_io", 0), "out_io", 1), "err_io", 2),
                       {"in_r", "in_w", "out_r", "out_w", "err_r", "err_w"})
    /\ UNCHANGED <<mountTable, denied, armed, acked, image>>

change_directory ==
    /\ ChildAt("workdir", {})
    /\ UNCHANGED <<fds, mountTable, denied, armed, acked, image>>
install_environment ==
    /\ ChildAt("environment", {})
    /\ UNCHANGED <<fds, mountTable, denied, armed, acked, image>>

\* Mutant: each stream is moved straight to its number.
install_inherited_streams_direct(t, n) ==
    LET place(table, i) == IF \E f \in Fds : table[f] = StreamName[i]
                           THEN Dup2(table, StreamName[i], 2 + i) ELSE table
    IN  FoldLeft(place, t, [i \in 1 .. n |-> i])
\* All streams are first duplicated above the reserved numbers. Where fcntl or
\* dup3 fails the child exits, as at every other step of it (ChildFails).
install_inherited_streams(t, n) ==
    [f \in Fds |-> IF f \in 3 .. 2 + n THEN StreamName[f - 2] ELSE t[f]]

place_streams ==
    /\ ChildAt("streams", {})
    /\ fds' = install_inherited_streams(fds, job.streams)
    /\ UNCHANGED <<mountTable, denied, armed, acked, image>>

close_except_inherited ==
    /\ ChildAt("close", {})
    /\ fds' = [f \in Fds |-> IF f > 2 + job.streams THEN Closed ELSE fds[f]]
    /\ UNCHANGED <<mountTable, denied, armed, acked, image>>

\* What a path names: the newest mount at or above it.
Resolve(path) ==
    LET over == {i \in DOMAIN mountTable : mount_within(path, mountTable[i].target)}
    IN  IF over = {} THEN "nothing"
        ELSE mountTable[CHOOSE i \in over : \A k \in over : k <= i].what

execv ==
    /\ ChildAt("exec", {})
    /\ image' = IF Resolve(job.program) = "program" THEN held ELSE host
    /\ UNCHANGED <<fds, mountTable, denied, armed, acked>>

SetupSteps == Range(child_setup_and_exec) \cup Range(child_setup_and_exec_passthrough)

\* _Exit with the code of the step.
ChildFails ==
    /\ child \in SetupSteps \ {"agent"} /\ faults < MaxFaults
    /\ child' = "exited" /\ faults' = faults + 1
    /\ UNCHANGED <<job, host, commit, held, parent, fds, mountTable, denied, armed,
                   mapped, grouped, acked, done, image, alive>>

-----------------------------------------------------------------------------
(* The environment.                                                        *)

AgentExits ==
    /\ child = "agent" /\ child' = "exited"
    /\ UNCHANGED <<job, host, commit, held, parent, fds, mountTable, denied, armed,
                   mapped, grouped, acked, done, image, alive, faults>>

\* The resource monitor kills every member of the cgroup.
CgroupKilled ==
    /\ grouped /\ child \in SetupSteps /\ faults < MaxFaults
    /\ child' = "exited" /\ faults' = faults + 1
    /\ UNCHANGED <<job, host, commit, held, parent, fds, mountTable, denied, armed,
                   mapped, grouped, acked, done, image, alive>>

ReplaceProgram ==
    /\ host < MaxReplace /\ host' = host + 1
    /\ UNCHANGED <<job, commit, held, parent, child, fds, mountTable, denied, armed,
                   mapped, grouped, acked, done, image, alive, faults>>

SupervisorDies ==
    /\ alive /\ alive' = FALSE
    /\ child' = IF armed /\ child \in SetupSteps THEN "exited" ELSE child
    /\ UNCHANGED <<job, host, commit, held, parent, fds, mountTable, denied, armed,
                   mapped, grouped, acked, done, image, faults>>

ParentNext ==
    \/ bind_managed_session \/ start_managed_session \/ clone3 \/ setup_uid_map
    \/ attach \/ start_host_egress_bridge \/ create_output
    \/ before_child_release \/ acknowledge \/ wait
ChildNext ==
    \/ set_parent_death_signal \/ read_sync \/ sync_closed \/ mount_private \/ rootfs
    \/ pivot_into \/ install_child_output_capture \/ install_sandbox_egress_bridge
    \/ seccomp_load \/ dup_stdio \/ change_directory \/ install_environment
    \/ place_streams \/ close_except_inherited \/ execv
Next ==
    \/ ParentNext \/ ParentFails \/ ChildNext \/ ChildFails
    \/ AgentExits \/ CgroupKilled \/ ReplaceProgram \/ SupervisorDies

Spec == Init /\ [][Next]_vars
\* Both processes are scheduled; nothing else is promised to happen.
FairSpec == Spec /\ WF_vars(ParentNext) /\ WF_vars(ChildNext)

-----------------------------------------------------------------------------
Objects ==
    {"host_stdio", "sync_r", "sync_w", "daemon", "egress_h", "egress_s", "program", "mount",
     "master", "slave", "slave_io", "in_r", "in_w", "in_io", "out_r", "out_w", "out_io",
     "err_r", "err_w", "err_io", Closed} \cup Range(StreamName)

TypeOK ==
    /\ job \in Jobs
    /\ host \in 0 .. MaxReplace
    /\ {commit, held, image} \subseteq (0 .. MaxReplace) \cup {NoImage}
    /\ parent \in {"bind", "start", "clone", "uid_map", "attach", "egress", "output",
                   "gate", "ack", "launched", "terminated", "waited", "failed", "refused"}
    /\ child \in SetupSteps \cup {"none", "exited", "reaped"}
    /\ fds \in [Fds -> Objects]
    /\ armed \in BOOLEAN /\ mapped \in BOOLEAN /\ grouped \in BOOLEAN
    /\ acked \in BOOLEAN /\ alive \in BOOLEAN
    /\ faults \in 0 .. MaxFaults

\* The agent starts with exactly stdio and its declared streams, each at its
\* number; the program it runs is the one the binding committed to whatever
\* closure covers its path and whenever the file was replaced; every session
\* mount is reachable at its own target; the filter is loaded, the identity
\* is mapped and a managed agent is in its cgroup.
ExecIsConfined ==
    child = "agent" =>
        /\ \A f \in Fds : f > 2 =>
              fds[f] = (IF f <= 2 + job.streams THEN StreamName[f - 2] ELSE Closed)
        /\ job.kind # "exec" => fds[1] # "host_stdio" /\ fds[2] # "host_stdio"
        /\ Managed => image = commit /\ grouped
        /\ \A i \in DOMAIN job.mounts : Resolve(job.mounts[i].target) = i
        /\ mapped /\ AlwaysDenied \subseteq denied
        /\ job.net = "none" => "socket" \in denied

\* The child passes the sync pipe only after every step of the parent that
\* guards its release, the gate that records the start included; a launch
\* that reports an error leaves no process behind.
LaunchIsAllOrNothing ==
    /\ (acked \/ child \in SetupSteps \ {"arm", "sync"}) =>
          {s \in Range(Order) : Applies(s)}
              \ ({"ack", "launched"} \cup IF job.kind = "mcp" THEN {"output"} ELSE {})
            \subseteq done
    /\ parent = "failed" => child \in {"none", "reaped"}

\* All of it: a launched agent is confined, a failed launch leaves nothing.
LaunchIsSafe == TypeOK /\ ExecIsConfined /\ LaunchIsAllOrNothing

\* No child waits in its setup, no MCP agent outlives the wait of its handle.
LaunchSettled ==
    /\ child \notin SetupSteps \ {"agent"}
    /\ parent = "launched" /\ job.kind = "mcp" => ~alive \/ child = "reaped"

\* Whatever fails and whoever dies, a launch comes to that.
LaunchSettles == []<>LaunchSettled

\* The comment on the parent-death signal: the windows before it is armed
\* are covered, so that no agent survives the supervisor as an orphan.
NoOrphanAgent == ~alive => child # "agent"
=============================================================================
