---------------------------- MODULE SessionLaunchProofs ----------------------------
(***************************************************************************)
(* What a session's launch rests on.  A launched agent is confined and a   *)
(* failed launch leaves nothing, for any jobs, descriptor layouts, faults  *)
(* and replacements of the program.  What a guest wrote to a retained copy *)
(* is never lost, for any sessions, plans, failing calls and deaths of the *)
(* daemon or the host.  The path exposures a daemon serves are the ones    *)
(* its journal gives, and a grant it hands out was active and allowed when *)
(* it was handed out, for any requests, policies, failing appends, deaths  *)
(* and changes of the tree.                                                *)
(***************************************************************************)
EXTENDS SandboxLaunch, SessionFilesystem, PathExposure, SelectionProofs, TLAPS

---------------------------------------------------------------------------
(* The launch: the inductive invariant.                                    *)

Guards ==
    {"clone", "uid_map"} \cup (IF Managed THEN {"attach", "output", "gate"} ELSE {})
                         \cup (IF bridged_loopback_port THEN {"egress"} ELSE {})
Passed ==
    CASE parent \in {"bind", "start", "clone", "refused", "failed"} -> {}
      [] parent = "uid_map" -> {"clone"}
      [] parent = "attach" -> {"clone", "uid_map"}
      [] parent = "egress" -> {"clone", "uid_map"} \cup (IF Managed THEN {"attach"} ELSE {})
      [] parent = "output" -> IF Managed THEN Guards \ {"output", "gate"} ELSE Guards
      [] parent = "gate" -> Guards \ {"gate"}
      [] OTHER -> Guards
ParentInv ==
    /\ Passed \subseteq done
    /\ parent \in {"start", "attach", "gate"} => Managed
    /\ parent = "egress" => bridged_loopback_port
    /\ parent = "output" => job.kind # "exec"
    /\ parent \in {"bind", "start", "clone", "refused"} => child = "none" /\ done = {}
    /\ "uid_map" \in done => mapped
    /\ "attach" \in done => grouped
    /\ parent = "failed" => child \in {"none", "reaped"}
BindInv ==
    Managed => /\ parent \notin {"bind", "refused"} => prepare_managed_launch
               /\ parent \notin {"bind", "start", "refused"} => held = commit
Released == SetupSteps \ {"arm", "sync"}
ReleaseInv == acked \/ child \in Released => Guards \subseteq done
Sealed == {"stdio", "workdir", "environment", "streams", "close", "exec", "agent"}
Rooted == {"pivot", "capture", "egress", "seccomp"} \cup Sealed
Piped == IF job.kind = "mcp" THEN Sealed \ {"stdio"} ELSE {"egress", "seccomp"} \cup Sealed
ChildInv ==
    /\ child = "capture" => job.kind # "mcp"
    /\ child = "stdio" => job.kind = "mcp"
    /\ child \in Rooted => mountTable = build_rootfs
    /\ child \in Sealed => denied = setup_seccomp(bridged_loopback_port, job.streams)
    /\ child \in Piped /\ job.kind # "exec" => fds[1] # "host_stdio" /\ fds[2] # "host_stdio"
    /\ child \in {"close", "exec", "agent"} => \A f \in Fds :
          f > 2 /\ f <= 2 + job.streams => fds[f] = StreamName[f - 2]
    /\ child \in {"exec", "agent"} => \A f \in Fds : f > 2 + job.streams => fds[f] = Closed
    /\ child = "agent" /\ Managed => image = commit
LaunchInv == TypeOK /\ ParentInv /\ BindInv /\ ReleaseInv /\ ChildInv
---------------------------------------------------------------------------
(* The orders of the two processes.                                        *)

\* The step after the k-th is the next one, when no step comes twice.
LEMMA AfterIs ==
    ASSUME NEW order, NEW k \in Int, k \in DOMAIN order,
           \A i \in DOMAIN order : order[i] = order[k] => i = k
    PROVE  After(order, order[k]) = order[k + 1]
<1>1. (CHOOSE i \in DOMAIN order : order[i] = order[k]) = k
  OBVIOUS
<1> QED
  BY <1>1 DEF After

LEMMA ServerChildOrder ==
    LET o == child_setup_and_exec
    IN  /\ After(o, "arm") = "sync" /\ After(o, "sync") = "private"
        /\ After(o, "private") = "rootfs" /\ After(o, "rootfs") = "pivot"
        /\ After(o, "pivot") = "egress" /\ After(o, "egress") = "seccomp"
        /\ After(o, "seccomp") = "stdio" /\ After(o, "stdio") = "workdir"
        /\ After(o, "workdir") = "environment" /\ After(o, "environment") = "streams"
        /\ After(o, "streams") = "close" /\ After(o, "close") = "exec"
        /\ After(o, "exec") = "agent"
<1> DEFINE o == child_setup_and_exec
<1>1. /\ DOMAIN o = 1 .. 14
      /\ o[1] = "arm" /\ o[2] = "sync" /\ o[3] = "private" /\ o[4] = "rootfs"
      /\ o[5] = "pivot" /\ o[6] = "egress" /\ o[7] = "seccomp" /\ o[8] = "stdio"
      /\ o[9] = "workdir" /\ o[10] = "environment" /\ o[11] = "streams"
      /\ o[12] = "close" /\ o[13] = "exec" /\ o[14] = "agent"
  BY DEF child_setup_and_exec
<1> HIDE DEF o
<1>2. \A i, k \in 1 .. 14 : o[i] = o[k] => i = k
  BY <1>1
<1>3. \A k \in 1 .. 14 : After(o, o[k]) = o[k + 1]
  BY <1>1, <1>2, AfterIs
<1> QED
  BY <1>1, <1>3 DEF o

LEMMA PassthroughChildOrder ==
    LET o == child_setup_and_exec_passthrough
    IN  /\ After(o, "arm") = "sync" /\ After(o, "sync") = "private"
        /\ After(o, "private") = "rootfs" /\ After(o, "rootfs") = "pivot"
        /\ After(o, "pivot") = "capture" /\ After(o, "capture") = "egress"
        /\ After(o, "egress") = "seccomp" /\ After(o, "seccomp") = "workdir"
        /\ After(o, "workdir") = "environment" /\ After(o, "environment") = "streams"
        /\ After(o, "streams") = "close" /\ After(o, "close") = "exec"
        /\ After(o, "exec") = "agent"
<1> DEFINE o == child_setup_and_exec_passthrough
<1>1. /\ DOMAIN o = 1 .. 14
      /\ o[1] = "arm" /\ o[2] = "sync" /\ o[3] = "private" /\ o[4] = "rootfs"
      /\ o[5] = "pivot" /\ o[6] = "capture" /\ o[7] = "egress" /\ o[8] = "seccomp"
      /\ o[9] = "workdir" /\ o[10] = "environment" /\ o[11] = "streams"
      /\ o[12] = "close" /\ o[13] = "exec" /\ o[14] = "agent"
  BY DEF child_setup_and_exec_passthrough
<1> HIDE DEF o
<1>2. \A i, k \in 1 .. 14 : o[i] = o[k] => i = k
  BY <1>1
<1>3. \A k \in 1 .. 14 : After(o, o[k]) = o[k + 1]
  BY <1>1, <1>2, AfterIs
<1> QED
  BY <1>1, <1>3 DEF o

\* The names the two orders use.
LEMMA SetupStepsAre ==
    SetupSteps = {"arm", "sync", "private", "rootfs", "pivot", "capture", "egress", "seccomp",
                  "stdio", "workdir", "environment", "streams", "close", "exec", "agent"}
<1>1. Range(child_setup_and_exec)
        = {"arm", "sync", "private", "rootfs", "pivot", "egress", "seccomp",
           "stdio", "workdir", "environment", "streams", "close", "exec", "agent"}
  <2>1. DOMAIN child_setup_and_exec = 1 .. 14
    BY DEF child_setup_and_exec
  <2>2. \A x : x \in Range(child_setup_and_exec) <=>
               \E i \in 1 .. 14 : x = child_setup_and_exec[i]
    BY <2>1 DEF Range
  <2> QED
    BY <2>2 DEF child_setup_and_exec
<1>2. Range(child_setup_and_exec_passthrough)
        = {"arm", "sync", "private", "rootfs", "pivot", "capture", "egress", "seccomp",
           "workdir", "environment", "streams", "close", "exec", "agent"}
  <2>1. DOMAIN child_setup_and_exec_passthrough = 1 .. 14
    BY DEF child_setup_and_exec_passthrough
  <2>2. \A x : x \in Range(child_setup_and_exec_passthrough) <=>
               \E i \in 1 .. 14 : x = child_setup_and_exec_passthrough[i]
    BY <2>1 DEF Range
  <2> QED
    BY <2>2 DEF child_setup_and_exec_passthrough
<1> QED
  BY <1>1, <1>2 DEF SetupSteps


LEMMA MinIs ==
    ASSUME NEW S, S \subseteq Int, NEW x \in S, \A y \in S : x <= y
    PROVE  Min(S) = x
<1>1. \A z \in S : (\A y \in S : z <= y) => z = x
  OBVIOUS
<1> QED
  BY <1>1 DEF Min

\* The step taken next is the first that applies.
LEMMA NextStep ==
    ASSUME NEW n \in Int, DOMAIN Order = 1 .. n,
           NEW i \in 1 .. n, NEW k \in 1 .. n, i < k, Applies(Order[k]),
           \A m \in 1 .. n : Order[m] = Order[i] => m = i,
           \A m \in 1 .. n : m > i /\ m < k => ~Applies(Order[m])
    PROVE  Order[Min(Later(Order[i]))] = Order[k]
<1>1. k \in Later(Order[i])
  BY DEF Later
<1>2. \A m \in Later(Order[i]) : m \in 1 .. n /\ m > i /\ Applies(Order[m])
  BY DEF Later
<1>3. \A m \in Later(Order[i]) : k <= m
  BY <1>2
<1>4. Later(Order[i]) \subseteq Int
  BY <1>2
<1>5. Min(Later(Order[i])) = k
  BY <1>1, <1>3, <1>4, MinIs
<1> QED
  BY <1>5

\* How the parent of a server goes on from each of its steps.
LEMMA ServerOrder ==
    ASSUME job.kind = "mcp"
    PROVE  LET next(s) == Order[Min(Later(s))]
           IN  /\ next("clone") = "uid_map"
               /\ next("uid_map") = IF bridged_loopback_port THEN "egress" ELSE "ack"
               /\ next("egress") = "ack" /\ next("ack") = "output" /\ next("output") = "launched"
<1>1. /\ DOMAIN Order = 1 .. 6 /\ Order[1] = "clone" /\ Order[2] = "uid_map"
      /\ Order[3] = "egress" /\ Order[4] = "ack" /\ Order[5] = "output"
      /\ Order[6] = "launched"
  BY DEF Order, spawn_order
<1>2. \A m \in 1 .. 6 : Applies(Order[m]) <=> (m = 3 => bridged_loopback_port)
  BY <1>1 DEF Applies
<1>3. \A i, m \in 1 .. 6 : Order[m] = Order[i] => m = i
  BY <1>1
<1>4. \A i, k \in 1 .. 6 :
          /\ i < k /\ Applies(Order[k])
          /\ \A m \in 1 .. 6 : m > i /\ m < k => ~Applies(Order[m])
          => Order[Min(Later(Order[i]))] = Order[k]
  BY <1>1, <1>3, NextStep
<1>5. \A i \in 1 .. 5 : i # 2 => Order[Min(Later(Order[i]))] = Order[i + 1]
  BY <1>2, <1>4
<1>6. Order[Min(Later(Order[2]))] = IF bridged_loopback_port THEN Order[3] ELSE Order[4]
  BY <1>2, <1>4
<1> QED
  BY <1>1, <1>5, <1>6

\* How any other parent does.
LEMMA AgentOrder ==
    ASSUME job.kind \in {"exec", "managed", "pty"}
    PROVE  LET next(s) == Order[Min(Later(s))]
           IN  /\ next("clone") = "uid_map"
               /\ next("uid_map") = IF Managed THEN "attach"
                                    ELSE IF bridged_loopback_port THEN "egress" ELSE "ack"
               /\ Managed => next("attach") = IF bridged_loopback_port THEN "egress" ELSE "output"
               /\ next("egress") = IF Managed THEN "output" ELSE "ack"
               /\ Managed => next("output") = "gate" /\ next("gate") = "ack"
               /\ next("ack") = "launched"
<1>1. /\ DOMAIN Order = 1 .. 8 /\ Order[1] = "clone" /\ Order[2] = "uid_map"
      /\ Order[3] = "attach" /\ Order[4] = "egress" /\ Order[5] = "output"
      /\ Order[6] = "gate" /\ Order[7] = "ack" /\ Order[8] = "launched"
  BY DEF Order, launch_passthrough_child, launch_pty_child
<1>2. /\ Applies(Order[1]) /\ Applies(Order[2]) /\ Applies(Order[7]) /\ Applies(Order[8])
      /\ Applies(Order[3]) <=> Managed
      /\ Applies(Order[4]) <=> bridged_loopback_port
      /\ Applies(Order[5]) <=> Managed
      /\ Applies(Order[6]) <=> Managed
  BY <1>1 DEF Applies, Managed
<1>3. \A i, m \in 1 .. 8 : Order[m] = Order[i] => m = i
  BY <1>1
<1>4. \A i, k \in 1 .. 8 :
          /\ i < k /\ Applies(Order[k])
          /\ \A m \in 1 .. 8 : m > i /\ m < k => ~Applies(Order[m])
          => Order[Min(Later(Order[i]))] = Order[k]
  BY <1>1, <1>3, NextStep
<1>a. \A m \in 1 .. 8 : m \in {1, 2, 3, 4, 5, 6, 7, 8}
  OBVIOUS
<1>5. /\ Order[Min(Later(Order[1]))] = Order[2]
      /\ Order[Min(Later(Order[7]))] = Order[8]
  BY <1>2, <1>4
<1>6. /\ Managed => Order[Min(Later(Order[2]))] = Order[3]
      /\ ~Managed /\ bridged_loopback_port => Order[Min(Later(Order[2]))] = Order[4]
      /\ ~Managed /\ ~bridged_loopback_port => Order[Min(Later(Order[2]))] = Order[7]
  BY <1>2, <1>4, <1>a
<1>7. /\ Managed /\ bridged_loopback_port => Order[Min(Later(Order[3]))] = Order[4]
      /\ Managed /\ ~bridged_loopback_port => Order[Min(Later(Order[3]))] = Order[5]
  BY <1>2, <1>4, <1>a
<1>8. /\ Managed => Order[Min(Later(Order[4]))] = Order[5]
      /\ ~Managed => Order[Min(Later(Order[4]))] = Order[7]
  BY <1>2, <1>4, <1>a
<1>9. Managed => /\ Order[Min(Later(Order[5]))] = Order[6]
                 /\ Order[Min(Later(Order[6]))] = Order[7]
  BY <1>2, <1>4, <1>a
<1> QED
  BY <1>1, <1>5, <1>6, <1>7, <1>8, <1>9

\* What must be done before the child is released.
LEMMA GuardsAre ==
    ASSUME job.kind \in {"mcp", "exec", "managed", "pty"}
    PROVE  Guards = {s \in Range(Order) : Applies(s)}
                      \ ({"ack", "launched"} \cup IF job.kind = "mcp" THEN {"output"} ELSE {})
<1>1. CASE job.kind = "mcp"
  <2>1. Range(Order) = {"clone", "uid_map", "egress", "ack", "output", "launched"}
    <3>1. DOMAIN Order = 1 .. 6 /\ Order = spawn_order
      BY <1>1 DEF Order, spawn_order
    <3>2. \A x : x \in Range(Order) <=> \E i \in 1 .. 6 : x = spawn_order[i]
      BY <3>1 DEF Range
    <3> QED
      BY <3>2 DEF spawn_order
  <2> QED
    BY <1>1, <2>1 DEF Guards, Applies, Managed
<1>2. CASE job.kind # "mcp"
  <2>1. Range(Order) = {"clone", "uid_map", "attach", "egress", "output", "gate", "ack", "launched"}
    <3>1. DOMAIN Order = 1 .. 8 /\ Order = launch_pty_child
      BY <1>2 DEF Order, launch_passthrough_child, launch_pty_child
    <3>2. \A x : x \in Range(Order) <=> \E i \in 1 .. 8 : x = launch_pty_child[i]
      BY <3>1 DEF Range
    <3> QED
      BY <3>2 DEF launch_pty_child
  <2> QED
    BY <1>2, <2>1 DEF Guards, Applies, Managed
<1> QED
  BY <1>1, <1>2

---------------------------------------------------------------------------
(* The job never changes.                                                  *)

LEMMA JobKept ==
    ASSUME job' = job
    PROVE  /\ Managed' = Managed /\ bridged_loopback_port' = bridged_loopback_port
           /\ Guards' = Guards /\ Piped' = Piped /\ build_rootfs' = build_rootfs
           /\ prepare_managed_launch' = prepare_managed_launch
<1>1. Managed' = Managed /\ bridged_loopback_port' = bridged_loopback_port
  BY DEF Managed, bridged_loopback_port
<1>2. Guards' = Guards /\ Piped' = Piped
  BY <1>1 DEF Guards, Piped
<1>3. build_rootfs' = build_rootfs
  BY DEF build_rootfs
<1>4. prepare_managed_launch' = prepare_managed_launch
  BY Zenon DEF prepare_managed_launch, validate_managed_mounts, bind_managed_launch_projection
<1> QED
  BY <1>1, <1>2, <1>3, <1>4

LEMMA JobFacts ==
    ASSUME TypeOK
    PROVE  /\ job.kind \in {"mcp", "exec", "managed", "pty"}
           /\ job.streams \in 0 .. 16
           /\ Managed <=> job.kind \in {"managed", "pty"}
BY LaunchAssumption DEF TypeOK, Managed, StreamName

\* A step of the parent alone.
LEMMA ChildUntouched ==
    ASSUME LaunchInv, job' = job, UNCHANGED <<child, fds, mountTable, denied, image>>,
           commit' = commit \/ child = "none"
    PROVE  ChildInv'
BY JobKept DEF LaunchInv, ChildInv, Rooted, Sealed, Piped

\* The child is gone.
LEMMA ChildGone ==
    ASSUME LaunchInv, job' = job, child' \in {"none", "exited", "reaped"}
    PROVE  ChildInv'
<1>1. child' \notin Rooted /\ child' \notin Sealed /\ child' \notin Piped
  BY DEF Rooted, Sealed, Piped
<1> QED
  BY <1>1, JobKept DEF ChildInv, Rooted, Sealed

\* A step of the child alone.
LEMMA ParentUntouched ==
    ASSUME LaunchInv, job' = job, UNCHANGED <<parent, done, mapped, grouped>>,
           child \notin {"none", "reaped"}
    PROVE  ParentInv'
BY JobKept DEF LaunchInv, ParentInv, Passed

LEMMA BindingKept ==
    ASSUME LaunchInv, UNCHANGED <<job, parent, commit>>, Managed => held' = held
    PROVE  BindInv'
BY JobKept DEF LaunchInv, BindInv

LEMMA ReleaseKept ==
    ASSUME LaunchInv, UNCHANGED <<job, done>>, acked' => acked,
           child' \in Released => acked \/ child \in Released
    PROVE  ReleaseInv'
BY JobKept DEF LaunchInv, ReleaseInv, Released
---------------------------------------------------------------------------
(* The steps of the parent.                                                *)

\* What the parent has passed grows with each step, whichever come next.
LEMMA ParentAdvances ==
    ASSUME LaunchInv, UNCHANGED job, NEW s \in {"clone", "uid_map", "attach", "egress",
                                               "output", "gate", "ack"},
           parent = s, ParentDone(s)
    PROVE  /\ parent' \in {"uid_map", "attach", "egress", "output", "gate", "ack", "launched"}
           /\ Passed' \subseteq done'
           /\ parent' \in {"start", "attach", "gate"} => Managed
           /\ parent' = "egress" => bridged_loopback_port
           /\ parent' = "output" => job.kind # "exec"
           /\ s = "ack" => Guards \subseteq done
<1> DEFINE next(x) == Order[Min(Later(x))]
<1>1. parent' = next(s) /\ done' = done \cup {s}
  BY DEF ParentDone
<1>2. TypeOK /\ ParentInv /\ Passed \subseteq done
  BY DEF LaunchInv, ParentInv
<1>3. /\ Managed' = Managed /\ bridged_loopback_port' = bridged_loopback_port
      /\ Guards' = Guards
  BY JobKept
<1>4. job.kind \in {"mcp", "exec", "managed", "pty"} /\ (Managed <=> job.kind \in {"managed", "pty"})
  BY <1>2, JobFacts
<1>5. /\ s \in {"attach", "gate"} => Managed
      /\ s = "egress" => bridged_loopback_port
      /\ s = "output" => job.kind # "exec"
  BY <1>2 DEF ParentInv
<1>6. CASE job.kind = "mcp"
  <2>1. /\ next("clone") = "uid_map"
        /\ next("uid_map") = IF bridged_loopback_port THEN "egress" ELSE "ack"
        /\ next("egress") = "ack" /\ next("ack") = "output" /\ next("output") = "launched"
    BY <1>6, ServerOrder
  <2>2. ~Managed
    BY <1>4, <1>6
  <2> HIDE DEF next
  <2>3. CASE s = "clone"
    BY <1>1, <1>2, <1>3, <2>1, <2>2, <2>3 DEF Passed
  <2>4. CASE s = "uid_map"
    BY <1>1, <1>2, <1>3, <2>1, <2>2, <2>4 DEF Passed, Guards
  <2>5. CASE s = "egress"
    BY <1>1, <1>2, <1>3, <1>5, <2>1, <2>2, <2>5 DEF Passed, Guards
  <2>6. CASE s = "ack"
    BY <1>1, <1>2, <1>3, <1>6, <2>1, <2>2, <2>6 DEF Passed
  <2>7. CASE s = "output"
    BY <1>1, <1>2, <1>3, <2>1, <2>2, <2>7 DEF Passed
  <2> QED
    BY <1>5, <2>2, <2>3, <2>4, <2>5, <2>6, <2>7
<1>7. CASE job.kind # "mcp"
  <2>1. /\ next("clone") = "uid_map"
        /\ next("uid_map") = IF Managed THEN "attach"
                             ELSE IF bridged_loopback_port THEN "egress" ELSE "ack"
        /\ Managed => next("attach") = IF bridged_loopback_port THEN "egress" ELSE "output"
        /\ next("egress") = IF Managed THEN "output" ELSE "ack"
        /\ Managed => next("output") = "gate" /\ next("gate") = "ack"
        /\ next("ack") = "launched"
    BY <1>4, <1>7, AgentOrder
  <2> HIDE DEF next
  <2>2. CASE s = "clone"
    BY <1>1, <1>2, <1>3, <2>1, <2>2 DEF Passed
  <2>3. CASE s = "uid_map"
    BY <1>1, <1>2, <1>3, <2>1, <2>3 DEF Passed, Guards
  <2>4. CASE s = "attach"
    BY <1>1, <1>2, <1>3, <1>4, <1>5, <2>1, <2>4 DEF Passed, Guards
  <2>5. CASE s = "egress"
    BY <1>1, <1>2, <1>3, <1>4, <1>5, <2>1, <2>5 DEF Passed, Guards
  <2>6. CASE s = "output"
    BY <1>1, <1>2, <1>3, <1>4, <1>5, <1>7, <2>1, <2>6 DEF Passed
  <2>7. CASE s = "gate"
    BY <1>1, <1>2, <1>3, <1>5, <2>1, <2>7 DEF Passed
  <2>8. CASE s = "ack"
    BY <1>1, <1>2, <1>3, <2>1, <2>8 DEF Passed
  <2> QED
    BY <2>2, <2>3, <2>4, <2>5, <2>6, <2>7, <2>8
<1> QED
  BY <1>6, <1>7

\* Binding a managed launch, or starting an unmanaged one.
LEMMA BindKeeps ==
    ASSUME LaunchInv, bind_managed_session
    PROVE  LaunchInv'
<1>0. /\ parent = "bind" /\ child = "none" /\ UNCHANGED <<job, done, acked, child>>
      /\ parent' \in {"clone", "start", "refused"}
  BY DEF bind_managed_session, ParentAt, LaunchInv, ParentInv, ChildUnchanged
<1>1. TypeOK'
  BY DEF LaunchInv, TypeOK, bind_managed_session, ChildUnchanged
<1>2. ParentInv'
  <2>1. Passed' = {}
    BY <1>0 DEF Passed
  <2>2. parent' = "start" => Managed'
    BY JobKept, <1>0 DEF bind_managed_session
  <2>3. UNCHANGED <<mapped, grouped>>
    BY DEF bind_managed_session
  <2> QED
    BY <1>0, <2>1, <2>2, <2>3 DEF LaunchInv, ParentInv
<1>3. BindInv'
  <2>1. CASE Managed /\ prepare_managed_launch
    <3>1. parent' = "start" /\ prepare_managed_launch'
      BY <1>0, <2>1, JobKept DEF bind_managed_session
    <3> QED
      BY <3>1 DEF BindInv
  <2>2. CASE Managed /\ ~prepare_managed_launch
    <3>1. parent' = "refused"
      BY <2>2 DEF bind_managed_session
    <3> QED
      BY <3>1 DEF BindInv
  <2>3. CASE ~Managed
    <3>1. ~Managed'
      BY <1>0, <2>3, JobKept
    <3> QED
      BY <3>1 DEF BindInv
  <2> QED
    BY <2>1, <2>2, <2>3
<1>4. ReleaseInv'
  BY <1>0, ReleaseKept
<1>5. ChildInv'
  BY <1>0, ChildGone
<1> QED
  BY <1>1, <1>2, <1>3, <1>4, <1>5 DEF LaunchInv

LEMMA StartKeeps ==
    ASSUME LaunchInv, start_managed_session
    PROVE  LaunchInv'
<1>0. /\ parent = "start" /\ child = "none" /\ UNCHANGED <<job, done, acked, child>>
      /\ parent' \in {"clone", "refused"}
  BY DEF start_managed_session, ParentAt, LaunchInv, ParentInv, ChildUnchanged
<1>1. TypeOK'
  BY DEF LaunchInv, TypeOK, start_managed_session, ChildUnchanged
<1>2. ParentInv'
  <2>1. Passed' = {}
    BY <1>0 DEF Passed
  <2>3. UNCHANGED <<mapped, grouped>>
    BY DEF start_managed_session
  <2> QED
    BY <1>0, <2>1, <2>3 DEF LaunchInv, ParentInv
<1>3. BindInv'
  BY <1>0, JobKept DEF LaunchInv, BindInv, start_managed_session
<1>4. ReleaseInv'
  BY <1>0, ReleaseKept
<1>5. ChildInv'
  BY <1>0, ChildGone
<1> QED
  BY <1>1, <1>2, <1>3, <1>4, <1>5 DEF LaunchInv

\* What a child inherits, its own copies of the parent's ends closed.
LEMMA InheritedType ==
    ASSUME TypeOK
    PROVE  ChildTable \in [Fds -> Objects]
<1>1. OpenObjects \subseteq Objects
  <2>1. \A i \in 1 .. job.streams : StreamName[i] \in Range(StreamName)
    <3>1. DOMAIN StreamName = 1 .. 16
      BY DEF StreamName
    <3> QED
      BY <3>1, JobFacts DEF Range
  <2> QED
    BY <2>1 DEF OpenObjects, Objects
<1>2. Inherited \in [Fds -> Objects]
  <2>1. \A n : (\E k \in DOMAIN job.layout : IsNth(k, n)) =>
            job.layout[CHOOSE k \in DOMAIN job.layout : IsNth(k, n)] \in Objects
    <3> TAKE n
    <3> HAVE \E k \in DOMAIN job.layout : IsNth(k, n)
    <3> DEFINE c == CHOOSE k \in DOMAIN job.layout : IsNth(k, n)
    <3>1. c \in DOMAIN job.layout /\ IsNth(c, n)
      OBVIOUS
    <3> QED
      BY <1>1, <3>1 DEF IsNth
  <2>2. "host_stdio" \in Objects /\ Closed \in Objects
    BY DEF Objects
  <2> QED
    BY <2>1, <2>2 DEF Inherited
<1>3. Closed \in Objects
  BY DEF Objects
<1> QED
  BY <1>2, <1>3 DEF ChildTable, CloseAll

LEMMA CloneKeeps ==
    ASSUME LaunchInv, clone3
    PROVE  LaunchInv'
<1>0. /\ parent = "clone" /\ child = "none" /\ child' = "arm"
      /\ UNCHANGED <<job, host, commit, held, mapped, acked, image, alive, faults>>
      /\ ParentDone("clone") /\ done' = done \cup {"clone"}
  BY DEF clone3, ParentAt, LaunchInv, ParentInv, ParentDone
<1>a. /\ parent' \in {"uid_map", "attach", "egress", "output", "gate", "ack", "launched"}
      /\ Passed' \subseteq done'
      /\ parent' \in {"start", "attach", "gate"} => Managed
      /\ parent' = "egress" => bridged_loopback_port
      /\ parent' = "output" => job.kind # "exec"
  BY <1>0, ParentAdvances
<1>1. TypeOK'
  <2>1. fds' \in [Fds -> Objects]
    BY InheritedType DEF LaunchInv, clone3
  <2>2. grouped' \in BOOLEAN /\ UNCHANGED armed
    BY DEF clone3
  <2>3. child' \in SetupSteps
    BY <1>0, SetupStepsAre
  <2> QED
    BY <1>0, <1>a, <2>1, <2>2, <2>3 DEF LaunchInv, TypeOK
<1>2. ParentInv'
  <2>1. "attach" \notin done' /\ "uid_map" \notin done'
    BY <1>0 DEF LaunchInv, ParentInv
  <2> QED
    BY <1>0, <1>a, <2>1, JobKept DEF ParentInv
<1>3. BindInv'
  BY <1>0, <1>a, JobKept DEF LaunchInv, BindInv
<1>4. ReleaseInv'
  <2>1. child' \notin Released
    BY <1>0 DEF Released
  <2> QED
    BY <1>0, <2>1, JobKept DEF LaunchInv, ReleaseInv
<1>5. ChildInv'
  BY <1>0, JobKept DEF ChildInv, Rooted, Sealed, Piped
<1> QED
  BY <1>1, <1>2, <1>3, <1>4, <1>5 DEF LaunchInv

\* A step of the parent between the clone and the end of its order.
LEMMA ParentStepKeeps ==
    ASSUME LaunchInv, NEW s \in {"uid_map", "attach", "egress", "output", "gate"},
           ParentAt(s), ParentDone(s), ChildUnchanged,
           UNCHANGED <<job, host, commit, held, acked, alive, faults>>,
           mapped' \in BOOLEAN, mapped => mapped', s = "uid_map" => mapped',
           grouped' \in BOOLEAN, grouped => grouped', s = "attach" => grouped'
    PROVE  LaunchInv'
<1>0. /\ parent = s /\ UNCHANGED <<child, fds, mountTable, denied, armed, image>>
      /\ done' = done \cup {s}
  BY DEF ParentAt, ChildUnchanged, ParentDone
<1>a. /\ parent' \in {"uid_map", "attach", "egress", "output", "gate", "ack", "launched"}
      /\ Passed' \subseteq done'
      /\ parent' \in {"start", "attach", "gate"} => Managed
      /\ parent' = "egress" => bridged_loopback_port
      /\ parent' = "output" => job.kind # "exec"
  BY <1>0, ParentAdvances
<1>1. TypeOK'
  BY <1>0, <1>a DEF LaunchInv, TypeOK
<1>2. ParentInv'
  BY <1>0, <1>a, JobKept DEF LaunchInv, ParentInv
<1>3. BindInv'
  BY <1>0, <1>a, JobKept DEF LaunchInv, BindInv
<1>4. ReleaseInv'
  BY <1>0, JobKept DEF LaunchInv, ReleaseInv, Released
<1>5. ChildInv'
  BY <1>0, ChildUntouched
<1> QED
  BY <1>1, <1>2, <1>3, <1>4, <1>5 DEF LaunchInv

LEMMA SetupKeeps ==
    ASSUME LaunchInv,
           \/ setup_uid_map \/ attach \/ start_host_egress_bridge \/ create_output
           \/ before_child_release
    PROVE  LaunchInv'
<1>0. mapped \in BOOLEAN /\ grouped \in BOOLEAN
  BY DEF LaunchInv, TypeOK
<1>1. CASE setup_uid_map
  BY <1>0, <1>1, ParentStepKeeps DEF setup_uid_map
<1>2. CASE attach
  BY <1>0, <1>2, ParentStepKeeps DEF attach
<1>3. CASE start_host_egress_bridge
  BY <1>0, <1>3, ParentStepKeeps DEF start_host_egress_bridge, ParentStep
<1>4. CASE create_output
  BY <1>0, <1>4, ParentStepKeeps DEF create_output, ParentStep
<1>5. CASE before_child_release
  BY <1>0, <1>5, ParentStepKeeps DEF before_child_release, ParentStep
<1> QED
  BY <1>1, <1>2, <1>3, <1>4, <1>5

LEMMA AcknowledgeKeeps ==
    ASSUME LaunchInv, acknowledge
    PROVE  LaunchInv'
<1>0. /\ parent = "ack"
      /\ UNCHANGED <<job, host, commit, held, mapped, grouped, faults,
                     child, fds, mountTable, denied, armed, image>>
  BY DEF acknowledge, ParentAt, ChildUnchanged
<1>1. ChildInv'
  BY <1>0, ChildUntouched
<1>2. CASE child \in {"exited", "reaped"}
  <2>1. alive' = FALSE /\ UNCHANGED <<parent, done, acked>>
    BY <1>2 DEF acknowledge
  <2>2. TypeOK'
    BY <1>0, <2>1 DEF LaunchInv, TypeOK
  <2>3. ParentInv'
    BY <1>0, <2>1, JobKept DEF LaunchInv, ParentInv, Passed
  <2>4. BindInv' /\ ReleaseInv'
    BY <1>0, <2>1, BindingKept, ReleaseKept
  <2> QED
    BY <1>1, <2>2, <2>3, <2>4 DEF LaunchInv
<1>3. CASE child \notin {"exited", "reaped"}
  <2>1. acked' = TRUE /\ ParentDone("ack") /\ UNCHANGED alive /\ done' = done \cup {"ack"}
    BY <1>3 DEF acknowledge, ParentDone
  <2>2. /\ parent' \in {"uid_map", "attach", "egress", "output", "gate", "ack", "launched"}
        /\ Passed' \subseteq done'
        /\ parent' \in {"start", "attach", "gate"} => Managed
        /\ parent' = "egress" => bridged_loopback_port
        /\ parent' = "output" => job.kind # "exec"
        /\ Guards \subseteq done
    BY <1>0, <2>1, ParentAdvances
  <2>3. TypeOK'
    BY <1>0, <2>1, <2>2 DEF LaunchInv, TypeOK
  <2>4. ParentInv'
    BY <1>0, <2>1, <2>2, JobKept DEF LaunchInv, ParentInv
  <2>5. BindInv'
    BY <1>0, <2>2, JobKept DEF LaunchInv, BindInv
  <2>6. ReleaseInv'
    BY <1>0, <2>1, <2>2, JobKept DEF ReleaseInv
  <2> QED
    BY <1>1, <2>3, <2>4, <2>5, <2>6 DEF LaunchInv
<1> QED
  BY <1>2, <1>3

\* A failed launch has no child left.
LEMMA FailureKeeps ==
    ASSUME LaunchInv, ParentFails
    PROVE  LaunchInv'
<1>0. /\ parent' = "failed" /\ child' \in {"none", "reaped"}
      /\ parent \notin {"bind", "start", "refused"}
      /\ UNCHANGED <<job, host, commit, held, mapped, grouped, acked, done, image, alive, fds>>
      /\ armed' = FALSE /\ faults' = faults + 1 /\ faults < MaxFaults
  BY DEF ParentFails, fail
<1>1. TypeOK'
  <2>1. faults' \in 0 .. MaxFaults
    BY <1>0, LaunchAssumption DEF LaunchInv, TypeOK
  <2> QED
    BY <1>0, <2>1 DEF LaunchInv, TypeOK
<1>2. ParentInv'
  <2>1. Passed' = {}
    BY <1>0 DEF Passed
  <2> QED
    BY <1>0, <2>1, JobKept DEF LaunchInv, ParentInv
<1>3. BindInv'
  BY <1>0, JobKept DEF LaunchInv, BindInv
<1>4. ReleaseInv'
  <2>1. child' \notin Released
    BY <1>0, SetupStepsAre DEF Released
  <2> QED
    BY <1>0, <2>1, ReleaseKept
<1>5. ChildInv'
  BY <1>0, ChildGone
<1> QED
  BY <1>1, <1>2, <1>3, <1>4, <1>5 DEF LaunchInv

LEMMA WaitKeeps ==
    ASSUME LaunchInv, wait
    PROVE  LaunchInv'
<1>0. /\ parent \in {"launched", "terminated"} /\ parent' \in {"terminated", "waited"}
      /\ child' \in {child, "exited", "reaped"}
      /\ UNCHANGED <<job, host, commit, held, fds, mountTable, denied, armed, mapped,
                     grouped, acked, done, image, alive, faults>>
  BY DEF wait
<1>1. TypeOK'
  BY <1>0 DEF LaunchInv, TypeOK
<1>2. ParentInv'
  <2>1. Passed' = Guards /\ Passed = Guards
    BY <1>0, JobKept DEF Passed
  <2> QED
    BY <1>0, <2>1, JobKept DEF LaunchInv, ParentInv
<1>3. BindInv'
  BY <1>0, JobKept DEF LaunchInv, BindInv
<1>4. ReleaseInv'
  <2>1. child' \in Released => child \in Released
    BY <1>0, SetupStepsAre DEF Released
  <2> QED
    BY <1>0, <2>1, ReleaseKept
<1>5. ChildInv'
  BY <1>0, ChildGone, ChildUntouched
<1> QED
  BY <1>1, <1>2, <1>3, <1>4, <1>5 DEF LaunchInv

---------------------------------------------------------------------------
(* Steps of the environment, and the failing ones of the child.            *)

\* The child ends, in whatever way.
LEMMA ExitKeeps ==
    ASSUME LaunchInv, child \in SetupSteps, child' = "exited",
           faults' \in {faults, faults + 1}, faults' # faults => faults < MaxFaults,
           alive' \in BOOLEAN, acked' \in BOOLEAN, acked' => acked, armed' \in BOOLEAN,
           fds' \in [Fds -> Objects], image' = image,
           UNCHANGED <<job, host, commit, held, parent, mapped, grouped, done>>
    PROVE  LaunchInv'
<1>1. TypeOK'
  BY LaunchAssumption DEF LaunchInv, TypeOK
<1>2. child \notin {"none", "reaped"} /\ child' \notin Released
  BY SetupStepsAre DEF Released
<1>3. ParentInv'
  BY <1>2, ParentUntouched
<1>4. BindInv' /\ ReleaseInv'
  BY <1>2, BindingKept, ReleaseKept
<1>5. ChildInv'
  BY ChildGone
<1> QED
  BY <1>1, <1>3, <1>4, <1>5 DEF LaunchInv

LEMMA ExitsKeep ==
    ASSUME LaunchInv, sync_closed \/ ChildFails \/ AgentExits \/ CgroupKilled
    PROVE  LaunchInv'
<1>1. TypeOK
  BY DEF LaunchInv
<1>2. CASE sync_closed
  BY <1>1, <1>2, ExitKeeps, SetupStepsAre DEF sync_closed, TypeOK
<1>3. CASE ChildFails
  BY <1>1, <1>3, ExitKeeps DEF ChildFails, TypeOK
<1>4. CASE AgentExits
  BY <1>1, <1>4, ExitKeeps, SetupStepsAre DEF AgentExits, TypeOK
<1>5. CASE CgroupKilled
  BY <1>1, <1>5, ExitKeeps DEF CgroupKilled, TypeOK
<1> QED
  BY <1>2, <1>3, <1>4, <1>5

LEMMA EnvironmentKeeps ==
    ASSUME LaunchInv, ReplaceProgram \/ SupervisorDies
    PROVE  LaunchInv'
<1>1. CASE ReplaceProgram
  <2>1. TypeOK'
    BY <1>1, LaunchAssumption DEF LaunchInv, TypeOK, ReplaceProgram
  <2>2. /\ UNCHANGED <<job, parent, done, mapped, grouped, acked, child, fds, mountTable,
                       denied, image, commit, held>>
    BY <1>1 DEF ReplaceProgram
  <2>3. ParentInv'
    BY <2>2, JobKept DEF LaunchInv, ParentInv, Passed
  <2> QED
    BY <2>1, <2>2, <2>3, BindingKept, ReleaseKept, ChildUntouched DEF LaunchInv
<1>2. CASE SupervisorDies
  <2>1. CASE armed /\ child \in SetupSteps
    BY <1>2, <2>1, ExitKeeps DEF SupervisorDies, LaunchInv, TypeOK
  <2>2. CASE ~(armed /\ child \in SetupSteps)
    <3>1. TypeOK'
      BY <1>2, <2>2 DEF LaunchInv, TypeOK, SupervisorDies
    <3>2. /\ UNCHANGED <<job, parent, done, mapped, grouped, acked, child, fds, mountTable,
                         denied, image, commit, held>>
      BY <1>2, <2>2 DEF SupervisorDies
    <3>3. ParentInv'
      BY <3>2, JobKept DEF LaunchInv, ParentInv, Passed
    <3> QED
      BY <3>1, <3>2, <3>3, BindingKept, ReleaseKept, ChildUntouched DEF LaunchInv
  <2> QED
    BY <2>1, <2>2
<1> QED
  BY <1>1, <1>2

---------------------------------------------------------------------------
(* The steps of the child.                                                 *)

\* Where the child goes from each of its steps.
LEMMA ChildGoes ==
    ASSUME TypeOK
    PROVE  /\ After(ChildOrder, "arm") = "sync" /\ After(ChildOrder, "sync") = "private"
           /\ After(ChildOrder, "private") = "rootfs" /\ After(ChildOrder, "rootfs") = "pivot"
           /\ After(ChildOrder, "pivot") = IF job.kind = "mcp" THEN "egress" ELSE "capture"
           /\ job.kind # "mcp" => After(ChildOrder, "capture") = "egress"
           /\ After(ChildOrder, "egress") = "seccomp"
           /\ After(ChildOrder, "seccomp") = IF job.kind = "mcp" THEN "stdio" ELSE "workdir"
           /\ job.kind = "mcp" => After(ChildOrder, "stdio") = "workdir"
           /\ After(ChildOrder, "workdir") = "environment"
           /\ After(ChildOrder, "environment") = "streams"
           /\ After(ChildOrder, "streams") = "close" /\ After(ChildOrder, "close") = "exec"
           /\ After(ChildOrder, "exec") = "agent"
<1>1. CASE job.kind = "mcp"
  BY <1>1, ServerChildOrder, Zenon DEF ChildOrder
<1>2. CASE job.kind # "mcp"
  BY <1>2, PassthroughChildOrder, Zenon DEF ChildOrder
<1> QED
  BY <1>1, <1>2

\* A step of the child that establishes what its next place promises.
LEMMA ChildStepKeeps ==
    ASSUME LaunchInv, child \in SetupSteps, child' \in SetupSteps, ChildInv',
           UNCHANGED <<job, host, commit, parent, mapped, grouped, done, alive, faults>>,
           held' \in {held, host}, Managed => held' = held,
           fds' \in [Fds -> Objects], armed' \in BOOLEAN, acked' \in BOOLEAN, acked' => acked,
           child' \in Released => acked \/ child \in Released,
           image' \in {image, held, host}
    PROVE  LaunchInv'
<1>1. TypeOK'
  BY DEF LaunchInv, TypeOK
<1>2. child \notin {"none", "reaped"}
  BY SetupStepsAre
<1>3. ParentInv'
  BY <1>2, ParentUntouched
<1>4. BindInv' /\ ReleaseInv'
  BY BindingKept, ReleaseKept
<1> QED
  BY <1>1, <1>3, <1>4 DEF LaunchInv

\* A step of the child that may be refused by the filter.
LEMMA ChildMoves ==
    ASSUME LaunchInv, NEW s \in SetupSteps, NEW needs, ChildAt(s, needs),
           fds' \in [Fds -> Objects], armed' \in BOOLEAN, acked' \in BOOLEAN, acked' => acked,
           s = "arm" \/ acked \/ s \in Released,
           image' \in {image, held, host}, child' = "exited" => image' = image,
           After(ChildOrder, s) \in SetupSteps,
           child' = After(ChildOrder, s) => ChildInv' /\ (s = "arm" => child' \notin Released)
    PROVE  LaunchInv'
<1>0. /\ child = s
      /\ UNCHANGED <<job, host, commit, held, parent, mapped, grouped, done, alive, faults>>
      /\ child' \in {"exited", After(ChildOrder, s)}
  BY DEF ChildAt
<1>1. CASE child' = "exited"
  BY <1>0, <1>1, ExitKeeps DEF LaunchInv, TypeOK
<1>2. CASE child' = After(ChildOrder, s)
  BY <1>0, <1>2, ChildStepKeeps
<1> QED
  BY <1>0, <1>1, <1>2

\* Closing descriptors opens none.
LEMMA CloseAllType ==
    ASSUME NEW t \in [Fds -> Objects], NEW objects
    PROVE  /\ CloseAll(t, objects) \in [Fds -> Objects]
           /\ \A n \in Fds : t[n] # "host_stdio" => CloseAll(t, objects)[n] # "host_stdio"
           /\ \A n \in Fds : t[n] \notin objects => CloseAll(t, objects)[n] = t[n]
<1>1. Closed \in Objects /\ Closed # "host_stdio"
  BY DEF Objects, Closed
<1> QED
  BY <1>1 DEF CloseAll

\* Before its root is built nothing is promised of the child.
LEMMA EarlyKeeps ==
    ASSUME LaunchInv, set_parent_death_signal \/ read_sync \/ mount_private
    PROVE  LaunchInv'
<1>0. TypeOK /\ fds \in [Fds -> Objects] /\ acked \in BOOLEAN /\ armed \in BOOLEAN
  BY DEF LaunchInv, TypeOK
<1>1. UNCHANGED job /\ child' \in {"sync", "private", "rootfs"} => ChildInv'
  BY DEF ChildInv, Rooted, Sealed, Piped
<1>2. UNCHANGED job
  BY DEF set_parent_death_signal, read_sync, mount_private, ChildAt
<1>3. {"arm", "sync", "private", "rootfs"} \subseteq SetupSteps /\ "private" \in Released
      /\ "sync" \notin Released
  BY SetupStepsAre DEF Released
<1>4. CASE set_parent_death_signal
  BY <1>0, <1>1, <1>2, <1>3, <1>4, ChildGoes, ChildMoves DEF set_parent_death_signal
<1>5. CASE read_sync
  <2>1. fds' \in [Fds -> Objects]
    BY <1>0, <1>5, CloseAllType DEF read_sync
  <2> QED
    BY <1>0, <1>1, <1>2, <1>3, <1>5, <2>1, ChildGoes, ChildMoves DEF read_sync
<1>6. CASE mount_private
  BY <1>0, <1>1, <1>2, <1>3, <1>6, ChildGoes, ChildMoves DEF mount_private
<1> QED
  BY <1>4, <1>5, <1>6

LEMMA RootfsKeeps ==
    ASSUME LaunchInv, rootfs
    PROVE  LaunchInv'
<1>0. /\ TypeOK /\ fds \in [Fds -> Objects] /\ acked \in BOOLEAN /\ armed \in BOOLEAN
      /\ child = "rootfs" /\ child' = "pivot" /\ UNCHANGED job
  BY ChildGoes DEF LaunchInv, TypeOK, rootfs
<1>1. ChildInv'
  BY <1>0, JobKept DEF rootfs, ChildInv, Rooted, Sealed, Piped
<1>2. fds' \in [Fds -> Objects]
  BY <1>0, CloseAllType DEF rootfs
<1>3. {"rootfs", "pivot"} \subseteq SetupSteps /\ "rootfs" \in Released
  BY SetupStepsAre DEF Released
<1> QED
  BY <1>0, <1>1, <1>2, <1>3, ChildStepKeeps DEF rootfs

\* Steps of the child that change nothing of what is promised.
LEMMA PlainKeeps ==
    ASSUME LaunchInv, pivot_into \/ change_directory \/ install_environment
    PROVE  LaunchInv'
<1>0. /\ TypeOK /\ fds \in [Fds -> Objects] /\ acked \in BOOLEAN /\ armed \in BOOLEAN
      /\ ChildInv /\ UNCHANGED <<job, commit>>
      /\ UNCHANGED <<fds, mountTable, denied, armed, acked, image>>
  BY DEF LaunchInv, TypeOK, pivot_into, change_directory, install_environment, ChildAt
<1>1. {"pivot", "egress", "capture", "workdir", "environment", "streams"}
        \subseteq Released \cap SetupSteps
  BY SetupStepsAre DEF Released
<1>2. CASE pivot_into
  <2>1. child = "pivot" /\ ChildAt("pivot", {"mount", "pivot_root"})
    BY <1>2 DEF pivot_into, ChildAt
  <2>2. child' = After(ChildOrder, "pivot") => ChildInv'
    <3> HAVE child' = After(ChildOrder, "pivot")
    <3>1. child' = IF job.kind = "mcp" THEN "egress" ELSE "capture"
      BY <1>0, ChildGoes
    <3> QED
      BY <1>0, <2>1, <3>1, JobKept DEF ChildInv, Rooted, Sealed, Piped
  <2>3. After(ChildOrder, "pivot") \in SetupSteps
    BY <1>0, <1>1, ChildGoes
  <2> QED
    BY <1>0, <1>1, <2>1, <2>2, <2>3, ChildMoves
<1>3. CASE change_directory
  <2>1. child = "workdir" /\ ChildAt("workdir", {}) /\ After(ChildOrder, "workdir") = "environment"
    BY <1>0, <1>3, ChildGoes DEF change_directory, ChildAt
  <2>2. child' = "environment" => ChildInv'
    BY <1>0, <2>1, JobKept DEF ChildInv, Rooted, Sealed, Piped
  <2> QED
    BY <1>0, <1>1, <2>1, <2>2, ChildMoves
<1>4. CASE install_environment
  <2>1. /\ child = "environment" /\ ChildAt("environment", {})
        /\ After(ChildOrder, "environment") = "streams"
    BY <1>0, <1>4, ChildGoes DEF install_environment, ChildAt
  <2>2. child' = "streams" => ChildInv'
    BY <1>0, <2>1, JobKept DEF ChildInv, Rooted, Sealed, Piped
  <2> QED
    BY <1>0, <1>1, <2>1, <2>2, ChildMoves
<1> QED
  BY <1>2, <1>3, <1>4

\* A descriptor is replaced.
LEMMA Dup2Type ==
    ASSUME NEW t \in [Fds -> Objects], NEW object \in Objects, NEW n \in Fds
    PROVE  /\ Dup2(t, object, n) \in [Fds -> Objects] /\ Dup2(t, object, n)[n] = object
           /\ \A m \in Fds \ {n} : Dup2(t, object, n)[m] = t[m]
BY DEF Dup2

LEMMA CaptureKeeps ==
    ASSUME LaunchInv, install_child_output_capture
    PROVE  LaunchInv'
<1>0. /\ TypeOK /\ fds \in [Fds -> Objects] /\ acked \in BOOLEAN /\ armed \in BOOLEAN
      /\ ChildInv /\ UNCHANGED <<job, commit>> /\ child = "capture" /\ ChildAt("capture", {})
      /\ UNCHANGED <<mountTable, denied, armed, acked, image>> /\ job.kind # "mcp"
  BY DEF LaunchInv, TypeOK, install_child_output_capture, ChildAt, ChildInv
<1>1. After(ChildOrder, "capture") = "egress"
  BY <1>0, ChildGoes
<1>2. {"capture", "egress"} \subseteq Released \cap SetupSteps
  BY SetupStepsAre DEF Released
<1>3. job.kind \in {"exec", "managed", "pty"} /\ {0, 1, 2} \subseteq Fds
  BY <1>0, JobFacts, LaunchAssumption DEF Fds
<1>4. {"slave_io", "out_io", "err_io"} \subseteq Objects
  BY DEF Objects
<1>5. /\ fds' \in [Fds -> Objects]
      /\ job.kind # "exec" => fds'[1] # "host_stdio" /\ fds'[2] # "host_stdio"
  <2>1. CASE job.kind = "pty"
    <3> DEFINE t1 == CloseAll(fds, {"master"})
               t2 == Dup2(t1, "slave_io", 0)
               t3 == Dup2(t2, "slave_io", 1)
               t4 == Dup2(t3, "slave_io", 2)
    <3>1. t1 \in [Fds -> Objects]
      BY <1>0, CloseAllType
    <3> HIDE DEF t1
    <3>2. t2 \in [Fds -> Objects]
      BY <1>3, <1>4, <3>1, Dup2Type
    <3> HIDE DEF t2
    <3>3. t3 \in [Fds -> Objects] /\ t3[1] = "slave_io"
      BY <1>3, <1>4, <3>2, Dup2Type
    <3> HIDE DEF t3
    <3>4. t4 \in [Fds -> Objects] /\ t4[1] = "slave_io" /\ t4[2] = "slave_io"
      BY <1>3, <1>4, <3>3 DEF Dup2
    <3> HIDE DEF t4
    <3>5. fds' = CloseAll(t4, {"slave"})
      BY <2>1 DEF install_child_output_capture, t1, t2, t3, t4
    <3> QED
      BY <1>3, <3>4, <3>5, CloseAllType
  <2>2. CASE job.kind = "managed"
    <3> DEFINE t1 == Dup2(fds, "out_io", 1)
               t2 == Dup2(t1, "err_io", 2)
    <3>1. t1 \in [Fds -> Objects] /\ t1[1] = "out_io"
      BY <1>0, <1>3, <1>4, Dup2Type
    <3> HIDE DEF t1
    <3>2. t2 \in [Fds -> Objects] /\ t2[1] = "out_io" /\ t2[2] = "err_io"
      BY <1>3, <1>4, <3>1 DEF Dup2
    <3> HIDE DEF t2
    <3>3. fds' = CloseAll(t2, {"out_r", "out_w", "err_r", "err_w"})
      BY <2>2 DEF install_child_output_capture, t1, t2
    <3> QED
      BY <1>3, <3>2, <3>3, CloseAllType
  <2>3. CASE job.kind = "exec"
    BY <1>0, <2>3 DEF install_child_output_capture
  <2> QED
    BY <1>3, <2>1, <2>2, <2>3
<1>6. child' = "egress" => ChildInv'
  BY <1>0, <1>5, JobKept DEF ChildInv, Rooted, Sealed, Piped
<1> QED
  BY <1>0, <1>1, <1>2, <1>5, <1>6, ChildMoves

LEMMA EgressKeeps ==
    ASSUME LaunchInv, install_sandbox_egress_bridge
    PROVE  LaunchInv'
<1> DEFINE needs == IF bridged_loopback_port THEN {"socket", "bind", "listen"} ELSE {}
<1>0. /\ TypeOK /\ fds \in [Fds -> Objects] /\ acked \in BOOLEAN /\ armed \in BOOLEAN
      /\ ChildInv /\ UNCHANGED <<job, commit>> /\ child = "egress" /\ ChildAt("egress", needs)
      /\ UNCHANGED <<mountTable, denied, armed, acked, image>>
      /\ fds' = CloseAll(fds, {"egress_s"})
  BY DEF LaunchInv, TypeOK, install_sandbox_egress_bridge, ChildAt
<1> HIDE DEF needs
<1>1. After(ChildOrder, "egress") = "seccomp" /\ {1, 2} \subseteq Fds
  BY <1>0, ChildGoes, LaunchAssumption DEF Fds
<1>2. {"egress", "seccomp"} \subseteq Released \cap SetupSteps
  BY SetupStepsAre DEF Released
<1>3. /\ fds' \in [Fds -> Objects]
      /\ \A n \in {1, 2} : fds[n] # "host_stdio" => fds'[n] # "host_stdio"
  BY <1>0, <1>1, CloseAllType
<1>4. child' = "seccomp" => ChildInv'
  BY <1>0, <1>3, JobKept DEF ChildInv, Rooted, Sealed, Piped
<1> QED
  BY <1>0, <1>1, <1>2, <1>3, <1>4, ChildMoves

LEMMA SeccompKeeps ==
    ASSUME LaunchInv, seccomp_load
    PROVE  LaunchInv'
<1>0. /\ TypeOK /\ fds \in [Fds -> Objects] /\ acked \in BOOLEAN /\ armed \in BOOLEAN
      /\ ChildInv /\ UNCHANGED <<job, commit>> /\ child = "seccomp" /\ ChildAt("seccomp", {})
      /\ UNCHANGED <<fds, mountTable, armed, acked, image>>
      /\ denied' = setup_seccomp(bridged_loopback_port, job.streams)
  BY DEF LaunchInv, TypeOK, seccomp_load, ChildAt
<1>1. After(ChildOrder, "seccomp") = IF job.kind = "mcp" THEN "stdio" ELSE "workdir"
  BY <1>0, ChildGoes
<1>2. {"seccomp", "stdio", "workdir"} \subseteq Released \cap SetupSteps
  BY SetupStepsAre DEF Released
<1>3. denied' = setup_seccomp(bridged_loopback_port', job'.streams)
  BY <1>0, JobKept
<1>4. child' = After(ChildOrder, "seccomp") => ChildInv'
  BY <1>0, <1>1, <1>3, JobKept DEF ChildInv, Rooted, Sealed, Piped
<1>5. After(ChildOrder, "seccomp") \in SetupSteps
  BY <1>1, <1>2
<1> QED
  BY <1>0, <1>2, <1>4, <1>5, ChildMoves

LEMMA StdioKeeps ==
    ASSUME LaunchInv, dup_stdio
    PROVE  LaunchInv'
<1>0. /\ TypeOK /\ fds \in [Fds -> Objects] /\ acked \in BOOLEAN /\ armed \in BOOLEAN
      /\ ChildInv /\ UNCHANGED <<job, commit>> /\ child = "stdio" /\ ChildAt("stdio", {})
      /\ UNCHANGED <<mountTable, denied, armed, acked, image>> /\ job.kind = "mcp"
  BY DEF LaunchInv, TypeOK, dup_stdio, ChildAt, ChildInv
<1>1. After(ChildOrder, "stdio") = "workdir"
  BY <1>0, ChildGoes
<1>2. {"stdio", "workdir"} \subseteq Released \cap SetupSteps
  BY SetupStepsAre DEF Released
<1>3. {0, 1, 2} \subseteq Fds /\ {"in_io", "out_io", "err_io"} \subseteq Objects
  BY LaunchAssumption DEF Fds, Objects
<1>4. /\ fds' \in [Fds -> Objects]
      /\ fds'[1] # "host_stdio" /\ fds'[2] # "host_stdio"
  <2> DEFINE t1 == Dup2(fds, "in_io", 0)
             t2 == Dup2(t1, "out_io", 1)
             t3 == Dup2(t2, "err_io", 2)
  <2>1. t1 \in [Fds -> Objects]
    BY <1>0, <1>3, Dup2Type
  <2> HIDE DEF t1
  <2>2. t2 \in [Fds -> Objects] /\ t2[1] = "out_io"
    BY <1>3, <2>1, Dup2Type
  <2> HIDE DEF t2
  <2>3. t3 \in [Fds -> Objects] /\ t3[1] = "out_io" /\ t3[2] = "err_io"
    BY <1>3, <2>2 DEF Dup2
  <2> HIDE DEF t3
  <2>4. fds' = CloseAll(t3, {"in_r", "in_w", "out_r", "out_w", "err_r", "err_w"})
    BY DEF dup_stdio, t1, t2, t3
  <2> QED
    BY <1>3, <2>3, <2>4, CloseAllType
<1>5. child' = "workdir" => ChildInv'
  BY <1>0, <1>4, JobKept DEF ChildInv, Rooted, Sealed, Piped
<1> QED
  BY <1>0, <1>1, <1>2, <1>4, <1>5, ChildMoves

LEMMA StreamsKeep ==
    ASSUME LaunchInv, place_streams
    PROVE  LaunchInv'
<1>0. /\ TypeOK /\ fds \in [Fds -> Objects] /\ acked \in BOOLEAN /\ armed \in BOOLEAN
      /\ ChildInv /\ UNCHANGED <<job, commit>> /\ child = "streams" /\ ChildAt("streams", {})
      /\ UNCHANGED <<mountTable, denied, armed, acked, image>>
      /\ fds' = [f \in Fds |-> IF f \in 3 .. 2 + job.streams THEN StreamName[f - 2] ELSE fds[f]]
  BY DEF LaunchInv, TypeOK, place_streams, ChildAt, install_inherited_streams
<1>1. /\ After(ChildOrder, "streams") = "close" /\ Fds \subseteq Int /\ {1, 2} \subseteq Fds
      /\ job.streams \in 0 .. 16
  BY <1>0, ChildGoes, LaunchAssumption, JobFacts DEF Fds
<1>2. {"streams", "close"} \subseteq Released \cap SetupSteps
  BY SetupStepsAre DEF Released
<1>3. fds' \in [Fds -> Objects]
  <2>1. \A i \in 1 .. 16 : StreamName[i] \in Objects
    <3>1. DOMAIN StreamName = 1 .. 16
      BY DEF StreamName
    <3> QED
      BY <3>1 DEF Objects, Range
  <2> QED
    BY <1>0, <1>1, <2>1
<1>4. /\ fds'[1] = fds[1] /\ fds'[2] = fds[2]
      /\ \A f \in Fds : f > 2 /\ f <= 2 + job.streams => fds'[f] = StreamName[f - 2]
  BY <1>0, <1>1
<1>5. child' = "close" => ChildInv'
  BY <1>0, <1>4, JobKept DEF ChildInv, Rooted, Sealed, Piped
<1> QED
  BY <1>0, <1>1, <1>2, <1>3, <1>5, ChildMoves

LEMMA CloseKeeps ==
    ASSUME LaunchInv, close_except_inherited
    PROVE  LaunchInv'
<1>0. /\ TypeOK /\ fds \in [Fds -> Objects] /\ acked \in BOOLEAN /\ armed \in BOOLEAN
      /\ ChildInv /\ UNCHANGED <<job, commit>> /\ child = "close" /\ ChildAt("close", {})
      /\ UNCHANGED <<mountTable, denied, armed, acked, image>>
      /\ fds' = [f \in Fds |-> IF f > 2 + job.streams THEN Closed ELSE fds[f]]
  BY DEF LaunchInv, TypeOK, close_except_inherited, ChildAt
<1>1. /\ After(ChildOrder, "close") = "exec" /\ Fds \subseteq Int /\ {1, 2} \subseteq Fds
      /\ job.streams \in 0 .. 16
  BY <1>0, ChildGoes, LaunchAssumption, JobFacts DEF Fds
<1>2. {"close", "exec"} \subseteq Released \cap SetupSteps
  BY SetupStepsAre DEF Released
<1>3. fds' \in [Fds -> Objects]
  BY <1>0 DEF Objects
<1>4. /\ fds'[1] = fds[1] /\ fds'[2] = fds[2]
      /\ \A f \in Fds : f <= 2 + job.streams => fds'[f] = fds[f]
      /\ \A f \in Fds : f > 2 + job.streams => fds'[f] = Closed
  BY <1>0, <1>1
<1>5. child' = "exec" => ChildInv'
  BY <1>0, <1>4, JobKept DEF ChildInv, Rooted, Sealed, Piped
<1> QED
  BY <1>0, <1>1, <1>2, <1>3, <1>5, ChildMoves

---------------------------------------------------------------------------
(* What a path names in the child's root.                                  *)

\* Two sequences joined.
LEMMA JoinedIs ==
    ASSUME NEW S, NEW s \in Seq(S), NEW t \in Seq(S)
    PROVE  /\ s \o t \in Seq(S) /\ Len(s \o t) = Len(s) + Len(t)
           /\ DOMAIN (s \o t) = 1 .. Len(s) + Len(t)
           /\ \A i \in 1 .. Len(s) : (s \o t)[i] = s[i]
           /\ \A i \in 1 .. Len(t) : (s \o t)[Len(s) + i] = t[i]
OBVIOUS

LEMMA ListOf ==
    ASSUME NEW S, NEW n \in Nat, NEW f \in [1 .. n -> S]
    PROVE  f \in Seq(S) /\ Len(f) = n
OBVIOUS

\* The root: the rules, the program, the session's mounts.
LEMMA RootIs ==
    ASSUME TypeOK
    PROVE  /\ Len(job.rules) \in Nat /\ Len(job.mounts) \in Nat
           /\ DOMAIN build_rootfs = 1 .. Len(job.rules) + 1 + Len(job.mounts)
           /\ build_rootfs[Len(job.rules) + 1] = Bound(job.program, "program")
           /\ \A i \in 1 .. Len(job.mounts) :
                 build_rootfs[Len(job.rules) + 1 + i] = Bound(job.mounts[i].target, i)
           /\ \A i \in 1 .. Len(job.rules) : build_rootfs[i] = Bound(job.rules[i], "host")
<1> DEFINE r == [i \in DOMAIN job.rules |-> Bound(job.rules[i], "host")]
           p == <<Bound(job.program, "program")>>
           m == [i \in DOMAIN job.mounts |-> Bound(job.mounts[i].target, i)]
           S == {Bound(job.rules[i], "host") : i \in DOMAIN job.rules}
                  \cup {Bound(job.program, "program")}
                  \cup {Bound(job.mounts[i].target, i) : i \in DOMAIN job.mounts}
<1>1. job.rules \in Seq(Seq(STRING)) /\ job.mounts \in Seq(Range(job.mounts))
  BY LaunchAssumption DEF TypeOK
<1>2. /\ Len(job.rules) \in Nat /\ Len(job.mounts) \in Nat
      /\ DOMAIN job.rules = 1 .. Len(job.rules) /\ DOMAIN job.mounts = 1 .. Len(job.mounts)
  BY <1>1
<1>3. r \in [1 .. Len(job.rules) -> S] /\ m \in [1 .. Len(job.mounts) -> S]
  BY <1>2
<1>4. p \in Seq(S) /\ Len(p) = 1 /\ p[1] = Bound(job.program, "program")
  OBVIOUS
<1>5. /\ \A i \in 1 .. Len(job.rules) : r[i] = Bound(job.rules[i], "host")
      /\ \A i \in 1 .. Len(job.mounts) : m[i] = Bound(job.mounts[i].target, i)
  BY <1>2
<1>6. build_rootfs = (r \o p) \o m
  BY DEF build_rootfs
<1> HIDE DEF r, p, m, S
<1>7. r \in Seq(S) /\ Len(r) = Len(job.rules) /\ m \in Seq(S) /\ Len(m) = Len(job.mounts)
  BY <1>2, <1>3, ListOf
<1> DEFINE q == r \o p
<1>8. /\ q \in Seq(S) /\ Len(q) = Len(job.rules) + 1
      /\ \A i \in 1 .. Len(job.rules) : q[i] = r[i]
      /\ q[Len(job.rules) + 1] = p[1]
  <2>1. /\ \A i \in 1 .. Len(r) : q[i] = r[i]
        /\ \A i \in 1 .. Len(p) : q[Len(r) + i] = p[i]
        /\ q \in Seq(S) /\ Len(q) = Len(r) + Len(p)
    BY <1>4, <1>7, JoinedIs
  <2> HIDE DEF q
  <2> QED
    BY <1>4, <1>7, <2>1
<1>a. build_rootfs = q \o m
  BY <1>6
<1> HIDE DEF q
<1> DEFINE all == q \o m
<1>9. /\ DOMAIN all = 1 .. Len(q) + Len(m)
      /\ \A i \in 1 .. Len(q) : all[i] = q[i]
      /\ \A i \in 1 .. Len(m) : all[Len(q) + i] = m[i]
  <2>1. q \in Seq(S) /\ m \in Seq(S)
    BY <1>7, <1>8
  <2> QED
    BY <2>1, JoinedIs
<1> HIDE DEF all
<1>10. /\ DOMAIN all = 1 .. Len(job.rules) + 1 + Len(job.mounts)
       /\ \A i \in 1 .. Len(job.rules) + 1 : all[i] = q[i]
       /\ \A i \in 1 .. Len(job.mounts) : all[Len(job.rules) + 1 + i] = m[i]
  BY <1>7, <1>8, <1>9
<1>11. all[Len(job.rules) + 1] = p[1] /\ \A i \in 1 .. Len(job.rules) : all[i] = r[i]
  <2>1. Len(job.rules) + 1 \in 1 .. Len(job.rules) + 1
        /\ \A i \in 1 .. Len(job.rules) : i \in 1 .. Len(job.rules) + 1
    BY <1>2
  <2> QED
    BY <1>8, <1>10, <2>1
<1>12. build_rootfs = all
  BY <1>a DEF all
<1> QED
  BY <1>2, <1>4, <1>5, <1>10, <1>11, <1>12

\* A path names the newest mount at or above it.
LEMMA ResolveIs ==
    ASSUME NEW path, NEW top \in Int, DOMAIN mountTable \subseteq Int,
           top \in DOMAIN mountTable, mount_within(path, mountTable[top].target),
           \A k \in DOMAIN mountTable : k > top => ~mount_within(path, mountTable[k].target)
    PROVE  Resolve(path) = mountTable[top].what
<1> DEFINE over == {i \in DOMAIN mountTable : mount_within(path, mountTable[i].target)}
<1>1. top \in over /\ \A k \in over : k <= top
  OBVIOUS
<1>2. \A i \in over : (\A k \in over : k <= i) => i = top
  BY <1>1
<1>3. (CHOOSE i \in over : \A k \in over : k <= i) = top
  BY <1>1, <1>2
<1> QED
  BY <1>1, <1>3 DEF Resolve

LEMMA PrefixFacts ==
    ASSUME NEW s \in Seq(STRING)
    PROVE  /\ mount_within(s, s)
           /\ \A t \in Seq(STRING) : mount_within(s, t) /\ mount_within(t, s) => s = t
BY DEF mount_within, IsPrefix

\* No mount of a bound launch covers the program.
LEMMA ProgramIsNamed ==
    ASSUME LaunchInv, Managed, prepare_managed_launch, mountTable = build_rootfs
    PROVE  Resolve(job.program) = "program"
<1>1. TypeOK /\ job.program \in Seq(STRING) /\ job.mounts \in Seq(Range(job.mounts))
  BY LaunchAssumption DEF LaunchInv, TypeOK
<1> DEFINE top == Len(job.rules) + 1
<1>2. /\ top \in Nat \ {0} /\ Len(job.mounts) \in Nat
      /\ DOMAIN mountTable = 1 .. top + Len(job.mounts)
      /\ mountTable[top] = Bound(job.program, "program")
      /\ \A i \in 1 .. Len(job.mounts) : mountTable[top + i] = Bound(job.mounts[i].target, i)
  <2>1. /\ Len(job.rules) \in Nat /\ Len(job.mounts) \in Nat
        /\ DOMAIN build_rootfs = 1 .. top + Len(job.mounts)
        /\ build_rootfs[top] = Bound(job.program, "program")
        /\ \A i \in 1 .. Len(job.mounts) : build_rootfs[top + i] = Bound(job.mounts[i].target, i)
    BY <1>1, RootIs, Zenon
  <2>2. top \in Nat \ {0}
    BY <2>1
  <2> QED
    BY <2>1, <2>2, Zenon
<1> HIDE DEF top
<1>3. \A i \in 1 .. Len(job.mounts) : ~mount_within(job.program, job.mounts[i].target)
  <2>1. \A m \in Range(job.mounts) : ~Overlapping(m.target, job.program)
    BY DEF prepare_managed_launch, validate_managed_mounts
  <2>2. \A i \in 1 .. Len(job.mounts) : job.mounts[i] \in Range(job.mounts)
    BY <1>1 DEF Range
  <2> QED
    BY <2>1, <2>2 DEF Overlapping
<1>4. \A k \in DOMAIN mountTable : k > top => ~mount_within(job.program, mountTable[k].target)
  <2> SUFFICES ASSUME NEW k \in DOMAIN mountTable, k > top
               PROVE  ~mount_within(job.program, mountTable[k].target)
    OBVIOUS
  <2>1. k - top \in 1 .. Len(job.mounts) /\ mountTable[top + (k - top)] = mountTable[k]
    BY <1>2
  <2>2. mountTable[k] = Bound(job.mounts[k - top].target, k - top)
    BY <1>2, <2>1
  <2> QED
    BY <1>3, <2>1, <2>2 DEF Bound
<1>5. top \in Int /\ top \in DOMAIN mountTable /\ DOMAIN mountTable \subseteq Int
  BY <1>2
<1>6. mount_within(job.program, mountTable[top].target) /\ mountTable[top].what = "program"
  BY <1>1, <1>2, PrefixFacts DEF Bound
<1> QED
  BY <1>4, <1>5, <1>6, ResolveIs

\* A later mount of a bound launch hides no earlier one.
LEMMA MountIsNamed ==
    ASSUME LaunchInv, Managed, prepare_managed_launch, mountTable = build_rootfs,
           NEW n \in DOMAIN job.mounts
    PROVE  Resolve(job.mounts[n].target) = n
<1>1. /\ TypeOK /\ job.mounts \in Seq(Range(job.mounts))
      /\ \A m \in Range(job.mounts) : m.target \in Seq(STRING)
  BY LaunchAssumption DEF LaunchInv, TypeOK
<1> DEFINE base == Len(job.rules) + 1
<1>2. /\ base \in Nat \ {0} /\ Len(job.mounts) \in Nat
      /\ DOMAIN mountTable = 1 .. base + Len(job.mounts)
      /\ \A i \in 1 .. Len(job.mounts) : mountTable[base + i] = Bound(job.mounts[i].target, i)
  <2>1. /\ Len(job.rules) \in Nat /\ Len(job.mounts) \in Nat
        /\ DOMAIN build_rootfs = 1 .. base + Len(job.mounts)
        /\ \A i \in 1 .. Len(job.mounts) : build_rootfs[base + i] = Bound(job.mounts[i].target, i)
    BY <1>1, RootIs, Zenon
  <2>2. base \in Nat \ {0}
    BY <2>1
  <2> QED
    BY <2>1, <2>2, Zenon
<1> HIDE DEF base
<1>3. /\ n \in 1 .. Len(job.mounts) /\ DOMAIN job.mounts = 1 .. Len(job.mounts)
      /\ \A i \in 1 .. Len(job.mounts) : job.mounts[i].target \in Seq(STRING)
  <2>1. DOMAIN job.mounts = 1 .. Len(job.mounts)
    BY <1>1
  <2>2. \A i \in 1 .. Len(job.mounts) : job.mounts[i] \in Range(job.mounts)
    BY <2>1 DEF Range
  <2> QED
    BY <1>1, <2>1, <2>2
<1>4. \A k \in 1 .. Len(job.mounts) : k > n =>
          ~mount_within(job.mounts[n].target, job.mounts[k].target)
  <2> SUFFICES ASSUME NEW k \in 1 .. Len(job.mounts), k > n,
                      mount_within(job.mounts[n].target, job.mounts[k].target)
               PROVE  FALSE
    OBVIOUS
  <2>1. \A i, l \in DOMAIN job.mounts :
            i < l /\ Overlapping(job.mounts[i].target, job.mounts[l].target)
            => /\ job.mounts[i].target = Home /\ job.mounts[l].target # Home
               /\ mount_within(job.mounts[l].target, Home)
    BY DEF prepare_managed_launch, validate_managed_mounts
  <2>2. Overlapping(job.mounts[n].target, job.mounts[k].target) /\ n < k
    BY <1>3 DEF Overlapping
  <2>3. /\ job.mounts[n].target = Home /\ job.mounts[k].target # Home
        /\ mount_within(job.mounts[k].target, Home)
    BY <1>3, <2>1, <2>2
  <2> QED
    BY <1>3, <2>3, PrefixFacts
<1>5. \A k \in DOMAIN mountTable : k > base + n =>
          ~mount_within(job.mounts[n].target, mountTable[k].target)
  <2> SUFFICES ASSUME NEW k \in DOMAIN mountTable, k > base + n
               PROVE  ~mount_within(job.mounts[n].target, mountTable[k].target)
    OBVIOUS
  <2>1. /\ k - base \in 1 .. Len(job.mounts) /\ k - base > n
        /\ mountTable[base + (k - base)] = mountTable[k]
    BY <1>2, <1>3
  <2>2. mountTable[k] = Bound(job.mounts[k - base].target, k - base)
    BY <1>2, <2>1
  <2> QED
    BY <1>4, <2>1, <2>2 DEF Bound
<1>6. base + n \in Int /\ base + n \in DOMAIN mountTable /\ DOMAIN mountTable \subseteq Int
  BY <1>2, <1>3
<1>7. /\ mount_within(job.mounts[n].target, mountTable[base + n].target)
      /\ mountTable[base + n].what = n
  <2>1. mountTable[base + n] = Bound(job.mounts[n].target, n)
    BY <1>2, <1>3
  <2>2. mount_within(job.mounts[n].target, job.mounts[n].target)
    BY <1>3, PrefixFacts
  <2> QED
    BY <2>1, <2>2 DEF Bound
<1> QED
  BY <1>5, <1>6, <1>7, ResolveIs

LEMMA ExecKeeps ==
    ASSUME LaunchInv, execv
    PROVE  LaunchInv'
<1>0. /\ TypeOK /\ fds \in [Fds -> Objects] /\ acked \in BOOLEAN /\ armed \in BOOLEAN
      /\ ChildInv /\ UNCHANGED <<job, commit>> /\ child = "exec" /\ ChildAt("exec", {})
      /\ UNCHANGED <<fds, mountTable, denied, armed, acked>>
      /\ image' = IF Resolve(job.program) = "program" THEN held ELSE host
  BY DEF LaunchInv, TypeOK, execv, ChildAt
<1>1. After(ChildOrder, "exec") = "agent"
  BY <1>0, ChildGoes
<1>2. {"exec", "agent"} \subseteq Released \cap SetupSteps
  BY SetupStepsAre DEF Released
<1>3. Managed => image' = commit
  <2> HAVE Managed
  <2>1. parent \notin {"bind", "start", "refused"}
    BY <1>0 DEF LaunchInv, ParentInv
  <2>2. prepare_managed_launch /\ held = commit
    BY <2>1 DEF LaunchInv, BindInv
  <2>3. mountTable = build_rootfs
    BY <1>0 DEF ChildInv, Rooted, Sealed
  <2> QED
    BY <1>0, <2>2, <2>3, ProgramIsNamed
<1>4. child' = "agent" => ChildInv'
  BY <1>0, <1>3, JobKept DEF ChildInv, Rooted, Sealed, Piped
<1>5. child' = "agent"
  BY <1>0, <1>1 DEF ChildAt
<1> QED
  BY <1>0, <1>1, <1>2, <1>4, <1>5, ChildMoves

---------------------------------------------------------------------------
(* The theorems.                                                           *)

LEMMA LaunchInvInit == Init => LaunchInv
<1> SUFFICES ASSUME Init PROVE LaunchInv
  OBVIOUS
<1>0. /\ parent = "bind" /\ child = "none" /\ done = {} /\ acked = FALSE
      /\ fds = [n \in Fds |-> Closed] /\ job \in Jobs
  BY DEF Init
<1>1. TypeOK
  <2>1. fds \in [Fds -> Objects]
    BY <1>0 DEF Objects
  <2>2. host \in 0 .. MaxReplace /\ faults \in 0 .. MaxFaults
    BY LaunchAssumption DEF Init
  <2> QED
    BY <1>0, <2>1, <2>2 DEF Init, TypeOK
<1>2. ParentInv
  BY <1>0 DEF ParentInv, Passed
<1>3. BindInv
  BY <1>0 DEF BindInv
<1>4. ReleaseInv
  BY <1>0, SetupStepsAre DEF ReleaseInv, Released
<1>5. ChildInv
  BY <1>0 DEF ChildInv, Rooted, Sealed, Piped
<1> QED
  BY <1>1, <1>2, <1>3, <1>4, <1>5 DEF LaunchInv

LEMMA LaunchInvNext == LaunchInv /\ [Next]_vars => LaunchInv'
<1> SUFFICES ASSUME LaunchInv, [Next]_vars PROVE LaunchInv'
  OBVIOUS
<1>1. CASE ParentNext
  BY <1>1, BindKeeps, StartKeeps, CloneKeeps, SetupKeeps, AcknowledgeKeeps, WaitKeeps
     DEF ParentNext
<1>2. CASE ParentFails
  BY <1>2, FailureKeeps
<1>3. CASE ChildNext
  BY <1>3, EarlyKeeps, ExitsKeep, RootfsKeeps, PlainKeeps, CaptureKeeps, EgressKeeps,
     SeccompKeeps, StdioKeeps, StreamsKeep, CloseKeeps, ExecKeeps DEF ChildNext
<1>4. CASE ChildFails \/ AgentExits \/ CgroupKilled
  BY <1>4, ExitsKeep
<1>5. CASE ReplaceProgram \/ SupervisorDies
  BY <1>5, EnvironmentKeeps
<1>6. CASE UNCHANGED vars
  <2>1. UNCHANGED <<job, host, commit, held, parent, child, fds, mountTable, denied, armed,
                    mapped, grouped, acked, done, image, alive, faults>>
    BY <1>6 DEF vars
  <2>2. TypeOK'
    BY <2>1 DEF LaunchInv, TypeOK
  <2>3. ParentInv'
    BY <2>1, JobKept DEF LaunchInv, ParentInv, Passed
  <2> QED
    BY <2>1, <2>2, <2>3, BindingKept, ReleaseKept, ChildUntouched DEF LaunchInv
<1> QED
  BY <1>1, <1>2, <1>3, <1>4, <1>5, <1>6 DEF Next

\* The two orders, the binding and the child's table agree in every state: what
\* the child has reached implies what the parent has done and what was checked.
THEOREM LaunchInvariant == Spec => []LaunchInv
<1> QED
  BY LaunchInvInit, LaunchInvNext, PTL DEF Spec

\* A child that has become the agent is confined.
LEMMA AgentConfined ==
    ASSUME LaunchInv
    PROVE  ExecIsConfined
<1> SUFFICES ASSUME child = "agent" PROVE ExecIsConfined
  BY DEF ExecIsConfined
<1>0. /\ TypeOK /\ ParentInv /\ BindInv /\ ReleaseInv /\ ChildInv
      /\ job.streams \in 0 .. 16 /\ Fds \subseteq Int
  BY JobFacts DEF LaunchInv, Fds
<1>1. /\ mountTable = build_rootfs
      /\ denied = setup_seccomp(bridged_loopback_port, job.streams)
      /\ job.kind # "exec" => fds[1] # "host_stdio" /\ fds[2] # "host_stdio"
      /\ \A f \in Fds : f > 2 /\ f <= 2 + job.streams => fds[f] = StreamName[f - 2]
      /\ \A f \in Fds : f > 2 + job.streams => fds[f] = Closed
      /\ Managed => image = commit
  BY <1>0 DEF ChildInv, Rooted, Sealed, Piped
<1>2. \A f \in Fds : f > 2 =>
          fds[f] = (IF f <= 2 + job.streams THEN StreamName[f - 2] ELSE Closed)
  BY <1>0, <1>1
<1>3. Guards \subseteq done
  BY <1>0, SetupStepsAre DEF ReleaseInv, Released
<1>4. mapped /\ (Managed => grouped)
  BY <1>0, <1>3 DEF Guards, ParentInv
<1>5. \A i \in DOMAIN job.mounts : Resolve(job.mounts[i].target) = i
  <2>1. CASE Managed
    <3>1. prepare_managed_launch
      BY <1>0, <2>1 DEF ParentInv, BindInv
    <3> QED
      BY <1>1, <2>1, <3>1, MountIsNamed
  <2>2. CASE ~Managed
    <3>1. job.kind \in {"mcp", "exec"}
      BY <1>0, <2>2, JobFacts
    <3>2. job.mounts = <<>>
      BY <1>0, <3>1, LaunchAssumption DEF TypeOK
    <3> QED
      BY <3>2
  <2> QED
    BY <2>1, <2>2
<1>6. AlwaysDenied \subseteq denied /\ (job.net = "none" => "socket" \in denied)
  BY <1>1 DEF setup_seccomp, bridged_loopback_port
<1> QED
  BY <1>1, <1>2, <1>4, <1>5, <1>6 DEF ExecIsConfined

\* For every set of jobs, layout of descriptors, fault, kill, replacement of the
\* program and death of the supervisor: an agent starts only confined, with the
\* program its binding committed to, and a launch that fails leaves no child.
THEOREM LaunchSafety == Spec => []LaunchIsSafe
<1>1. LaunchInv => LaunchIsSafe
  <2> SUFFICES ASSUME LaunchInv PROVE LaunchIsSafe
    OBVIOUS
  <2>1. TypeOK /\ ParentInv /\ ReleaseInv
    BY DEF LaunchInv
  <2>2. Guards = {s \in Range(Order) : Applies(s)}
                    \ ({"ack", "launched"} \cup IF job.kind = "mcp" THEN {"output"} ELSE {})
    BY <2>1, JobFacts, GuardsAre
  <2>3. LaunchIsAllOrNothing
    BY <2>1, <2>2, Zenon DEF LaunchIsAllOrNothing, ReleaseInv, Released, ParentInv
  <2> QED
    BY <2>1, <2>3, AgentConfined DEF LaunchIsSafe
<1> QED
  BY <1>1, LaunchInvariant, PTL

---------------------------------------------------------------------------
(* The session filesystem.                                                 *)
(*                                                                         *)
(* The inductive invariant says, for every part of every session, where    *)
(* what a guest wrote to it is: from what the names and the object of the  *)
(* part are (PartInv), from the operation in progress for its session      *)
(* (OpInv), and from the place that operation has come to (PlaceInv).      *)

PartNames == Aliases \cup {Scratch}

Entries == [dir : BOOLEAN, image : {"none", "empty", "sized", "formatted"},
            meta : {"none", "pending", "final"}, pending : BOOLEAN,
            stage : NoData .. MaxWrites + 1]

OpNames == {"idle", "create", "unwind", "live", "close", "clean", "closed", "dropped",
            "dead", "orphan", "adopt", "adopted", "mismatch"}

Places == {"none", "mkdir", "image", "size", "format", "mount", "copy", "sidecar",
           "publish", "final", "stage", "forget", "unmount", "rmdir", "rmimage", "adopt"}

Runs == [op : OpNames, at : Places, todo : Seq(PartNames), failed : BOOLEAN]

Materials == [held : BOOLEAN, meta : BOOLEAN, manifest : BOOLEAN]

FsTypes ==
    /\ root \in [Parts -> Entries] /\ durable \in [Parts -> Entries]
    /\ data \in [Parts -> NoData .. MaxWrites]
    /\ obj \in [Parts -> Materials]
    /\ run \in [Sessions -> Runs]
    /\ plan \in [Sessions -> Plans \cup {<<>>}]
    /\ told \subseteq Parts

\* On disk and after the last sync, an image a recovery will mount.
Intact(p) == Recoverable(root[p]) /\ Recoverable(durable[p])

\* The stage holds the tree, on disk too.
Staged(p) == root[p].stage = data[p] /\ durable[p].stage = data[p]
Kept(p) == Shown(p) => Staged(p)
Unstaged(p) == root[p].stage = NoData /\ durable[p].stage = NoData

\* The object knows of metadata and has not returned a manifest: it is the
\* only kind of object whose image still holds what a guest wrote.
Pristine(p) == obj[p].meta /\ ~obj[p].manifest

\* What holds of a part whatever its session does.
PartInv(p) ==
    /\ Shown(p) => \A e \in {root[p], durable[p]} : e.stage = data[p] \/ Recoverable(e)
    /\ root[p].stage = data[p] => durable[p].stage = data[p]
    /\ obj[p].meta \/ root[p].meta = "final" \/ durable[p].meta = "final" =>
          data[p] # NoData /\ IsRetained(p)
    /\ p \in told => /\ data[p] # NoData /\ root[p].stage = data[p]
                     /\ root[p].meta # "final" /\ durable[p].meta # "final"
    /\ ~IsRetained(p) => Unstaged(p) /\ p \notin told
    /\ obj[p].held => Pristine(p) \/ Kept(p)

\* What the operation in progress for session s means for part p of it.
OpInv(s, p) ==
    /\ run[s].op = "idle" => Unstaged(p) /\ data[p] = NoData /\ obj[p] = NoObject
    /\ run[s].op = "create" =>
          /\ Unstaged(p) /\ data[p] <= 0 /\ ~obj[p].manifest
          /\ IsRetained(p) /\ p[2] \notin Range(run[s].todo) => Intact(p) /\ obj[p].meta
    /\ run[s].op = "live" /\ IsRetained(p) => Intact(p) /\ Unstaged(p) /\ Pristine(p)
    /\ s \in guest /\ IsRetained(p) =>
          Intact(p) /\ Unstaged(p) /\ (obj[p].held => Pristine(p))
    /\ run[s].op = "close" /\ p[2] \notin Range(run[s].todo) => Kept(p)
    /\ run[s].op \in {"clean", "closed"} => Kept(p)
    /\ run[s].op \in FinalOps /\ p[2] \in Range(run[s].todo) => Pristine(p) \/ Kept(p)

\* What the place the operation has come to means for the part it is at.
PlaceInv(s, p) ==
    /\ run[s].op = "create" =>
          /\ run[s].at \in {"mount", "copy", "sidecar", "publish"} /\ IsRetained(p) =>
                root[p].image = "formatted" /\ durable[p].image = "formatted"
          /\ run[s].at \in {"sidecar", "publish"} => data[p] # NoData /\ IsRetained(p)
    /\ run[s].op \in FinalOps =>
          /\ run[s].at = "stage" =>
                /\ data[p] # NoData /\ Pristine(p) /\ root[p].stage = NoData
                /\ Shown(p) => Recoverable(root[p])
          /\ run[s].at = "forget" => data[p] # NoData /\ Staged(p)
    /\ run[s].op \in CleanOps /\ run[s].at \in {"unmount", "rmdir", "rmimage"} => Kept(p)

\* Which sessions are known to the registry, have a guest or a receipt.
SessionInv(s) ==
    /\ s \in guest => s \in recorded /\ s \notin receipt /\ run[s].op \in {"live", "dead"}
    /\ run[s].op \in {"idle", "create"} => s \notin recorded
    /\ run[s].op \in {"idle", "create", "live"} => s \notin receipt

FsInv ==
    /\ FsTypes
    /\ \A p \in Parts : PartInv(p) /\ OpInv(p[1], p)
    /\ \A s \in Sessions :
          SessionInv(s) /\ (run[s].todo # <<>> => PlaceInv(s, Current(s)))

-----------------------------------------------------------------------------
(* Basic facts: parts, sequences of part names, updates.                     *)

LEMMA PartFacts ==
    ASSUME NEW s \in Sessions, NEW a \in PartNames
    PROVE  <<s, a>> \in Parts /\ <<s, a>>[1] = s /\ <<s, a>>[2] = a
BY DEF Parts, PartNames

LEMMA PartParts ==
    ASSUME NEW p \in Parts
    PROVE  p[1] \in Sessions /\ p[2] \in PartNames /\ p = <<p[1], p[2]>>
BY DEF Parts, PartNames

LEMMA OtherPart ==
    ASSUME NEW p \in Parts, NEW q \in Parts, q # p, q[1] = p[1]
    PROVE  q[2] # p[2]
BY PartParts

\* The aliases of the copies of a plan.
LEMMA CopiesFacts ==
    ASSUME NEW grants \in Plans \cup {<<>>}
    PROVE  Copies(grants) \in Seq(Aliases)
<1> DEFINE gs == CopyGrants(grants)
           C == {g \in Range(grants) : IsCopy(g)}
<1>1. grants \in Seq(Range(grants)) /\ \A g \in C : g.alias \in Aliases
  <2>1. CASE grants = <<>>
    BY <2>1 DEF Range
  <2>2. CASE grants \in Plans
    BY <2>2, FilesystemAssumption
  <2> QED
    BY <2>1, <2>2
<1>2. gs \in Seq(Range(grants)) /\ Range(gs) = Range(grants) \cap C
  <2> HIDE DEF C
  <2>1. gs = Those(grants, C)
    BY DEF C, CopyGrants
  <2> HIDE DEF gs
  <2> QED
    BY <1>1, <2>1, ThoseFacts
<1>3. \A i \in DOMAIN gs : gs[i] \in C
  BY <1>2 DEF Range
<1>4. Len(gs) \in Nat /\ DOMAIN gs = 1 .. Len(gs)
  BY <1>2
<1>5. Copies(grants) = [i \in 1 .. Len(gs) |-> gs[i].alias]
  BY <1>4 DEF Copies
<1> HIDE DEF gs, C
<1>6. \A i \in 1 .. Len(gs) : gs[i].alias \in Aliases
  BY <1>1, <1>3, <1>4
<1> QED
  BY <1>4, <1>5, <1>6

LEMMA CopiesOf ==
    ASSUME FsTypes, NEW s \in Sessions
    PROVE  /\ Copies(plan[s]) \in Seq(Aliases) /\ Copies(plan[s]) \in Seq(PartNames)
           /\ Append(Copies(plan[s]), Scratch) \in Seq(PartNames)
<1>1. Copies(plan[s]) \in Seq(Aliases)
  BY CopiesFacts DEF FsTypes
<1>2. ASSUME NEW c \in Seq(Aliases)
      PROVE  c \in Seq(PartNames) /\ Append(c, Scratch) \in Seq(PartNames)
  BY DEF PartNames
<1> QED
  BY <1>1, <1>2

LEMMA HeldFacts ==
    ASSUME FsTypes, NEW s \in Sessions, NEW objects
    PROVE  /\ Held(s, objects) \in Seq(PartNames)
           /\ \A a \in Range(Held(s, objects)) : a \in PartNames /\ objects[<<s, a>>].held
<1> DEFINE H == {a \in PartNames : objects[<<s, a>>].held}
           c == Append(Copies(plan[s]), Scratch)
<1>1. Held(s, objects) = Those(c, H)
  BY DEF Held, PartNames
<1>2. c \in Seq(PartNames)
  BY CopiesOf
<1>3. \A a \in H : a \in PartNames /\ objects[<<s, a>>].held
  OBVIOUS
<1> HIDE DEF H, c
<1>4. Those(c, H) \in Seq(PartNames) /\ Range(Those(c, H)) = Range(c) \cap H
  BY <1>2, ThoseFacts
<1> QED
  BY <1>1, <1>3, <1>4

LEMMA CurrentFacts ==
    ASSUME FsTypes, NEW s \in Sessions, run[s].todo # <<>>
    PROVE  /\ Current(s) \in Parts /\ Current(s)[1] = s
           /\ Current(s)[2] = Head(run[s].todo)
           /\ run[s].todo \in Seq(PartNames) /\ Tail(run[s].todo) \in Seq(PartNames)
           /\ Range(run[s].todo) = {Current(s)[2]} \cup Range(Tail(run[s].todo))
<1> DEFINE q == run[s].todo
<1>1. q \in Seq(PartNames) /\ q # <<>>
  BY DEF FsTypes, Runs
<1>2. Head(q) \in PartNames
  BY <1>1, HeadTailRange
<1>3. Current(s) = <<s, Head(q)>>
  BY DEF Current
<1> HIDE DEF q
<1>4. Tail(q) \in Seq(PartNames) /\ Range(q) = {Head(q)} \cup Range(Tail(q))
  BY <1>1, HeadTailRange
<1> QED
  BY <1>1, <1>2, <1>3, <1>4, PartFacts DEF q

\* What an assignment to the position of an operation changes.
LEMMA GotoFacts ==
    ASSUME FsTypes, NEW s \in Sessions, NEW at \in Places, Goto(s, at)
    PROVE  /\ run' \in [Sessions -> Runs]
           /\ run'[s].op = run[s].op /\ run'[s].at = at /\ run'[s].todo = run[s].todo
           /\ run'[s].failed = run[s].failed
           /\ \A t \in Sessions \ {s} : run'[t] = run[t]
BY DEF Goto, FsTypes, Runs

LEMMA PutFacts ==
    ASSUME FsTypes, NEW s \in Sessions, NEW r \in Runs, run' = [run EXCEPT ![s] = r]
    PROVE  /\ run' \in [Sessions -> Runs] /\ run'[s] = r
           /\ \A t \in Sessions \ {s} : run'[t] = run[t]
BY DEF FsTypes

LEMMA RunRecord ==
    ASSUME NEW op \in OpNames, NEW at \in Places, NEW todo \in Seq(PartNames),
           NEW failed \in BOOLEAN
    PROVE  [op |-> op, at |-> at, todo |-> todo, failed |-> failed] \in Runs
BY DEF Runs

LEMMA AdvanceFacts ==
    ASSUME FsTypes, NEW s \in Sessions, run[s].todo # <<>>, NEW first \in Places,
           NEW failed \in BOOLEAN, Advance(s, first, failed)
    PROVE  /\ run' \in [Sessions -> Runs]
           /\ run'[s].op = run[s].op /\ run'[s].at = first /\ run'[s].todo = Tail(run[s].todo)
           /\ \A t \in Sessions \ {s} : run'[t] = run[t]
<1> DEFINE r == [op |-> run[s].op, at |-> first, todo |-> Tail(run[s].todo),
                 failed |-> run[s].failed \/ failed]
<1>1. run[s].op \in OpNames /\ run[s].failed \in BOOLEAN
  BY DEF FsTypes, Runs
<1>2. r \in Runs
  BY <1>1, CurrentFacts, RunRecord
<1>3. run' = [run EXCEPT ![s] = r]
  BY DEF Advance
<1>4. /\ r.op = run[s].op /\ r.at = first /\ r.todo = Tail(run[s].todo)
  OBVIOUS
<1> HIDE DEF r
<1>5. run'[s] = r /\ run' \in [Sessions -> Runs] /\ \A t \in Sessions \ {s} : run'[t] = run[t]
  BY <1>2, <1>3, PutFacts
<1> QED
  BY <1>4, <1>5

LEMMA IdleFacts ==
    ASSUME NEW op \in OpNames
    PROVE  /\ [Idle EXCEPT !.op = op] \in Runs
           /\ [Idle EXCEPT !.op = op].op = op /\ [Idle EXCEPT !.op = op].todo = <<>>
           /\ Idle \in Runs /\ Idle.op = "idle" /\ Idle.todo = <<>>
<1>1. /\ "idle" \in OpNames /\ "none" \in Places /\ FALSE \in BOOLEAN
  BY DEF OpNames, Places
<1>2. <<>> \in Seq(PartNames)
  OBVIOUS
<1>3. Idle \in Runs /\ Idle.op = "idle" /\ Idle.todo = <<>>
  BY <1>1, <1>2 DEF Idle, Runs
<1>4. ASSUME NEW r \in Runs
      PROVE  LET n == [r EXCEPT !.op = op] IN n \in Runs /\ n.op = op /\ n.todo = r.todo
  BY DEF Runs
<1> QED
  BY <1>3, <1>4

LEMMA UnwindFacts ==
    ASSUME FsTypes, NEW s \in Sessions, NEW objects, Unwind(s, objects)
    PROVE  /\ run' \in [Sessions -> Runs]
           /\ run'[s].op = "unwind" /\ run'[s].at = "final"
           /\ \A a \in Range(run'[s].todo) : a \in PartNames /\ objects[<<s, a>>].held
           /\ \A t \in Sessions \ {s} : run'[t] = run[t]
<1> DEFINE h == Held(s, objects)
           r == [op |-> "unwind", at |-> "final", failed |-> TRUE, todo |-> h]
<1>1. h \in Seq(PartNames) /\ \A a \in Range(h) : a \in PartNames /\ objects[<<s, a>>].held
  BY HeldFacts
<1>2. run' = [run EXCEPT ![s] = r]
  BY DEF Unwind
<1> HIDE DEF h
<1>3. r \in Runs /\ r.op = "unwind" /\ r.at = "final" /\ r.todo = h
  BY <1>1 DEF Runs, OpNames, Places
<1> HIDE DEF r
<1>4. run'[s] = r /\ run' \in [Sessions -> Runs] /\ \A t \in Sessions \ {s} : run'[t] = run[t]
  BY <1>2, <1>3, PutFacts
<1> QED
  BY <1>1, <1>3, <1>4

LEMMA SetEntryFacts ==
    ASSUME FsTypes, NEW p \in Parts, NEW e \in Entries, SetEntry(p, e)
    PROVE  /\ root' \in [Parts -> Entries] /\ root'[p] = e
           /\ \A q \in Parts \ {p} : root'[q] = root[q]
BY DEF SetEntry, FsTypes

-----------------------------------------------------------------------------
(* What a step leaves alone.                                                 *)

SameEntries(e, f) == e.image = f.image /\ e.meta = f.meta /\ e.stage = f.stage

\* The names of part q are as before, those of the last sync also when this
\* step synced the root; its tree and its object are the same.
Untouched(q) ==
    /\ SameEntries(root'[q], root[q])
    /\ SameEntries(durable'[q], durable[q]) \/ SameEntries(durable'[q], root[q])
    /\ data'[q] = data[q] /\ obj'[q] = obj[q] /\ plan'[q[1]] = plan[q[1]]
    /\ q \in told' <=> q \in told

SameStanding(t) ==
    /\ t \in recorded' <=> t \in recorded
    /\ t \in guest' <=> t \in guest
    /\ t \in receipt' <=> t \in receipt

\* Only part p and the operation of its session change.
Around(p) ==
    /\ \A q \in Parts \ {p} : Untouched(q)
    /\ \A t \in Sessions : SameStanding(t)
    /\ \A t \in Sessions \ {p[1]} : run'[t] = run[t]

LEMMA RetainedKept ==
    ASSUME NEW q \in Parts, plan'[q[1]] = plan[q[1]]
    PROVE  IsRetained(q)' <=> IsRetained(q)
BY DEF IsRetained, GrantOf

LEMMA ShownKept ==
    ASSUME NEW q \in Parts, plan'[q[1]] = plan[q[1]], data'[q] = data[q]
    PROVE  Shown(q)' <=> Shown(q)
BY RetainedKept DEF Shown

LEMMA UntouchedFacts ==
    ASSUME NEW q \in Parts, Untouched(q)
    PROVE  /\ IsRetained(q)' <=> IsRetained(q)
           /\ Shown(q)' <=> Shown(q)
           /\ Unstaged(q) => Unstaged(q)'
           /\ Staged(q) => Staged(q)'
           /\ Kept(q) => Kept(q)'
           /\ Intact(q) => Intact(q)'
           /\ Pristine(q)' <=> Pristine(q)
           /\ Recoverable(root[q]) => Recoverable(root[q])'
           /\ root'[q].stage = root[q].stage /\ data'[q] = data[q] /\ obj'[q] = obj[q]
           /\ root[q].image = "formatted" /\ durable[q].image = "formatted" =>
                 root'[q].image = "formatted" /\ durable'[q].image = "formatted"
           /\ q \in told' <=> q \in told
<1>1. (IsRetained(q)' <=> IsRetained(q)) /\ (Shown(q)' <=> Shown(q))
  BY RetainedKept, ShownKept DEF Untouched
<1>2. Staged(q) => Staged(q)'
  BY DEF Untouched, SameEntries, Staged
<1>3. Kept(q) => Kept(q)'
  BY <1>1, <1>2 DEF Kept
<1>4. (Unstaged(q) => Unstaged(q)') /\ (Intact(q) => Intact(q)')
  BY DEF Untouched, SameEntries, Unstaged, Intact, Recoverable
<1>5. Pristine(q)' <=> Pristine(q)
  BY DEF Untouched, Pristine
<1>6. Recoverable(root[q]) => Recoverable(root[q])'
  BY DEF Untouched, SameEntries, Recoverable
<1> QED
  BY <1>1, <1>2, <1>3, <1>4, <1>5, <1>6 DEF Untouched, SameEntries

LEMMA UntouchedPart ==
    ASSUME NEW q \in Parts, Untouched(q), PartInv(q)
    PROVE  PartInv(q)'
<1>1. /\ IsRetained(q)' <=> IsRetained(q)
      /\ Shown(q)' <=> Shown(q)
      /\ Unstaged(q) => Unstaged(q)'
      /\ Kept(q) => Kept(q)'
      /\ Pristine(q)' <=> Pristine(q)
      /\ root'[q].stage = root[q].stage /\ data'[q] = data[q] /\ obj'[q] = obj[q]
      /\ q \in told' <=> q \in told
  BY UntouchedFacts
<1>2. ASSUME Shown(q)'
      PROVE  \A e \in {root'[q], durable'[q]} : e.stage = data'[q] \/ Recoverable(e)
  BY <1>1, <1>2 DEF PartInv, Untouched, SameEntries, Recoverable
<1>3. root'[q].stage = data'[q] => durable'[q].stage = data'[q]
  BY DEF PartInv, Untouched, SameEntries
<1>4. obj'[q].meta \/ root'[q].meta = "final" \/ durable'[q].meta = "final" =>
          data'[q] # NoData /\ IsRetained(q)'
  BY <1>1 DEF PartInv, Untouched, SameEntries
<1>5. q \in told' => /\ data'[q] # NoData /\ root'[q].stage = data'[q]
                     /\ root'[q].meta # "final" /\ durable'[q].meta # "final"
  BY <1>1 DEF PartInv, Untouched, SameEntries
<1>6. ~IsRetained(q)' => Unstaged(q)' /\ q \notin told'
  BY <1>1 DEF PartInv
<1>7. obj'[q].held => Pristine(q)' \/ Kept(q)'
  BY <1>1 DEF PartInv
<1> QED
  BY <1>2, <1>3, <1>4, <1>5, <1>6, <1>7 DEF PartInv, NoData

\* A part that is left alone means the same to an operation that stays what it
\* is and keeps the part on its list, or off it.
LEMMA UntouchedOp ==
    ASSUME NEW q \in Parts, NEW s, Untouched(q), OpInv(s, q),
           run'[s].op = run[s].op, s \in guest' => s \in guest,
           q[2] \in Range(run'[s].todo) <=> q[2] \in Range(run[s].todo)
    PROVE  OpInv(s, q)'
<1>1. /\ IsRetained(q)' <=> IsRetained(q)
      /\ Unstaged(q) => Unstaged(q)'
      /\ Kept(q) => Kept(q)'
      /\ Intact(q) => Intact(q)'
      /\ Pristine(q)' <=> Pristine(q)
      /\ data'[q] = data[q] /\ obj'[q] = obj[q]
  BY UntouchedFacts
<1>2. (q[2] \in Range(run[s].todo))' <=> q[2] \in Range(run[s].todo)
  OBVIOUS
<1> QED
  BY <1>1, <1>2 DEF OpInv, FinalOps, NoData, NoObject

LEMMA UntouchedPlace ==
    ASSUME NEW q \in Parts, NEW s, Untouched(q), PlaceInv(s, q),
           run'[s].op = run[s].op, run'[s].at = run[s].at
    PROVE  PlaceInv(s, q)'
<1>1. /\ IsRetained(q)' <=> IsRetained(q)
      /\ Shown(q)' <=> Shown(q)
      /\ Staged(q) => Staged(q)'
      /\ Kept(q) => Kept(q)'
      /\ Pristine(q)' <=> Pristine(q)
      /\ Recoverable(root[q]) => Recoverable(root[q])'
      /\ root'[q].stage = root[q].stage /\ data'[q] = data[q]
      /\ root[q].image = "formatted" /\ durable[q].image = "formatted" =>
            root'[q].image = "formatted" /\ durable'[q].image = "formatted"
  BY UntouchedFacts
<1> QED
  BY <1>1 DEF PlaceInv, FinalOps, CleanOps, NoData

-----------------------------------------------------------------------------
(* Steps that keep the operation, or end it.                                 *)

\* A step at part p of its session: what is left to show is about p, about
\* the session, and about the place the operation is at.
LEMMA StepKept ==
    ASSUME FsInv, FsTypes', NEW p \in Parts, Around(p), PartInv(p)',
           SessionInv(p[1])',
           \A q \in Parts : q[1] = p[1] => OpInv(p[1], q)',
           run'[p[1]].todo # <<>> => PlaceInv(p[1], Current(p[1]))'
    PROVE  FsInv'
<1>1. ASSUME NEW q \in Parts
      PROVE  PartInv(q)'
  <2>1. CASE q = p
    BY <2>1
  <2>2. CASE q # p
    BY <2>2, UntouchedPart DEF Around, FsInv
  <2> QED
    BY <2>1, <2>2
<1>2. ASSUME NEW q \in Parts
      PROVE  OpInv(q[1], q)'
  <2>1. CASE q[1] = p[1]
    BY <2>1
  <2>2. CASE q[1] # p[1]
    <3> DEFINE t == q[1]
    <3>1. t \in Sessions /\ t # p[1] /\ q # p
      BY <2>2, PartParts
    <3>2. run'[t] = run[t] /\ SameStanding(t) /\ Untouched(q) /\ OpInv(t, q)
      BY <3>1 DEF Around, FsInv
    <3> HIDE DEF t
    <3>3. OpInv(t, q)'
      BY <3>2, UntouchedOp DEF SameStanding
    <3> QED
      BY <3>3 DEF t
  <2> QED
    BY <2>1, <2>2
<1>3. ASSUME NEW t \in Sessions
      PROVE  SessionInv(t)' /\ (run'[t].todo # <<>> => PlaceInv(t, Current(t))')
  <2>1. CASE t = p[1]
    BY <2>1
  <2>2. CASE t # p[1]
    <3>1. run'[t] = run[t] /\ SameStanding(t)
      BY <2>2 DEF Around
    <3>2. SessionInv(t)'
      BY <3>1 DEF FsInv, SessionInv, SameStanding
    <3>3. ASSUME run'[t].todo # <<>>
          PROVE  PlaceInv(t, Current(t))'
      <4>1. PICK q \in Parts : q = Current(t) /\ q[1] = t
        BY <3>1, <3>3, CurrentFacts DEF FsInv
      <4>2. Current(t)' = q
        BY <3>1, <4>1 DEF Current
      <4>3. q # p /\ PlaceInv(t, q)
        BY <2>2, <3>1, <3>3, <4>1 DEF FsInv
      <4>4. Untouched(q)
        BY <4>3 DEF Around
      <4>5. PlaceInv(t, q)'
        BY <3>1, <4>3, <4>4, UntouchedPlace
      <4> QED
        BY <4>2, <4>5
    <3> QED
      BY <3>2, <3>3
  <2> QED
    BY <2>1, <2>2
<1> QED
  BY <1>1, <1>2, <1>3 DEF FsInv

\* The standing of the session of a step does not change while its operation
\* goes on, or when it is given up.
LEMMA StandingKept ==
    ASSUME FsInv, NEW p \in Parts, Around(p),
           \/ run'[p[1]].op = run[p[1]].op
           \/ run'[p[1]].op \notin {"idle", "create", "live"} /\ p[1] \notin guest
    PROVE  SessionInv(p[1])'
<1>1. p[1] \in Sessions
  BY PartParts
<1>2. SameStanding(p[1]) /\ SessionInv(p[1])
  BY <1>1 DEF Around, FsInv
<1> QED
  BY <1>2 DEF SameStanding, SessionInv

\* Goto: the operation goes on at the same part.
LEMMA Stays ==
    ASSUME FsInv, FsTypes', NEW s \in Sessions, NEW p \in Parts, p = Current(s),
           run[s].todo # <<>>, Around(p),
           run'[s].op = run[s].op, run'[s].todo = run[s].todo,
           PartInv(p)', OpInv(s, p)', PlaceInv(s, p)'
    PROVE  FsInv'
<1>1. p[1] = s
  BY CurrentFacts DEF FsInv
<1>2. ASSUME NEW q \in Parts, q[1] = s
      PROVE  OpInv(s, q)'
  <2>1. CASE q = p
    BY <2>1
  <2>2. CASE q # p
    <3>1. Untouched(q) /\ OpInv(s, q) /\ SameStanding(s)
      BY <1>2, <2>2 DEF Around, FsInv
    <3> QED
      BY <3>1, UntouchedOp DEF SameStanding
  <2> QED
    BY <2>1, <2>2
<1>3. SessionInv(s)'
  BY <1>1, StandingKept
<1>4. Current(s)' = p
  BY DEF Current
<1>5. PlaceInv(s, Current(s))'
  BY <1>4
<1> QED
  BY <1>1, <1>2, <1>3, <1>5, StepKept

\* An operation that comes to a new part is at the first step for it.
LEMMA NextPlace ==
    ASSUME FsTypes', NEW s \in Sessions, run'[s].todo # <<>>,
           \A q \in Parts : q[1] = s => OpInv(s, q)',
           run'[s].at \in {"mkdir", "final", "adopt"} \/ run'[s].op \in {"clean", "mismatch"}
    PROVE  PlaceInv(s, Current(s))'
<1>1. PICK q \in Parts : q = Current(s)' /\ q[1] = s
  <2>1. run'[s].todo \in Seq(PartNames)
    BY DEF FsTypes, Runs
  <2>2. Head(run'[s].todo) \in PartNames
    BY <2>1, HeadTailRange
  <2> QED
    BY <2>2, PartFacts DEF Current
<1>2. OpInv(s, q)'
  BY <1>1
<1>3. PlaceInv(s, q)'
  BY <1>2 DEF PlaceInv, OpInv, FinalOps, CleanOps
<1> QED
  BY <1>1, <1>3

\* Advance: the operation goes on with the next part.
LEMMA Advances ==
    ASSUME FsInv, FsTypes', NEW s \in Sessions, NEW p \in Parts, p = Current(s),
           run[s].todo # <<>>, Around(p),
           run'[s].op = run[s].op, run'[s].todo = Tail(run[s].todo),
           PartInv(p)', OpInv(s, p)',
           run'[s].at \in {"mkdir", "final", "adopt"} \/ run[s].op = "clean"
    PROVE  FsInv'
<1>1. p[1] = s /\ Range(run[s].todo) = {p[2]} \cup Range(Tail(run[s].todo))
  BY CurrentFacts DEF FsInv
<1>2. ASSUME NEW q \in Parts, q[1] = s
      PROVE  OpInv(s, q)'
  <2>1. CASE q = p
    BY <2>1
  <2>2. CASE q # p
    <3>1. Untouched(q) /\ OpInv(s, q) /\ SameStanding(s)
      BY <1>2, <2>2 DEF Around, FsInv
    <3>2. q[2] # p[2]
      BY <1>1, <1>2, <2>2, OtherPart
    <3>3. q[2] \in Range(run'[s].todo) <=> q[2] \in Range(run[s].todo)
      BY <1>1, <3>2
    <3> QED
      BY <3>1, <3>3, UntouchedOp DEF SameStanding
  <2> QED
    BY <2>1, <2>2
<1>3. SessionInv(s)'
  BY <1>1, StandingKept
<1>4. run'[s].todo # <<>> => PlaceInv(s, Current(s))'
  BY <1>2, NextPlace
<1> QED
  BY <1>1, <1>2, <1>3, <1>4, StepKept

\* Unwind: the operation is given up and the objects there are are destroyed.
LEMMA Unwinds ==
    ASSUME FsInv, FsTypes', NEW p \in Parts, Around(p), PartInv(p)', p[1] \notin guest,
           run'[p[1]].op = "unwind", run'[p[1]].at = "final",
           \A a \in Range(run'[p[1]].todo) : a \in PartNames /\ obj'[<<p[1], a>>].held
    PROVE  FsInv'
<1> DEFINE s == p[1]
<1>1. s \in Sessions
  BY PartParts
<1>2. ASSUME NEW q \in Parts, q[1] = s
      PROVE  OpInv(s, q)'
  <2>1. PartInv(q)'
    <3>1. CASE q = p
      BY <3>1
    <3>2. CASE q # p
      BY <3>2, UntouchedPart DEF Around, FsInv
    <3> QED
      BY <3>1, <3>2
  <2>2. q = <<s, q[2]>>
    BY <1>2, PartParts
  <2>3. q[2] \in Range(run'[s].todo) => obj'[q].held
    BY <2>2
  <2>4. q[2] \in Range(run'[s].todo) => Pristine(q)' \/ Kept(q)'
    BY <2>1, <2>3 DEF PartInv
  <2>5. s \notin guest'
    BY <1>1 DEF Around, SameStanding
  <2> QED
    BY <2>4, <2>5 DEF OpInv
<1>3. SessionInv(s)'
  BY StandingKept
<1>4. PlaceInv(s, Current(s))'
  BY DEF PlaceInv
<1> QED
  BY <1>2, <1>3, <1>4, StepKept

\* A step of session s that is not at one part of it.
LEMMA Turns ==
    ASSUME FsInv, FsTypes', NEW s \in Sessions,
           \A q \in Parts : q[1] # s => Untouched(q),
           \A t \in Sessions \ {s} : run'[t] = run[t] /\ SameStanding(t),
           SessionInv(s)',
           \A q \in Parts : q[1] = s => (Untouched(q) \/ PartInv(q)') /\ OpInv(s, q)',
           run'[s].todo # <<>> => PlaceInv(s, Current(s))'
    PROVE  FsInv'
<1>1. ASSUME NEW q \in Parts
      PROVE  PartInv(q)' /\ OpInv(q[1], q)'
  <2>1. PartInv(q)'
    BY UntouchedPart DEF FsInv
  <2>2. CASE q[1] = s
    BY <2>1, <2>2
  <2>3. CASE q[1] # s
    <3> DEFINE t == q[1]
    <3>1. t \in Sessions /\ t # s
      BY <2>3, PartParts
    <3>2. run'[t] = run[t] /\ SameStanding(t) /\ Untouched(q) /\ OpInv(t, q)
      BY <3>1 DEF FsInv
    <3> HIDE DEF t
    <3>3. OpInv(t, q)'
      BY <3>2, UntouchedOp DEF SameStanding
    <3> QED
      BY <2>1, <3>3 DEF t
  <2> QED
    BY <2>2, <2>3
<1>3. ASSUME NEW t \in Sessions
      PROVE  SessionInv(t)' /\ (run'[t].todo # <<>> => PlaceInv(t, Current(t))')
  <2>1. CASE t = s
    BY <2>1
  <2>2. CASE t # s
    <3>1. run'[t] = run[t] /\ SameStanding(t)
      BY <2>2
    <3>2. SessionInv(t)'
      BY <3>1 DEF FsInv, SessionInv, SameStanding
    <3>3. ASSUME run'[t].todo # <<>>
          PROVE  PlaceInv(t, Current(t))'
      <4>1. PICK q \in Parts : q = Current(t) /\ q[1] = t
        BY <3>1, <3>3, CurrentFacts DEF FsInv
      <4>2. Current(t)' = q
        BY <3>1, <4>1 DEF Current
      <4>3. PlaceInv(t, q)
        BY <3>1, <3>3, <4>1 DEF FsInv
      <4>5. PlaceInv(t, q)'
        BY <2>2, <3>1, <4>1, <4>3, UntouchedPlace
      <4> QED
        BY <4>2, <4>5
    <3> QED
      BY <3>2, <3>3
  <2> QED
    BY <2>1, <2>2
<1> QED
  BY <1>1, <1>3 DEF FsInv

-----------------------------------------------------------------------------
(* create.                                                                   *)

LEMMA AroundFacts ==
    ASSUME NEW p \in Parts,
           \A q \in Parts \ {p} : /\ root'[q] = root[q] /\ data'[q] = data[q]
                                  /\ obj'[q] = obj[q] /\ (q \in told' <=> q \in told),
           durable' = durable \/ durable' = root',
           UNCHANGED <<plan, recorded, guest, receipt>>,
           \A t \in Sessions \ {p[1]} : run'[t] = run[t]
    PROVE  Around(p)
<1>1. \A t \in Sessions : SameStanding(t)
  BY DEF SameStanding
<1>2. ASSUME NEW q \in Parts, q # p
      PROVE  Untouched(q)
  BY <1>2 DEF Untouched, SameEntries
<1> QED
  BY <1>1, <1>2 DEF Around

\* A part that no guest has seen and that has no stage.
LEMMA BlankPart ==
    ASSUME FsInv, FsTypes', NEW p \in Parts, run[p[1]].op = "create",
           plan' = plan, told' = told,
           root'[p].stage = root[p].stage,
           durable'[p].stage \in {root[p].stage, durable[p].stage},
           data'[p] \in {data[p], 0},
           obj'[p].meta \/ root'[p].meta = "final" \/ durable'[p].meta = "final" =>
              data'[p] # NoData /\ IsRetained(p)
    PROVE  PartInv(p)' /\ Unstaged(p)' /\ data'[p] <= 0
<1>1. Unstaged(p) /\ data[p] <= 0 /\ PartInv(p)
  BY DEF FsInv, OpInv
<1>2. Unstaged(p)' /\ data'[p] <= 0 /\ data'[p] \in NoData .. MaxWrites
  BY <1>1 DEF Unstaged, FsTypes
<1>3. p \notin told'
  BY <1>1 DEF PartInv, Unstaged
<1>4. ~Shown(p)'
  BY <1>2 DEF Shown, NoData
<1>5. IsRetained(p)' <=> IsRetained(p)
  BY RetainedKept
<1>6. Kept(p)'
  BY <1>4 DEF Kept
<1> QED
  BY <1>2, <1>3, <1>4, <1>5, <1>6 DEF PartInv, Unstaged

LEMMA CreateStays ==
    ASSUME FsInv, FsTypes', NEW s \in Sessions, NEW p \in Parts, p = Current(s),
           run[s].todo # <<>>, run[s].op = "create", Around(p),
           run'[s].op = run[s].op, run'[s].todo = run[s].todo,
           plan' = plan, told' = told,
           root'[p].stage = root[p].stage,
           durable'[p].stage \in {root[p].stage, durable[p].stage},
           data'[p] \in {data[p], 0}, obj'[p].manifest = obj[p].manifest,
           obj'[p].meta \/ root'[p].meta = "final" \/ durable'[p].meta = "final" =>
              data'[p] # NoData /\ IsRetained(p),
           PlaceInv(s, p)'
    PROVE  FsInv'
<1>1. p[1] = s /\ p[2] \in Range(run[s].todo)
  BY CurrentFacts DEF FsInv
<1>2. PartInv(p)' /\ Unstaged(p)' /\ data'[p] <= 0
  BY <1>1, BlankPart
<1>3. ~obj'[p].manifest /\ s \notin guest'
  <2>1. OpInv(s, p) /\ SessionInv(s) /\ SameStanding(s)
    BY <1>1 DEF FsInv, Around
  <2> QED
    BY <2>1 DEF OpInv, SessionInv, SameStanding
<1>4. OpInv(s, p)'
  BY <1>1, <1>2, <1>3 DEF OpInv, FinalOps
<1> QED
  BY <1>2, <1>4, Stays

LEMMA CreateAdvances ==
    ASSUME FsInv, FsTypes', NEW s \in Sessions, NEW p \in Parts, p = Current(s),
           run[s].todo # <<>>, run[s].op = "create", Around(p),
           run'[s].op = run[s].op, run'[s].todo = Tail(run[s].todo), run'[s].at = "mkdir",
           plan' = plan, told' = told,
           root'[p].stage = root[p].stage,
           durable'[p].stage \in {root[p].stage, durable[p].stage},
           data'[p] \in {data[p], 0}, obj'[p].manifest = obj[p].manifest,
           obj'[p].meta \/ root'[p].meta = "final" \/ durable'[p].meta = "final" =>
              data'[p] # NoData /\ IsRetained(p),
           IsRetained(p) => Intact(p)' /\ obj'[p].meta
    PROVE  FsInv'
<1>1. p[1] = s
  BY CurrentFacts DEF FsInv
<1>2. PartInv(p)' /\ Unstaged(p)' /\ data'[p] <= 0
  BY <1>1, BlankPart
<1>3. ~obj'[p].manifest /\ s \notin guest'
  <2>1. OpInv(s, p) /\ SessionInv(s) /\ SameStanding(s)
    BY <1>1 DEF FsInv, Around
  <2> QED
    BY <2>1 DEF OpInv, SessionInv, SameStanding
<1>4. IsRetained(p)' <=> IsRetained(p)
  BY RetainedKept
<1>5. OpInv(s, p)'
  BY <1>1, <1>2, <1>3, <1>4 DEF OpInv, FinalOps
<1> QED
  BY <1>2, <1>5, Advances

LEMMA RolledBack ==
    ASSUME NEW r \in Entries
    PROVE  LET e == [r EXCEPT !.dir = FALSE, !.image = "none",
                              !.meta = IF @ = "pending" THEN "none" ELSE @]
           IN  e \in Entries /\ e.stage = r.stage /\ (e.meta = "final" => r.meta = "final")
<1> DEFINE m == IF r.meta = "pending" THEN "none" ELSE r.meta
<1>1. m \in {"none", "pending", "final"} /\ (m = "final" => r.meta = "final")
  BY DEF Entries
<1> HIDE DEF m
<1>2. LET e == [r EXCEPT !.dir = FALSE, !.image = "none", !.meta = m]
      IN  e \in Entries /\ e.stage = r.stage /\ e.meta = m
  BY <1>1 DEF Entries
<1> QED
  BY <1>1, <1>2 DEF m

LEMMA NoGuest ==
    ASSUME FsInv, NEW s \in Sessions, run[s].op \notin {"live", "dead"}
    PROVE  s \notin guest
BY DEF FsInv, SessionInv

\* A part is given up: its object is gone and its names are e.
LEMMA GivenUp ==
    ASSUME FsInv, NEW s \in Sessions, NEW p \in Parts, p = Current(s),
           run[s].todo # <<>>, run[s].op = "create",
           NEW e \in Entries, SetEntry(p, e), e.stage = root[p].stage,
           e.meta = "final" => root[p].meta = "final" \/ (data[p] # NoData /\ IsRetained(p)),
           durable' = durable,
           obj' = [obj EXCEPT ![p] = NoObject], Unwind(s, [obj EXCEPT ![p] = NoObject]),
           UNCHANGED <<data, told, Rest>>
    PROVE  FsInv'
<1> DEFINE o == [obj EXCEPT ![p] = NoObject]
<1>0. FsTypes /\ PartInv(p)
  BY DEF FsInv
<1>1. p[1] = s
  BY <1>0, CurrentFacts
<1>3. /\ obj' = o /\ Unwind(s, o) /\ data' = data /\ told' = told
      /\ UNCHANGED <<plan, recorded, guest, receipt>>
  BY DEF Rest
<1>4. o \in [Parts -> Materials] /\ o[p] = NoObject /\ \A q \in Parts \ {p} : o[q] = obj[q]
  BY <1>0 DEF FsTypes, NoObject, Materials
<1> HIDE DEF o
<1>5. root' \in [Parts -> Entries] /\ root'[p] = e /\ \A q \in Parts \ {p} : root'[q] = root[q]
  BY <1>0, SetEntryFacts
<1>6. /\ run' \in [Sessions -> Runs] /\ run'[s].op = "unwind" /\ run'[s].at = "final"
      /\ \A a \in Range(run'[s].todo) : a \in PartNames /\ o[<<s, a>>].held
      /\ \A t \in Sessions \ {s} : run'[t] = run[t]
  BY <1>0, <1>3, UnwindFacts
<1>7. FsTypes'
  BY <1>0, <1>3, <1>4, <1>5, <1>6 DEF FsTypes
<1>8. Around(p)
  BY <1>1, <1>3, <1>4, <1>5, <1>6, AroundFacts
<1>9. PartInv(p)'
  <2>1. ~obj'[p].meta
    BY <1>3, <1>4 DEF NoObject
  <2>2. root'[p].meta = "final" \/ durable'[p].meta = "final" => data'[p] # NoData /\ IsRetained(p)
    BY <1>0, <1>3, <1>5 DEF PartInv
  <2> QED
    BY <1>1, <1>3, <1>5, <1>7, <2>1, <2>2, BlankPart
<1>10. s \notin guest
  BY NoGuest
<1> QED
  BY <1>1, <1>3, <1>6, <1>7, <1>8, <1>9, <1>10, Unwinds

LEMMA RollbackKeeps ==
    ASSUME FsInv, NEW s \in Sessions, NEW p \in Parts, p = Current(s),
           run[s].todo # <<>>, run[s].op = "create", Rollback(s, p)
    PROVE  FsInv'
<1> DEFINE e == [root[p] EXCEPT !.dir = FALSE, !.image = "none",
                                !.meta = IF @ = "pending" THEN "none" ELSE @]
<1>1. e \in Entries /\ e.stage = root[p].stage /\ (e.meta = "final" => root[p].meta = "final")
  BY RolledBack DEF FsInv, FsTypes
<1>2. /\ SetEntry(p, e) /\ obj' = [obj EXCEPT ![p] = NoObject] /\ durable' = durable
      /\ Unwind(s, [obj EXCEPT ![p] = NoObject]) /\ UNCHANGED <<data, told, Rest>>
  BY DEF Rollback, NoSync
<1> HIDE DEF e
<1> QED
  BY <1>1, <1>2, GivenUp

\* What a step of an operation starts from.
LEMMA StepFacts ==
    ASSUME FsInv, NEW s \in Sessions, run[s].todo # <<>>
    PROVE  /\ FsTypes
           /\ Current(s) \in Parts /\ Current(s)[1] = s
           /\ root[Current(s)] \in Entries /\ PartInv(Current(s))
           /\ OpInv(s, Current(s)) /\ PlaceInv(s, Current(s))
           /\ Range(run[s].todo) = {Current(s)[2]} \cup Range(Tail(run[s].todo))
<1>1. FsTypes
  BY DEF FsInv
<1>2. /\ Current(s) \in Parts /\ Current(s)[1] = s
      /\ Range(run[s].todo) = {Current(s)[2]} \cup Range(Tail(run[s].todo))
  BY <1>1, CurrentFacts
<1>3. PartInv(Current(s)) /\ OpInv(s, Current(s))
  <2> DEFINE p == Current(s)
  <2>1. p \in Parts /\ p[1] = s
    BY <1>2
  <2> HIDE DEF p
  <2>2. PartInv(p) /\ OpInv(p[1], p)
    BY <2>1 DEF FsInv
  <2> QED
    BY <2>1, <2>2 DEF p
<1>4. PlaceInv(s, Current(s))
  BY DEF FsInv
<1>5. root[Current(s)] \in Entries
  BY <1>1, <1>2 DEF FsTypes
<1> QED
  BY <1>1, <1>2, <1>3, <1>4, <1>5

\* A step of create that sets one name of the part and goes on with it.
LEMMA NameSet ==
    ASSUME FsInv, NEW s \in Sessions, NEW p \in Parts, p = Current(s),
           run[s].todo # <<>>, run[s].op = "create",
           NEW e \in Entries, SetEntry(p, e), e.stage = root[p].stage,
           e.meta = root[p].meta \/ e.meta = "pending",
           NEW at \in Places, Goto(s, at), durable' = durable \/ durable' = root',
           UNCHANGED <<data, obj, told, Rest>>,
           at \in {"mount", "copy", "sidecar", "publish"} /\ IsRetained(p) =>
              e.image = "formatted" /\ (durable' = root' \/ durable[p].image = "formatted"),
           at \in {"sidecar", "publish"} => data[p] # NoData /\ IsRetained(p)
    PROVE  FsInv'
<1>0. FsTypes /\ p[1] = s /\ PartInv(p)
  BY StepFacts
<1>1. root' \in [Parts -> Entries] /\ root'[p] = e /\ \A q \in Parts \ {p} : root'[q] = root[q]
  BY <1>0, SetEntryFacts
<1>2. /\ run' \in [Sessions -> Runs]
      /\ run'[s].op = run[s].op /\ run'[s].at = at /\ run'[s].todo = run[s].todo
      /\ \A t \in Sessions \ {s} : run'[t] = run[t]
  BY <1>0, GotoFacts
<1>3. data' = data /\ obj' = obj /\ told' = told /\ UNCHANGED <<plan, recorded, guest, receipt>>
  BY DEF Rest
<1>4. FsTypes'
  BY <1>0, <1>1, <1>2, <1>3 DEF FsTypes
<1>5. Around(p)
  BY <1>0, <1>1, <1>2, <1>3, AroundFacts
<1>6. durable'[p] = durable[p] \/ durable'[p] = e
  BY <1>1
<1>7. obj'[p].meta \/ root'[p].meta = "final" \/ durable'[p].meta = "final" =>
         data'[p] # NoData /\ IsRetained(p)
  BY <1>0, <1>1, <1>3, <1>6 DEF PartInv
<1>8. IsRetained(p)' <=> IsRetained(p)
  BY <1>3, RetainedKept
<1>9. PlaceInv(s, p)'
  <2>1. at \in {"mount", "copy", "sidecar", "publish"} /\ IsRetained(p) =>
          root'[p].image = "formatted" /\ durable'[p].image = "formatted"
    BY <1>1
  <2> QED
    BY <1>2, <1>3, <1>8, <2>1 DEF PlaceInv, FinalOps, CleanOps
<1>10. durable'[p].stage \in {root[p].stage, durable[p].stage}
  BY <1>6
<1> QED
  BY <1>1, <1>2, <1>3, <1>4, <1>5, <1>7, <1>9, <1>10, CreateStays

\* The plan is refused, or the last check fails: nothing but the operation changes.
LEMMA UnwindKeeps ==
    ASSUME FsInv, NEW s \in Sessions, s \notin guest, Unwind(s, obj),
           UNCHANGED <<root, durable, data, obj, told, Rest>>
    PROVE  FsInv'
<1>1. FsTypes
  BY DEF FsInv
<1>2. /\ run' \in [Sessions -> Runs] /\ run'[s].op = "unwind" /\ run'[s].at = "final"
      /\ \A a \in Range(run'[s].todo) : a \in PartNames /\ obj[<<s, a>>].held
      /\ \A t \in Sessions \ {s} : run'[t] = run[t]
  BY <1>1, UnwindFacts
<1>3. UNCHANGED <<root, durable, data, obj, told>> /\ UNCHANGED <<plan, recorded, guest, receipt>>
  BY DEF Rest
<1>4. FsTypes'
  BY <1>1, <1>2, <1>3 DEF FsTypes
<1> DEFINE p == <<s, Scratch>>
<1>5. p \in Parts /\ p[1] = s
  BY PartFacts DEF PartNames
<1> HIDE DEF p
<1>6. Around(p)
  BY <1>2, <1>3, <1>5, AroundFacts
<1>7. Untouched(p)
  BY <1>3 DEF Untouched, SameEntries
<1>8. PartInv(p)'
  BY <1>5, <1>7, UntouchedPart DEF FsInv
<1> QED
  BY <1>2, <1>3, <1>4, <1>5, <1>6, <1>8, Unwinds

LEMMA MakeDirectoryKeeps ==
    ASSUME FsInv, NEW s \in Sessions, MakeDirectory(s)
    PROVE  FsInv'
<1>0. run[s].op = "create" /\ run[s].todo # <<>>
  BY DEF MakeDirectory, InStep
<1>1. PICK p \in Parts : p = Current(s) /\ root[p] \in Entries
  BY <1>0, StepFacts
<1>2. CASE Unwind(s, obj) /\ UNCHANGED <<root, durable, mnt, data, obj, told, callFaults, Rest>>
  BY <1>0, <1>2, NoGuest, UnwindKeeps
<1>3. CASE /\ SetEntry(p, [root[p] EXCEPT !.dir = TRUE])
           /\ Goto(s, FirstAfterDir(p)) /\ NoSync /\ UNCHANGED <<mnt, data, obj, told, Rest>>
           /\ FirstAfterDir(p) # "mount" \/ ~IsRetained(p)
  <2> DEFINE e == [root[p] EXCEPT !.dir = TRUE]
             at == FirstAfterDir(p)
  <2>1. e \in Entries /\ e.stage = root[p].stage /\ e.meta = root[p].meta
    BY <1>1 DEF Entries
  <2>2. at \in {"image", "mount"} /\ (at = "mount" => ~IsRetained(p))
    BY DEF FirstAfterDir
  <2>3. at \in Places
    BY <2>2 DEF Places
  <2>4. /\ SetEntry(p, e) /\ Goto(s, at) /\ durable' = durable
        /\ UNCHANGED <<data, obj, told, Rest>>
    BY <1>3 DEF NoSync
  <2> HIDE DEF e, at
  <2> QED
    BY <1>0, <1>1, <2>1, <2>2, <2>3, <2>4, NameSet
<1>4. CASE Rollback(s, p)
  BY <1>0, <1>1, <1>4, RollbackKeeps
<1>5. FirstAfterDir(p) # "mount" \/ ~IsRetained(p)
  BY DEF FirstAfterDir
<1> QED
  BY <1>1, <1>2, <1>3, <1>4, <1>5 DEF MakeDirectory

\* A step that sets the state of the image.
LEMMA ImageSet ==
    ASSUME FsInv, NEW s \in Sessions, NEW p \in Parts, p = Current(s),
           run[s].todo # <<>>, run[s].op = "create",
           NEW i \in {"none", "empty", "sized", "formatted"},
           SetEntry(p, [root[p] EXCEPT !.image = i]),
           NEW at \in {"size", "format", "mount"}, Goto(s, at),
           durable' = durable \/ durable' = root',
           at = "mount" => i = "formatted" /\ durable' = root',
           UNCHANGED <<data, obj, told, Rest>>
    PROVE  FsInv'
<1> DEFINE e == [root[p] EXCEPT !.image = i]
<1>0. root[p] \in Entries
  BY StepFacts
<1>1. e \in Entries /\ e.stage = root[p].stage /\ e.meta = root[p].meta /\ e.image = i
  BY <1>0 DEF Entries
<1>2. at \in Places
  BY DEF Places
<1>3. SetEntry(p, e)
  OBVIOUS
<1> HIDE DEF e
<1> QED
  BY <1>1, <1>2, <1>3, NameSet

LEMMA MakeImageKeeps ==
    ASSUME FsInv, NEW s \in Sessions, MakeImage(s)
    PROVE  FsInv'
<1>0. run[s].op = "create" /\ run[s].todo # <<>>
  BY DEF MakeImage, InStep
<1>1. PICK p \in Parts : p = Current(s)
  BY <1>0, StepFacts
<1>2. CASE /\ SetEntry(p, [root[p] EXCEPT !.image = "empty"]) /\ Goto(s, "size")
           /\ NoSync /\ UNCHANGED <<mnt, data, obj, told, Rest>>
  BY <1>0, <1>1, <1>2, ImageSet DEF NoSync
<1>3. CASE Rollback(s, p)
  BY <1>0, <1>1, <1>3, RollbackKeeps
<1> QED
  BY <1>1, <1>2, <1>3 DEF MakeImage

LEMMA SizeImageKeeps ==
    ASSUME FsInv, NEW s \in Sessions, SizeImage(s)
    PROVE  FsInv'
<1>0. run[s].op = "create" /\ run[s].todo # <<>>
  BY DEF SizeImage, InStep
<1>1. PICK p \in Parts : p = Current(s)
  BY <1>0, StepFacts
<1>2. CASE /\ SetEntry(p, [root[p] EXCEPT !.image = "sized"]) /\ Goto(s, "format")
           /\ NoSync /\ UNCHANGED <<mnt, data, obj, told, Rest>>
  BY <1>0, <1>1, <1>2, ImageSet DEF NoSync
<1>3. CASE Rollback(s, p)
  BY <1>0, <1>1, <1>3, RollbackKeeps
<1> QED
  BY <1>1, <1>2, <1>3 DEF SizeImage

LEMMA FormatImageKeeps ==
    ASSUME FsInv, NEW s \in Sessions, FormatImage(s)
    PROVE  FsInv'
<1>0. run[s].op = "create" /\ run[s].todo # <<>>
  BY DEF FormatImage, InStep
<1>1. PICK p \in Parts : p = Current(s)
  BY <1>0, StepFacts
<1>2. CASE /\ SetEntry(p, [root[p] EXCEPT !.image = "formatted"]) /\ Goto(s, "mount")
           /\ SyncRoot /\ UNCHANGED <<mnt, data, obj, told, Rest>>
  BY <1>0, <1>1, <1>2, ImageSet DEF SyncRoot
<1>3. CASE Rollback(s, p)
  BY <1>0, <1>1, <1>3, RollbackKeeps
<1> QED
  BY <1>1, <1>2, <1>3 DEF FormatImage

LEMMA ConstructKeeps ==
    ASSUME FsInv, NEW s \in Sessions, NEW p \in Parts, p = Current(s),
           run[s].todo # <<>>, run[s].op = "create", run[s].at = "mount", Construct(s, p)
    PROVE  FsInv'
<1>0. FsTypes /\ p[1] = s /\ PartInv(p) /\ PlaceInv(s, p)
  BY StepFacts
<1>1. /\ obj' \in [Parts -> Materials] /\ obj'[p].meta = obj[p].meta
      /\ obj'[p].manifest = obj[p].manifest /\ \A q \in Parts \ {p} : obj'[q] = obj[q]
  BY <1>0 DEF Construct, FsTypes, Materials
<1>2. /\ run' \in [Sessions -> Runs]
      /\ run'[s].op = run[s].op /\ run'[s].at = "copy" /\ run'[s].todo = run[s].todo
      /\ \A t \in Sessions \ {s} : run'[t] = run[t]
  BY <1>0, GotoFacts DEF Construct, Places
<1>3. /\ root' = root /\ durable' = durable /\ data' = data /\ told' = told
      /\ UNCHANGED <<plan, recorded, guest, receipt>>
  BY DEF Construct, Rest
<1>4. FsTypes'
  BY <1>0, <1>1, <1>2, <1>3 DEF FsTypes
<1>5. Around(p)
  BY <1>0, <1>1, <1>2, <1>3, AroundFacts
<1>6. IsRetained(p)' <=> IsRetained(p)
  BY <1>3, RetainedKept
<1>7. PlaceInv(s, p)'
  BY <1>0, <1>2, <1>3, <1>6 DEF PlaceInv, FinalOps, CleanOps
<1>8. obj'[p].meta \/ root'[p].meta = "final" \/ durable'[p].meta = "final" =>
         data'[p] # NoData /\ IsRetained(p)
  BY <1>0, <1>1, <1>3 DEF PartInv
<1> QED
  BY <1>1, <1>2, <1>3, <1>4, <1>5, <1>7, <1>8, CreateStays

LEMMA MountKeeps ==
    ASSUME FsInv, NEW s \in Sessions, MountImage(s) \/ MountTmpfs(s)
    PROVE  FsInv'
<1>0. run[s].op = "create" /\ run[s].todo # <<>> /\ run[s].at = "mount"
  BY DEF MountImage, MountTmpfs, InStep
<1>1. PICK p \in Parts : p = Current(s)
  BY <1>0, StepFacts
<1>2. Construct(s, p) \/ Rollback(s, p)
  BY <1>1 DEF MountImage, MountTmpfs
<1> QED
  BY <1>0, <1>1, <1>2, ConstructKeeps, RollbackKeeps

LEMMA CopySourceKeeps ==
    ASSUME FsInv, NEW s \in Sessions, CopySource(s)
    PROVE  FsInv'
<1>0. run[s].op = "create" /\ run[s].todo # <<>> /\ run[s].at = "copy"
  BY DEF CopySource, InStep
<1>1. PICK p \in Parts : p = Current(s)
  BY <1>0, StepFacts
<1>2. ASSUME CopyTree(p),
             IF IsRetained(p) THEN Goto(s, "sidecar") ELSE Advance(s, "mkdir", FALSE),
             UNCHANGED <<root, durable, mnt, obj, told, Rest>>
      PROVE  FsInv'
  <2>0. FsTypes /\ p[1] = s /\ PartInv(p) /\ PlaceInv(s, p)
    BY <1>0, <1>1, StepFacts
  <2>1. /\ data' \in [Parts -> NoData .. MaxWrites] /\ data'[p] = 0
        /\ \A q \in Parts \ {p} : data'[q] = data[q]
    BY <1>2, <2>0, FilesystemAssumption DEF CopyTree, FsTypes, NoData
  <2>2. /\ root' = root /\ durable' = durable /\ obj' = obj /\ told' = told
        /\ UNCHANGED <<plan, recorded, guest, receipt>>
    BY <1>2 DEF Rest
  <2>3. obj'[p].meta \/ root'[p].meta = "final" \/ durable'[p].meta = "final" =>
           data'[p] # NoData /\ IsRetained(p)
    BY <2>0, <2>1, <2>2 DEF PartInv, NoData
  <2>4. CASE IsRetained(p)
    <3>1. /\ run' \in [Sessions -> Runs]
          /\ run'[s].op = run[s].op /\ run'[s].at = "sidecar" /\ run'[s].todo = run[s].todo
          /\ \A t \in Sessions \ {s} : run'[t] = run[t]
      BY <1>2, <2>0, <2>4, GotoFacts DEF Places
    <3>2. FsTypes'
      BY <2>0, <2>1, <2>2, <3>1 DEF FsTypes
    <3>3. Around(p)
      BY <2>0, <2>1, <2>2, <3>1, AroundFacts
    <3>4. IsRetained(p)' <=> IsRetained(p)
      BY <2>2, RetainedKept
    <3>5. PlaceInv(s, p)'
      BY <1>0, <2>0, <2>1, <2>2, <2>4, <3>1, <3>4 DEF PlaceInv, FinalOps, CleanOps, NoData
    <3> QED
      BY <1>0, <1>1, <2>1, <2>2, <2>3, <3>1, <3>2, <3>3, <3>5, CreateStays
  <2>5. CASE ~IsRetained(p)
    <3>1. /\ run' \in [Sessions -> Runs]
          /\ run'[s].op = run[s].op /\ run'[s].at = "mkdir" /\ run'[s].todo = Tail(run[s].todo)
          /\ \A t \in Sessions \ {s} : run'[t] = run[t]
      BY <1>0, <1>2, <2>0, <2>5, AdvanceFacts DEF Places
    <3>2. FsTypes'
      BY <2>0, <2>1, <2>2, <3>1 DEF FsTypes
    <3>3. Around(p)
      BY <2>0, <2>1, <2>2, <3>1, AroundFacts
    <3> QED
      BY <1>0, <1>1, <2>1, <2>2, <2>3, <2>5, <3>1, <3>2, <3>3, CreateAdvances
  <2> QED
    BY <2>4, <2>5
<1>3. CASE Rollback(s, p)
  BY <1>0, <1>1, <1>3, RollbackKeeps
<1> QED
  BY <1>1, <1>2, <1>3 DEF CopySource

LEMMA WriteMetadataKeeps ==
    ASSUME FsInv, NEW s \in Sessions, WriteMetadata(s)
    PROVE  FsInv'
<1>0. run[s].op = "create" /\ run[s].todo # <<>> /\ run[s].at = "sidecar"
  BY DEF WriteMetadata, InStep
<1>1. PICK p \in Parts : p = Current(s) /\ root[p] \in Entries /\ PlaceInv(s, p)
  BY <1>0, StepFacts
<1>2. CASE /\ SetEntry(p, [root[p] EXCEPT !.meta = "pending"]) /\ Goto(s, "publish")
           /\ NoSync /\ UNCHANGED <<mnt, data, obj, told, Rest>>
  <2> DEFINE e == [root[p] EXCEPT !.meta = "pending"]
  <2>1. e \in Entries /\ e.stage = root[p].stage /\ e.meta = "pending" /\ e.image = root[p].image
    BY <1>1 DEF Entries
  <2>2. SetEntry(p, e) /\ Goto(s, "publish") /\ durable' = durable
        /\ UNCHANGED <<data, obj, told, Rest>>
    BY <1>2 DEF NoSync
  <2> HIDE DEF e
  <2>3. "publish" \in Places
    BY DEF Places
  <2>4. /\ data[p] # NoData /\ IsRetained(p)
        /\ root[p].image = "formatted" /\ durable[p].image = "formatted"
    BY <1>0, <1>1 DEF PlaceInv
  <2> QED
    BY <1>0, <1>1, <2>1, <2>2, <2>3, <2>4, NameSet
<1>3. CASE Rollback(s, p)
  BY <1>0, <1>1, <1>3, RollbackKeeps
<1> QED
  BY <1>1, <1>2, <1>3 DEF WriteMetadata

LEMMA PublishMetadataKeeps ==
    ASSUME FsInv, NEW s \in Sessions, PublishMetadata(s)
    PROVE  FsInv'
<1>0. run[s].op = "create" /\ run[s].todo # <<>> /\ run[s].at = "publish"
  BY DEF PublishMetadata, InStep
<1>1. PICK p \in Parts : /\ p = Current(s) /\ root[p] \in Entries /\ PlaceInv(s, p)
                         /\ FsTypes /\ p[1] = s
  BY <1>0, StepFacts
<1>2. /\ data[p] # NoData /\ IsRetained(p)
      /\ root[p].image = "formatted" /\ durable[p].image = "formatted"
  BY <1>0, <1>1 DEF PlaceInv
<1>3. ASSUME SetEntry(p, [root[p] EXCEPT !.meta = "final"]), SyncRoot,
             obj' = [obj EXCEPT ![p].meta = TRUE], Advance(s, "mkdir", FALSE),
             UNCHANGED <<mnt, data, told, Rest>>
      PROVE  FsInv'
  <2> DEFINE e == [root[p] EXCEPT !.meta = "final"]
  <2>1. e \in Entries /\ e.stage = root[p].stage /\ e.meta = "final" /\ e.image = root[p].image
    BY <1>1 DEF Entries
  <2>2. SetEntry(p, e) /\ durable' = root' /\ data' = data /\ told' = told
        /\ UNCHANGED <<plan, recorded, guest, receipt>>
    BY <1>3 DEF SyncRoot, Rest
  <2> HIDE DEF e
  <2>3. root' \in [Parts -> Entries] /\ root'[p] = e /\ \A q \in Parts \ {p} : root'[q] = root[q]
    BY <1>1, <2>1, <2>2, SetEntryFacts
  <2>4. /\ obj' \in [Parts -> Materials] /\ obj'[p].meta
        /\ obj'[p].manifest = obj[p].manifest /\ \A q \in Parts \ {p} : obj'[q] = obj[q]
    BY <1>1, <1>3 DEF FsTypes, Materials
  <2>5. /\ run' \in [Sessions -> Runs]
        /\ run'[s].op = run[s].op /\ run'[s].at = "mkdir" /\ run'[s].todo = Tail(run[s].todo)
        /\ \A t \in Sessions \ {s} : run'[t] = run[t]
    BY <1>0, <1>1, <1>3, AdvanceFacts DEF Places
  <2>6. FsTypes'
    BY <1>1, <2>2, <2>3, <2>4, <2>5 DEF FsTypes
  <2>7. Around(p)
    BY <1>1, <2>2, <2>3, <2>4, <2>5, AroundFacts
  <2>8. Intact(p)' /\ durable'[p].stage = root[p].stage
    BY <1>2, <2>1, <2>2, <2>3 DEF Intact, Recoverable
  <2> QED
    BY <1>0, <1>1, <1>2, <2>1, <2>2, <2>3, <2>4, <2>5, <2>6, <2>7, <2>8, CreateAdvances
<1>4. CASE Rollback(s, p)
  BY <1>0, <1>1, <1>4, RollbackKeeps
<1>5. ASSUME SetEntry(p, [root[p] EXCEPT !.dir = FALSE, !.image = "none", !.meta = "final"]),
             obj' = [obj EXCEPT ![p] = NoObject], Unwind(s, [obj EXCEPT ![p] = NoObject]),
             NoSync, UNCHANGED <<data, told, Rest>>
      PROVE  FsInv'
  <2> DEFINE e == [root[p] EXCEPT !.dir = FALSE, !.image = "none", !.meta = "final"]
  <2>1. e \in Entries /\ e.stage = root[p].stage
    BY <1>1 DEF Entries
  <2>2. SetEntry(p, e) /\ durable' = durable
    BY <1>5 DEF NoSync
  <2> HIDE DEF e
  <2> QED
    BY <1>0, <1>1, <1>2, <1>5, <2>1, <2>2, GivenUp
<1> QED
  BY <1>1, <1>3, <1>4, <1>5 DEF PublishMetadata

\* An operation begins or ends and no part changes.
LEMMA RunSet ==
    ASSUME FsInv, NEW s \in Sessions, NEW r \in Runs,
           run' = [run EXCEPT ![s] = r],
           UNCHANGED <<root, durable, data, obj, told, plan>>,
           \A t \in Sessions \ {s} : SameStanding(t),
           SessionInv(s)',
           \A q \in Parts : q[1] = s => OpInv(s, q)',
           r.todo = <<>> \/ r.at \in {"final", "adopt"} \/ r.op \in {"clean", "mismatch"}
    PROVE  FsInv'
<1>0. FsTypes
  BY DEF FsInv
<1>1. /\ run' \in [Sessions -> Runs] /\ run'[s] = r
      /\ \A t \in Sessions \ {s} : run'[t] = run[t]
  BY <1>0, PutFacts
<1>2. FsTypes'
  BY <1>0, <1>1 DEF FsTypes
<1>3. \A q \in Parts : Untouched(q)
  BY DEF Untouched, SameEntries
<1>4. run'[s].todo # <<>> => PlaceInv(s, Current(s))'
  BY <1>1, <1>2, NextPlace
<1> QED
  BY <1>1, <1>2, <1>3, <1>4, Turns

LEMMA CreatedKeeps ==
    ASSUME FsInv, NEW s \in Sessions, Created(s)
    PROVE  FsInv'
<1>0. /\ run[s].op = "create" /\ run[s].todo = <<>> /\ SessionInv(s) /\ FsTypes
      /\ UNCHANGED <<root, durable, data, obj, told, Rest>>
  BY DEF Created, FsInv
<1>1. CASE Unwind(s, obj)
  BY <1>0, <1>1, NoGuest, UnwindKeeps
<1>2. ASSUME run' = [run EXCEPT ![s] = [Idle EXCEPT !.op = "live"]]
      PROVE  FsInv'
  <2>1. /\ [Idle EXCEPT !.op = "live"] \in Runs /\ [Idle EXCEPT !.op = "live"].op = "live"
        /\ [Idle EXCEPT !.op = "live"].todo = <<>>
    BY IdleFacts DEF OpNames
  <2>2. run'[s].op = "live"
    BY <1>0, <1>2, <2>1, PutFacts
  <2>3. UNCHANGED <<root, durable, data, obj, told, plan, recorded, guest, receipt>>
    BY <1>0 DEF Rest
  <2>4. SessionInv(s)' /\ s \notin guest' /\ \A t \in Sessions : SameStanding(t)
    BY <1>0, <2>2, <2>3 DEF SessionInv, SameStanding
  <2>5. ASSUME NEW q \in Parts, q[1] = s
        PROVE  OpInv(s, q)'
    <3>1. OpInv(s, q)
      BY <2>5 DEF FsInv
    <3>2. Range(run[s].todo) = {}
      BY <1>0, EmptySequence
    <3>3. /\ Unstaged(q) /\ ~obj[q].manifest
          /\ IsRetained(q) => Intact(q) /\ obj[q].meta
      BY <1>0, <3>1, <3>2 DEF OpInv
    <3>4. Untouched(q)
      BY <2>3 DEF Untouched, SameEntries
    <3>5. IsRetained(q)' => Intact(q)' /\ Unstaged(q)' /\ Pristine(q)'
      BY <3>3, <3>4, UntouchedFacts DEF Pristine
    <3> QED
      BY <2>2, <2>4, <3>5 DEF OpInv, FinalOps
  <2> QED
    BY <1>2, <2>1, <2>3, <2>4, <2>5, RunSet
<1> QED
  BY <1>1, <1>2 DEF Created

-----------------------------------------------------------------------------
(* finalize_retained.                                                        *)

\* The names and the object of part p may change, and the root may be synced.
OnlyPart(p) ==
    /\ root' \in [Parts -> Entries] /\ obj' \in [Parts -> Materials] /\ told' \subseteq Parts
    /\ \A q \in Parts \ {p} : /\ root'[q] = root[q] /\ obj'[q] = obj[q]
                              /\ q \in told' <=> q \in told
    /\ data' = data /\ (durable' = durable \/ durable' = root')
    /\ UNCHANGED <<plan, recorded, guest, receipt>>

LEMMA OnlyPartFacts ==
    ASSUME FsTypes, NEW p \in Parts, OnlyPart(p), run' \in [Sessions -> Runs],
           \A t \in Sessions \ {p[1]} : run'[t] = run[t]
    PROVE  FsTypes' /\ Around(p)
<1>1. FsTypes'
  BY DEF OnlyPart, FsTypes
<1>2. /\ \A q \in Parts \ {p} : /\ root'[q] = root[q] /\ data'[q] = data[q]
                                /\ obj'[q] = obj[q] /\ (q \in told' <=> q \in told)
      /\ durable' = durable \/ durable' = root'
      /\ UNCHANGED <<plan, recorded, guest, receipt>>
  BY DEF OnlyPart
<1>3. Around(p)
  BY <1>2, AroundFacts
<1> QED
  BY <1>1, <1>3

LEMMA EntrySet ==
    ASSUME FsTypes, NEW p \in Parts, NEW e \in Entries, SetEntry(p, e),
           durable' = durable \/ durable' = root', UNCHANGED <<data, obj, told, Rest>>
    PROVE  OnlyPart(p) /\ root'[p] = e /\ data' = data /\ obj' = obj /\ told' = told
<1>1. root' \in [Parts -> Entries] /\ root'[p] = e /\ \A q \in Parts \ {p} : root'[q] = root[q]
  BY SetEntryFacts
<1>2. data' = data /\ obj' = obj /\ told' = told /\ UNCHANGED <<plan, recorded, guest, receipt>>
  BY DEF Rest
<1> QED
  BY <1>1, <1>2 DEF OnlyPart, FsTypes

LEMMA NothingSet ==
    ASSUME FsTypes, NEW p \in Parts, UNCHANGED <<root, durable, data, obj, told, Rest>>
    PROVE  OnlyPart(p) /\ Untouched(p)
BY DEF OnlyPart, FsTypes, Untouched, SameEntries, Rest

\* A part whose finalization failed is left as it is, and the operation goes
\* on with the next part or is given up.
LEMMA FinalFails ==
    ASSUME FsInv, NEW s \in Sessions, NEW p \in Parts, p = Current(s),
           run[s].todo # <<>>, run[s].op \in FinalOps,
           FinalFailed(s), OnlyPart(p), obj' = obj, PartInv(p)', Pristine(p)' \/ Kept(p)'
    PROVE  FsInv'
<1>0. FsTypes /\ p[1] = s
  BY StepFacts
<1>1. s \notin guest
  BY NoGuest DEF FinalOps
<1>2. CASE Unwind(s, obj)
  <2>1. /\ run' \in [Sessions -> Runs] /\ run'[s].op = "unwind" /\ run'[s].at = "final"
        /\ \A a \in Range(run'[s].todo) : a \in PartNames /\ obj[<<s, a>>].held
        /\ \A t \in Sessions \ {s} : run'[t] = run[t]
    BY <1>0, <1>2, UnwindFacts
  <2>2. FsTypes' /\ Around(p)
    BY <1>0, <2>1, OnlyPartFacts
  <2> QED
    BY <1>0, <1>1, <2>1, <2>2, Unwinds
<1>3. CASE Advance(s, "final", TRUE) /\ run[s].op # "close"
  <2>1. /\ run' \in [Sessions -> Runs]
        /\ run'[s].op = run[s].op /\ run'[s].at = "final" /\ run'[s].todo = Tail(run[s].todo)
        /\ \A t \in Sessions \ {s} : run'[t] = run[t]
    BY <1>0, <1>3, AdvanceFacts DEF Places
  <2>2. FsTypes' /\ Around(p)
    BY <1>0, <2>1, OnlyPartFacts
  <2>3. s \notin guest'
    BY <1>1 DEF OnlyPart
  <2>4. OpInv(s, p)'
    BY <1>3, <2>1, <2>3 DEF OpInv, FinalOps
  <2> QED
    BY <1>0, <2>1, <2>2, <2>4, Advances
<1> QED
  BY <1>2, <1>3 DEF FinalFailed

\* A part is finalized, or had nothing to finalize.
LEMMA FinalIsDone ==
    ASSUME FsInv, NEW s \in Sessions, NEW p \in Parts, p = Current(s),
           run[s].todo # <<>>, run[s].op \in FinalOps,
           FinalDone(s), OnlyPart(p), PartInv(p)', Kept(p)'
    PROVE  FsInv'
<1>0. FsTypes /\ p[1] = s
  BY StepFacts
<1>1. s \notin guest'
  BY NoGuest DEF FinalOps, OnlyPart
<1>2. CASE Advance(s, "final", FALSE) /\ run[s].op = "close"
  <2>1. /\ run' \in [Sessions -> Runs]
        /\ run'[s].op = run[s].op /\ run'[s].at = "final" /\ run'[s].todo = Tail(run[s].todo)
        /\ \A t \in Sessions \ {s} : run'[t] = run[t]
    BY <1>0, <1>2, AdvanceFacts DEF Places
  <2>2. FsTypes' /\ Around(p)
    BY <1>0, <2>1, OnlyPartFacts
  <2>3. OpInv(s, p)'
    BY <1>1, <1>2, <2>1 DEF OpInv
  <2> QED
    BY <1>0, <2>1, <2>2, <2>3, Advances
<1>3. CASE Goto(s, "unmount") /\ run[s].op # "close"
  <2>1. /\ run' \in [Sessions -> Runs]
        /\ run'[s].op = run[s].op /\ run'[s].at = "unmount" /\ run'[s].todo = run[s].todo
        /\ \A t \in Sessions \ {s} : run'[t] = run[t]
    BY <1>0, <1>3, GotoFacts DEF Places
  <2>2. FsTypes' /\ Around(p)
    BY <1>0, <2>1, OnlyPartFacts
  <2>3. OpInv(s, p)'
    BY <1>1, <1>3, <2>1 DEF OpInv, FinalOps
  <2>4. PlaceInv(s, p)'
    BY <2>1 DEF PlaceInv, FinalOps
  <2> QED
    BY <1>0, <2>1, <2>2, <2>3, <2>4, Stays
<1> QED
  BY <1>2, <1>3 DEF FinalDone

\* The finalization of the part goes on.
LEMMA FinalGoes ==
    ASSUME FsInv, NEW s \in Sessions, NEW p \in Parts, p = Current(s),
           run[s].todo # <<>>, run[s].op \in FinalOps,
           NEW at \in {"stage", "forget"}, Goto(s, at), OnlyPart(p), PartInv(p)',
           Pristine(p)' \/ Kept(p)', data[p] # NoData,
           at = "stage" => /\ Pristine(p)' /\ root'[p].stage = NoData
                           /\ Shown(p)' => Recoverable(root'[p]),
           at = "forget" => Staged(p)'
    PROVE  FsInv'
<1>0. FsTypes /\ p[1] = s /\ p[2] \in Range(run[s].todo)
  BY StepFacts
<1>1. s \notin guest'
  BY NoGuest DEF FinalOps, OnlyPart
<1>2. /\ run' \in [Sessions -> Runs]
      /\ run'[s].op = run[s].op /\ run'[s].at = at /\ run'[s].todo = run[s].todo
      /\ \A t \in Sessions \ {s} : run'[t] = run[t]
  BY <1>0, GotoFacts DEF Places
<1>3. FsTypes' /\ Around(p)
  BY <1>0, <1>2, OnlyPartFacts
<1>4. OpInv(s, p)'
  BY <1>0, <1>1, <1>2 DEF OpInv, FinalOps
<1>5. data'[p] # NoData
  BY DEF OnlyPart
<1>6. PlaceInv(s, p)'
  BY <1>2, <1>5 DEF PlaceInv, FinalOps, CleanOps, NoData
<1> QED
  BY <1>0, <1>2, <1>3, <1>4, <1>6, Stays

LEMMA FinalBeginKeeps ==
    ASSUME FsInv, NEW s \in Sessions, FinalBegin(s)
    PROVE  FsInv'
<1>0. run[s].op \in FinalOps /\ run[s].todo # <<>>
  BY DEF FinalBegin, InStep
<1>1. PICK p \in Parts : /\ p = Current(s) /\ root[p] \in Entries /\ PartInv(p)
                         /\ OpInv(s, p) /\ p[2] \in Range(run[s].todo)
                         /\ FsTypes /\ p[1] = s
  BY <1>0, StepFacts
<1>2. Pristine(p) \/ Kept(p)
  BY <1>0, <1>1 DEF OpInv
<1>3. UNCHANGED <<mnt, data, obj, told, Rest>>
  BY DEF FinalBegin
<1>4. ASSUME UNCHANGED <<root, durable>>
      PROVE  /\ OnlyPart(p) /\ Untouched(p) /\ PartInv(p)' /\ obj' = obj
             /\ Pristine(p)' \/ Kept(p)'
             /\ Kept(p) => Kept(p)'
             /\ Staged(p) => Staged(p)'
  <2>1. OnlyPart(p) /\ Untouched(p)
    BY <1>1, <1>3, <1>4, NothingSet
  <2>2. PartInv(p)'
    BY <1>1, <2>1, UntouchedPart
  <2>3. (Kept(p) => Kept(p)') /\ (Staged(p) => Staged(p)') /\ (Pristine(p) => Pristine(p)')
    BY <2>1, UntouchedFacts
  <2> QED
    BY <1>2, <1>3, <2>1, <2>2, <2>3
<1>5. CASE /\ ~obj[p].meta \/ obj[p].manifest
           /\ FinalDone(s) /\ UNCHANGED <<root, durable, callFaults>>
  <2>1. Kept(p)
    BY <1>2, <1>5 DEF Pristine
  <2> QED
    BY <1>0, <1>1, <1>4, <1>5, <2>1, FinalIsDone
<1>6. CASE FinalFailed(s) /\ UNCHANGED <<root, durable>>
  BY <1>0, <1>1, <1>4, <1>6, FinalFails
<1>7. CASE /\ root[p].stage # NoData /\ StageMatches(p) /\ Goto(s, "forget")
           /\ UNCHANGED <<root, durable, callFaults>>
  <2>1. data[p] # NoData /\ Staged(p)
    BY <1>1, <1>7 DEF PartInv, StageMatches, Staged
  <2> QED
    BY <1>0, <1>1, <1>4, <1>7, <2>1, FinalGoes
<1>8. CASE /\ obj[p].meta /\ ~obj[p].manifest /\ root[p].stage = NoData
           /\ SetEntry(p, [root[p] EXCEPT !.pending = TRUE])
           /\ Goto(s, "stage") /\ NoSync
  <2> DEFINE e == [root[p] EXCEPT !.pending = TRUE]
  <2>1. e \in Entries /\ SameEntries(e, root[p])
    BY <1>1 DEF Entries, SameEntries
  <2>2. SetEntry(p, e) /\ durable' = durable
    BY <1>8 DEF NoSync
  <2> HIDE DEF e
  <2>3. OnlyPart(p) /\ root'[p] = e /\ data' = data /\ obj' = obj /\ told' = told
    BY <1>1, <1>3, <2>1, <2>2, EntrySet
  <2>4. Untouched(p)
    <3>1. plan' = plan
      BY <2>3 DEF OnlyPart
    <3>2. SameEntries(durable'[p], durable[p])
      BY <2>2 DEF SameEntries
    <3> QED
      BY <2>1, <2>3, <3>1, <3>2 DEF Untouched
  <2>5. PartInv(p)'
    BY <1>1, <2>4, UntouchedPart
  <2>6. /\ Pristine(p)' <=> Pristine(p)
        /\ Shown(p)' <=> Shown(p)
        /\ Recoverable(root[p]) => Recoverable(root[p])'
        /\ root'[p].stage = root[p].stage
    BY <2>4, UntouchedFacts
  <2>7. Pristine(p)
    BY <1>8 DEF Pristine
  <2>8. data[p] # NoData /\ (Shown(p) => Recoverable(root[p]))
    BY <1>1, <1>8 DEF PartInv
  <2>9. Recoverable(root[p])' => Recoverable(root'[p])
    OBVIOUS
  <2> QED
    BY <1>0, <1>1, <1>8, <2>3, <2>5, <2>6, <2>7, <2>8, <2>9, FinalGoes
<1> QED
  BY <1>1, <1>5, <1>6, <1>7, <1>8 DEF FinalBegin

LEMMA StageEntry ==
    ASSUME NEW r \in Entries, NEW v \in NoData .. MaxWrites + 1
    PROVE  LET e == [r EXCEPT !.pending = FALSE, !.stage = v]
           IN  e \in Entries /\ e.stage = v /\ e.meta = r.meta /\ e.image = r.image
BY DEF Entries

LEMMA PublishStageKeeps ==
    ASSUME FsInv, NEW s \in Sessions, PublishStage(s)
    PROVE  FsInv'
<1>0. run[s].op \in FinalOps /\ run[s].todo # <<>> /\ run[s].at = "stage"
  BY DEF PublishStage, InStep
<1>1. PICK p \in Parts : /\ p = Current(s) /\ root[p] \in Entries /\ PartInv(p)
                         /\ PlaceInv(s, p) /\ FsTypes /\ p[1] = s
  BY <1>0, StepFacts
<1>2. /\ data[p] # NoData /\ Pristine(p) /\ root[p].stage = NoData
      /\ Shown(p) => Recoverable(root[p])
  BY <1>0, <1>1 DEF PlaceInv
<1>3. UNCHANGED <<data, obj, told, Rest>>
  BY DEF PublishStage
<1>4. /\ data[p] \in NoData .. MaxWrites /\ MaxWrites \in Nat /\ EmptiedStage = MaxWrites + 1
      /\ plan' = plan /\ p \notin told
  BY <1>1, <1>2, <1>3, FilesystemAssumption DEF FsTypes, EmptiedStage, Rest, PartInv
<1>5. /\ IsRetained(p)' <=> IsRetained(p)
      /\ Shown(p)' <=> Shown(p)
      /\ Pristine(p)'
  BY <1>2, <1>3, <1>4, RetainedKept, ShownKept DEF Pristine
<1>6. IsRetained(p)
  BY <1>1, <1>2 DEF PartInv, Pristine
<1>7. CASE /\ SetEntry(p, [root[p] EXCEPT !.pending = FALSE, !.stage = data[p]])
           /\ SyncRoot /\ Goto(s, "forget")
  <2> DEFINE e == [root[p] EXCEPT !.pending = FALSE, !.stage = data[p]]
  <2>1. e \in Entries /\ e.stage = data[p] /\ e.meta = root[p].meta /\ e.image = root[p].image
    <3>1. data[p] \in NoData .. MaxWrites + 1
      BY <1>4 DEF NoData
    <3> QED
      BY <1>1, <3>1, StageEntry
  <2>2. SetEntry(p, e) /\ durable' = root'
    BY <1>7 DEF SyncRoot
  <2> HIDE DEF e
  <2>3. OnlyPart(p) /\ root'[p] = e /\ data' = data /\ obj' = obj /\ told' = told
    BY <1>1, <1>3, <2>1, <2>2, EntrySet
  <2>4. Staged(p)' /\ Kept(p)'
    BY <2>1, <2>2, <2>3 DEF Staged, Kept
  <2>5. PartInv(p)'
    BY <1>2, <1>4, <1>5, <1>6, <2>1, <2>2, <2>3, <2>4 DEF PartInv
  <2> QED
    BY <1>0, <1>1, <1>2, <1>7, <2>3, <2>4, <2>5, FinalGoes
<1>8. CASE /\ SetEntry(p, [root[p] EXCEPT !.pending = FALSE])
           /\ NoSync /\ FinalFailed(s)
  <2> DEFINE e == [root[p] EXCEPT !.pending = FALSE]
  <2>1. e \in Entries /\ SameEntries(e, root[p])
    BY <1>1 DEF Entries, SameEntries
  <2>2. SetEntry(p, e) /\ durable' = durable
    BY <1>8 DEF NoSync
  <2> HIDE DEF e
  <2>3. OnlyPart(p) /\ root'[p] = e /\ data' = data /\ obj' = obj /\ told' = told
    BY <1>1, <1>3, <2>1, <2>2, EntrySet
  <2>4. SameEntries(durable'[p], durable[p])
    BY <2>2 DEF SameEntries
  <2>5. Untouched(p)
    BY <1>4, <2>1, <2>3, <2>4 DEF Untouched
  <2>6. PartInv(p)'
    BY <1>1, <2>5, UntouchedPart
  <2> QED
    BY <1>0, <1>1, <1>5, <1>8, <2>3, <2>6, FinalFails
<1>9. CASE /\ SetEntry(p, [root[p] EXCEPT !.pending = FALSE, !.stage = EmptiedStage])
           /\ NoSync /\ FinalFailed(s)
  <2> DEFINE e == [root[p] EXCEPT !.pending = FALSE, !.stage = EmptiedStage]
  <2>1. e \in Entries /\ e.stage = EmptiedStage /\ e.meta = root[p].meta /\ e.image = root[p].image
    <3>1. EmptiedStage \in NoData .. MaxWrites + 1
      BY <1>4 DEF NoData
    <3> QED
      BY <1>1, <3>1, StageEntry
  <2>2. SetEntry(p, e) /\ durable' = durable
    BY <1>9 DEF NoSync
  <2> HIDE DEF e
  <2>3. OnlyPart(p) /\ root'[p] = e /\ data' = data /\ obj' = obj /\ told' = told
    BY <1>1, <1>3, <2>1, <2>2, EntrySet
  <2>4. e.stage # data[p]
    BY <1>4, <2>1 DEF NoData
  <2>5. PartInv(p)'
    <3>1. Shown(p)' => \A f \in {root'[p], durable'[p]} : f.stage = data'[p] \/ Recoverable(f)
      BY <1>1, <1>2, <1>5, <2>1, <2>2, <2>3 DEF PartInv, Recoverable
    <3>2. root'[p].stage # data'[p]
      BY <2>3, <2>4
    <3> QED
      BY <1>2, <1>4, <1>5, <1>6, <2>3, <3>1, <3>2 DEF PartInv
  <2> QED
    BY <1>0, <1>1, <1>5, <1>9, <2>3, <2>5, FinalFails
<1> QED
  BY <1>1, <1>7, <1>8, <1>9 DEF PublishStage

LEMMA ForgetMetadataKeeps ==
    ASSUME FsInv, NEW s \in Sessions, ForgetMetadata(s)
    PROVE  FsInv'
<1>0. run[s].op \in FinalOps /\ run[s].todo # <<>> /\ run[s].at = "forget"
  BY DEF ForgetMetadata, InStep
<1>1. PICK p \in Parts : /\ p = Current(s) /\ root[p] \in Entries /\ PartInv(p)
                         /\ PlaceInv(s, p) /\ FsTypes /\ p[1] = s
  BY <1>0, StepFacts
<1>2. data[p] # NoData /\ root[p].stage = data[p] /\ durable[p].stage = data[p]
  BY <1>0, <1>1 DEF PlaceInv, Staged
<1>3. data' = data /\ plan' = plan /\ UNCHANGED <<plan, recorded, guest, receipt>>
  BY DEF ForgetMetadata, Rest
<1>4. IsRetained(p) /\ IsRetained(p)'
  <2>1. IsRetained(p)
    BY <1>1, <1>2 DEF PartInv, Unstaged
  <2> QED
    BY <1>3, <2>1, RetainedKept
<1>5. ASSUME root'[p].stage = root[p].stage, durable'[p].stage = data[p],
             p \in told' => root'[p].meta # "final" /\ durable'[p].meta # "final"
      PROVE  /\ PartInv(p)' /\ Kept(p)'
  <2>1. Staged(p)' /\ Kept(p)'
    BY <1>2, <1>3, <1>5 DEF Staged, Kept
  <2> QED
    BY <1>2, <1>3, <1>4, <1>5, <2>1 DEF PartInv, Staged
<1> DEFINE e == [root[p] EXCEPT !.meta = "none"]
<1>6. e \in Entries /\ e.stage = root[p].stage /\ e.meta # "final"
  BY <1>1 DEF Entries
<1>7. ASSUME SetEntry(p, [root[p] EXCEPT !.meta = "none"]), SyncRoot,
             obj' = [obj EXCEPT ![p].meta = FALSE, ![p].manifest = TRUE],
             told' = told \cup {p}, FinalDone(s)
      PROVE  FsInv'
  <2>1. root' \in [Parts -> Entries] /\ root'[p] = e /\ \A q \in Parts \ {p} : root'[q] = root[q]
    BY <1>1, <1>6, <1>7, SetEntryFacts
  <2>2. obj' \in [Parts -> Materials] /\ \A q \in Parts \ {p} : obj'[q] = obj[q]
    BY <1>1, <1>7 DEF FsTypes, Materials
  <2> HIDE DEF e
  <2>3. OnlyPart(p)
    BY <1>1, <1>3, <1>7, <2>1, <2>2 DEF OnlyPart, SyncRoot, FsTypes
  <2>4. PartInv(p)' /\ Kept(p)'
    BY <1>2, <1>5, <1>6, <1>7, <2>1 DEF SyncRoot
  <2> QED
    BY <1>0, <1>1, <1>7, <2>3, <2>4, FinalIsDone
<1>8. ASSUME UNCHANGED root \/ SetEntry(p, [root[p] EXCEPT !.meta = "none"]),
             NoSync, FinalFailed(s), UNCHANGED <<obj, told>>
      PROVE  FsInv'
  <2>1. /\ root' \in [Parts -> Entries] /\ root'[p].stage = root[p].stage
        /\ root'[p].meta = "final" => root[p].meta = "final"
        /\ \A q \in Parts \ {p} : root'[q] = root[q]
    <3>1. CASE UNCHANGED root
      BY <1>1, <3>1 DEF FsTypes
    <3>2. CASE SetEntry(p, e)
      <4> HIDE DEF e
      <4> QED
        BY <1>1, <1>6, <3>2, SetEntryFacts
    <3> QED
      BY <1>8, <3>1, <3>2
  <2>2. OnlyPart(p)
    BY <1>1, <1>3, <1>8, <2>1 DEF OnlyPart, NoSync, FsTypes
  <2>3. durable' = durable /\ told' = told
    BY <1>8 DEF NoSync
  <2>4. p \in told' => root'[p].meta # "final" /\ durable'[p].meta # "final"
    BY <1>1, <2>1, <2>3 DEF PartInv
  <2>5. PartInv(p)' /\ Kept(p)'
    BY <1>2, <1>5, <2>1, <2>3, <2>4
  <2> QED
    BY <1>0, <1>1, <1>8, <2>2, <2>5, FinalFails
<1> QED
  BY <1>1, <1>7, <1>8 DEF ForgetMetadata

-----------------------------------------------------------------------------
(* cleanup and cleanup_noexcept.                                             *)

\* The part goes through its steps.
LEMMA CleanGoes ==
    ASSUME FsInv, NEW s \in Sessions, NEW p \in Parts, p = Current(s),
           run[s].todo # <<>>, run[s].op \in CleanOps,
           NEW at \in {"rmdir", "rmimage"}, Goto(s, at), OnlyPart(p), PartInv(p)', Kept(p)'
    PROVE  FsInv'
<1>0. FsTypes /\ p[1] = s
  BY StepFacts
<1>1. s \notin guest'
  BY NoGuest DEF CleanOps, OnlyPart
<1>2. /\ run' \in [Sessions -> Runs]
      /\ run'[s].op = run[s].op /\ run'[s].at = at /\ run'[s].todo = run[s].todo
      /\ \A t \in Sessions \ {s} : run'[t] = run[t]
  BY <1>0, GotoFacts DEF Places
<1>3. FsTypes' /\ Around(p)
  BY <1>0, <1>2, OnlyPartFacts
<1>4. OpInv(s, p)'
  BY <1>1, <1>2 DEF OpInv, CleanOps
<1>5. PlaceInv(s, p)'
  BY <1>2 DEF PlaceInv, CleanOps
<1> QED
  BY <1>0, <1>2, <1>3, <1>4, <1>5, Stays

\* The part is done, with or without an error.
LEMMA CleanAdvances ==
    ASSUME FsInv, NEW s \in Sessions, NEW p \in Parts, p = Current(s),
           run[s].todo # <<>>, run[s].op \in CleanOps, NEW failed \in BOOLEAN,
           Advance(s, FirstOf(run[s].op), failed), OnlyPart(p), PartInv(p)', Kept(p)'
    PROVE  FsInv'
<1>0. FsTypes /\ p[1] = s
  BY StepFacts
<1>1. s \notin guest'
  BY NoGuest DEF CleanOps, OnlyPart
<1> DEFINE first == FirstOf(run[s].op)
<1>2. first \in Places /\ (first = "final" \/ run[s].op = "clean")
  BY DEF FirstOf, Places
<1>3. Advance(s, first, failed)
  OBVIOUS
<1> HIDE DEF first
<1>4. /\ run' \in [Sessions -> Runs]
      /\ run'[s].op = run[s].op /\ run'[s].at = first /\ run'[s].todo = Tail(run[s].todo)
      /\ \A t \in Sessions \ {s} : run'[t] = run[t]
  BY <1>0, <1>2, <1>3, AdvanceFacts
<1>5. FsTypes' /\ Around(p)
  BY <1>0, <1>4, OnlyPartFacts
<1>6. OpInv(s, p)'
  BY <1>1, <1>4 DEF OpInv, CleanOps
<1> QED
  BY <1>0, <1>2, <1>4, <1>5, <1>6, Advances

LEMMA CleanFails ==
    ASSUME FsInv, NEW s \in Sessions, NEW p \in Parts, p = Current(s),
           run[s].todo # <<>>, run[s].op \in CleanOps,
           NEW next \in {"rmdir", "rmimage"}, CleanFailed(s, next),
           OnlyPart(p), PartInv(p)', Kept(p)'
    PROVE  FsInv'
<1>1. Goto(s, next) \/ Advance(s, FirstOf(run[s].op), TRUE)
  BY DEF CleanFailed
<1> QED
  BY <1>1, CleanGoes, CleanAdvances

LEMMA CleanFacts ==
    ASSUME FsInv, NEW s \in Sessions, run[s].op \in CleanOps, run[s].todo # <<>>,
           run[s].at \in {"unmount", "rmdir", "rmimage"}
    PROVE  \E p \in Parts : /\ p = Current(s) /\ root[p] \in Entries /\ PartInv(p) /\ Kept(p)
                            /\ FsTypes /\ p[1] = s
<1>1. PlaceInv(s, Current(s))
  BY StepFacts
<1>2. Kept(Current(s))
  BY <1>1 DEF PlaceInv
<1> QED
  BY <1>2, StepFacts

LEMMA UnmountKeeps ==
    ASSUME FsInv, NEW s \in Sessions, Unmount(s)
    PROVE  FsInv'
<1>0. run[s].op \in CleanOps /\ run[s].todo # <<>> /\ run[s].at = "unmount"
  BY DEF Unmount, InStep
<1>1. PICK p \in Parts : /\ p = Current(s) /\ root[p] \in Entries /\ PartInv(p) /\ Kept(p)
                         /\ FsTypes /\ p[1] = s
  BY <1>0, CleanFacts
<1>2. UNCHANGED <<root, durable, data, obj, told, Rest>>
  BY DEF Unmount
<1>3. OnlyPart(p) /\ Untouched(p)
  BY <1>1, <1>2, NothingSet
<1>4. PartInv(p)' /\ Kept(p)'
  BY <1>1, <1>3, UntouchedPart, UntouchedFacts
<1>5. Goto(s, "rmdir") \/ CleanFailed(s, "rmdir")
  BY DEF Unmount
<1> QED
  BY <1>0, <1>1, <1>3, <1>4, <1>5, CleanGoes, CleanFails

LEMMA RemoveDirectoryKeeps ==
    ASSUME FsInv, NEW s \in Sessions, RemoveDirectory(s)
    PROVE  FsInv'
<1>0. run[s].op \in CleanOps /\ run[s].todo # <<>> /\ run[s].at = "rmdir"
  BY DEF RemoveDirectory, InStep
<1>1. PICK p \in Parts : /\ p = Current(s) /\ root[p] \in Entries /\ PartInv(p) /\ Kept(p)
                         /\ FsTypes /\ p[1] = s
  BY <1>0, CleanFacts
<1>2. durable' = durable /\ UNCHANGED <<data, obj, told, Rest>>
  BY DEF RemoveDirectory, NoSync
<1>3. Goto(s, "rmimage") \/ CleanFailed(s, "rmimage")
  BY DEF RemoveDirectory
<1>4. root' = root \/ SetEntry(p, [root[p] EXCEPT !.dir = FALSE])
  BY <1>1 DEF RemoveDirectory
<1>5. OnlyPart(p) /\ Untouched(p)
  <2>1. CASE root' = root
    <3>1. UNCHANGED <<root, durable, data, obj, told, Rest>>
      BY <1>2, <2>1
    <3> QED
      BY <1>1, <3>1, NothingSet
  <2>2. CASE SetEntry(p, [root[p] EXCEPT !.dir = FALSE])
    <3> DEFINE e == [root[p] EXCEPT !.dir = FALSE]
    <3>1. e \in Entries /\ SameEntries(e, root[p])
      BY <1>1 DEF Entries, SameEntries
    <3>2. SetEntry(p, e)
      BY <2>2
    <3> HIDE DEF e
    <3>3. OnlyPart(p) /\ root'[p] = e /\ data' = data /\ obj' = obj /\ told' = told
      BY <1>1, <1>2, <3>1, <3>2, EntrySet
    <3>4. plan' = plan /\ SameEntries(durable'[p], durable[p])
      BY <1>2, <3>3 DEF OnlyPart, SameEntries
    <3> QED
      BY <3>1, <3>3, <3>4 DEF Untouched
  <2> QED
    BY <1>4, <2>1, <2>2
<1>6. PartInv(p)' /\ Kept(p)'
  BY <1>1, <1>5, UntouchedPart, UntouchedFacts
<1> QED
  BY <1>0, <1>1, <1>3, <1>5, <1>6, CleanGoes, CleanFails

LEMMA GoneEntry ==
    ASSUME NEW r \in Entries, NEW b \in BOOLEAN
    PROVE  LET e == [r EXCEPT !.image = "none",
                              !.meta = IF b /\ @ = "pending" THEN "none" ELSE @]
           IN  e \in Entries /\ e.stage = r.stage /\ (e.meta = "final" => r.meta = "final")
<1> DEFINE m == IF b /\ r.meta = "pending" THEN "none" ELSE r.meta
<1>1. m \in {"none", "pending", "final"} /\ (m = "final" => r.meta = "final")
  BY DEF Entries
<1> HIDE DEF m
<1>2. LET e == [r EXCEPT !.image = "none", !.meta = m]
      IN  e \in Entries /\ e.stage = r.stage /\ e.meta = m
  BY <1>1 DEF Entries
<1> QED
  BY <1>1, <1>2 DEF m

LEMMA RemoveImageKeeps ==
    ASSUME FsInv, NEW s \in Sessions, RemoveImage(s)
    PROVE  FsInv'
<1>0. run[s].op \in CleanOps /\ run[s].todo # <<>> /\ run[s].at = "rmimage"
  BY DEF RemoveImage, InStep
<1>1. PICK p \in Parts : /\ p = Current(s) /\ root[p] \in Entries /\ PartInv(p) /\ Kept(p)
                         /\ FsTypes /\ p[1] = s
  BY <1>0, CleanFacts
<1> DEFINE e == [root[p] EXCEPT !.image = "none",
                    !.meta = IF run[s].op = "orphan" /\ @ = "pending" THEN "none" ELSE @]
<1>2. e \in Entries /\ e.stage = root[p].stage /\ (e.meta = "final" => root[p].meta = "final")
  <2>1. (run[s].op = "orphan") \in BOOLEAN
    OBVIOUS
  <2> QED
    BY <1>1, <2>1, GoneEntry
<1>3. data' = data /\ told' = told /\ UNCHANGED <<plan, recorded, guest, receipt>>
  BY DEF RemoveImage, Rest
<1>4. /\ root' = root \/ SetEntry(p, e)
      /\ durable' = durable \/ durable' = root'
      /\ obj' = [obj EXCEPT ![p] = NoObject] \/ obj' = obj
      /\ \E failed \in BOOLEAN : Advance(s, FirstOf(run[s].op), failed)
  <2>1. CASE /\ SetEntry(p, e) /\ (durable' = root' \/ durable' = durable)
             /\ obj' = [obj EXCEPT ![p] = NoObject] /\ Advance(s, FirstOf(run[s].op), FALSE)
    BY <2>1
  <2>2. CASE /\ obj' = [obj EXCEPT ![p] = IF run[s].op = "unwind" THEN NoObject ELSE @]
             /\ Advance(s, FirstOf(run[s].op), run[s].op # "unwind")
             /\ durable' = durable /\ root' = root
    <3>1. obj' = [obj EXCEPT ![p] = NoObject] \/ obj' = obj
      BY <1>1, <2>2 DEF FsTypes
    <3>2. (run[s].op # "unwind") \in BOOLEAN
      OBVIOUS
    <3> QED
      BY <2>2, <3>1, <3>2
  <2> QED
    BY <1>1, <2>1, <2>2 DEF RemoveImage, SyncRoot, NoSync
<1> HIDE DEF e
<1>5. /\ root' \in [Parts -> Entries] /\ root'[p].stage = root[p].stage
      /\ root'[p].meta = "final" => root[p].meta = "final"
      /\ \A q \in Parts \ {p} : root'[q] = root[q]
  <2>1. CASE root' = root
    BY <1>1, <2>1 DEF FsTypes
  <2>2. CASE SetEntry(p, e)
    BY <1>1, <1>2, <2>2, SetEntryFacts
  <2> QED
    BY <1>4, <2>1, <2>2
<1>6. /\ obj' \in [Parts -> Materials] /\ \A q \in Parts \ {p} : obj'[q] = obj[q]
      /\ obj'[p] = NoObject \/ obj'[p] = obj[p]
  <2>1. NoObject \in Materials
    BY DEF NoObject, Materials
  <2> QED
    BY <1>1, <1>4, <2>1 DEF FsTypes
<1>7. OnlyPart(p)
  BY <1>1, <1>3, <1>4, <1>5, <1>6 DEF OnlyPart, FsTypes
<1>8. /\ IsRetained(p)' <=> IsRetained(p)
      /\ Shown(p)' <=> Shown(p)
  BY <1>3, RetainedKept, ShownKept
<1>9. durable'[p] = durable[p] \/ durable'[p] = root'[p]
  BY <1>4
<1>10. Kept(p)' /\ (Unstaged(p) => Unstaged(p)')
  BY <1>1, <1>3, <1>5, <1>8, <1>9 DEF Kept, Staged, Unstaged
<1>11. PartInv(p)'
  <2>1. Shown(p)' => Staged(p)'
    BY <1>10 DEF Kept
  <2>2. root'[p].stage = data'[p] => durable'[p].stage = data'[p]
    BY <1>1, <1>3, <1>5, <1>9 DEF PartInv
  <2>3. obj'[p].meta => obj[p].meta
    BY <1>6 DEF NoObject
  <2>4. obj'[p].meta \/ root'[p].meta = "final" \/ durable'[p].meta = "final" =>
           data'[p] # NoData /\ IsRetained(p)'
    BY <1>1, <1>3, <1>5, <1>8, <1>9, <2>3 DEF PartInv
  <2>5. p \in told' => /\ data'[p] # NoData /\ root'[p].stage = data'[p]
                       /\ root'[p].meta # "final" /\ durable'[p].meta # "final"
    BY <1>1, <1>3, <1>5, <1>9 DEF PartInv
  <2>6. ~IsRetained(p)' => Unstaged(p)' /\ p \notin told'
    BY <1>1, <1>3, <1>8, <1>10 DEF PartInv
  <2> QED
    BY <1>10, <2>1, <2>2, <2>4, <2>5, <2>6 DEF PartInv, Staged
<1> QED
  BY <1>0, <1>1, <1>4, <1>7, <1>10, <1>11, CleanAdvances

-----------------------------------------------------------------------------
(* The operations of a session, from its creation to its receipt.            *)

\* An operation whose parts mean nothing.
LEMMA PlainOp ==
    ASSUME NEW s, NEW q, s \notin guest',
           run'[s].op \in {"dropped", "dead", "adopt", "mismatch"}
    PROVE  OpInv(s, q)'
BY DEF OpInv, FinalOps

LEMMA StandsFor ==
    ASSUME NEW s, SessionInv(s), SameStanding(s), s \notin guest,
           run'[s].op \notin {"idle", "create", "live"}
    PROVE  SessionInv(s)' /\ s \notin guest'
BY DEF SessionInv, SameStanding

LEMMA Standing ==
    ASSUME UNCHANGED <<recorded, guest, receipt>>
    PROVE  \A t \in Sessions : SameStanding(t)
BY DEF SameStanding

LEMMA ClosingKeeps ==
    ASSUME FsInv, NEW s \in Sessions, Close(s)
    PROVE  FsInv'
<1> DEFINE c == Copies(plan[s])
           r == [op |-> "close", at |-> "final", todo |-> c, failed |-> FALSE]
<1>0. FsTypes /\ run[s].op = "live" /\ SessionInv(s)
  BY DEF FsInv, Close
<1>1. /\ run' = [run EXCEPT ![s] = r] /\ guest' = guest \ {s}
      /\ UNCHANGED <<root, durable, data, obj, told, plan>> /\ UNCHANGED <<recorded, receipt>>
  BY DEF Close
<1>2. c \in Seq(PartNames)
  BY <1>0, CopiesOf
<1>3. \A q \in Parts : q[1] = s /\ IsRetained(q) => q[2] \in Range(c)
  BY DEF IsRetained
<1> HIDE DEF c
<1>4. r \in Runs /\ r.op = "close" /\ r.at = "final" /\ r.todo = c
  BY <1>2 DEF Runs, OpNames, Places
<1> HIDE DEF r
<1>5. run'[s] = r
  BY <1>0, <1>1, <1>4, PutFacts
<1>6. SessionInv(s)' /\ s \notin guest' /\ \A t \in Sessions \ {s} : SameStanding(t)
  BY <1>0, <1>1, <1>4, <1>5 DEF SessionInv, SameStanding
<1>7. ASSUME NEW q \in Parts, q[1] = s
      PROVE  OpInv(s, q)'
  <2>1. OpInv(s, q)
    BY <1>7 DEF FsInv
  <2>2. Untouched(q)
    BY <1>1 DEF Untouched, SameEntries
  <2>3. /\ IsRetained(q)' <=> IsRetained(q)
        /\ Pristine(q)' <=> Pristine(q)
    BY <2>2, UntouchedFacts
  <2>4. CASE IsRetained(q)
    <3>1. Pristine(q)' /\ q[2] \in Range(run'[s].todo)
      BY <1>0, <1>3, <1>4, <1>5, <1>7, <2>1, <2>3, <2>4 DEF OpInv
    <3> QED
      BY <1>4, <1>5, <1>6, <3>1 DEF OpInv
  <2>5. CASE ~IsRetained(q)
    <3>1. Kept(q)'
      BY <2>3, <2>5 DEF Kept, Shown
    <3> QED
      BY <1>4, <1>5, <1>6, <3>1 DEF OpInv
  <2> QED
    BY <2>4, <2>5
<1> QED
  BY <1>1, <1>4, <1>6, <1>7, RunSet

LEMMA FinalizedKeeps ==
    ASSUME FsInv, NEW s \in Sessions, Finalized(s)
    PROVE  FsInv'
<1> DEFINE c == Append(Copies(plan[s]), Scratch)
           r == [op |-> "clean", at |-> "unmount", todo |-> c, failed |-> FALSE]
<1>0. FsTypes /\ run[s].op = "close" /\ run[s].todo = <<>> /\ SessionInv(s) /\ s \notin guest
  BY NoGuest DEF FsInv, Finalized
<1>1. /\ run' = [run EXCEPT ![s] = r]
      /\ UNCHANGED <<root, durable, data, obj, told, plan>> /\ UNCHANGED <<recorded, guest, receipt>>
  BY DEF Finalized, Rest
<1>2. c \in Seq(PartNames)
  BY <1>0, CopiesOf
<1> HIDE DEF c
<1>4. r \in Runs /\ r.op = "clean"
  BY <1>2 DEF Runs, OpNames, Places
<1> HIDE DEF r
<1>5. run'[s] = r
  BY <1>0, <1>1, <1>4, PutFacts
<1>6. \A t \in Sessions : SameStanding(t)
  BY <1>1, Standing
<1>7. SessionInv(s)' /\ s \notin guest'
  BY <1>0, <1>4, <1>5, <1>6, StandsFor
<1>8. ASSUME NEW q \in Parts, q[1] = s
      PROVE  OpInv(s, q)'
  <2>1. OpInv(s, q) /\ Range(run[s].todo) = {}
    BY <1>0, <1>8, EmptySequence DEF FsInv
  <2>2. Untouched(q)
    BY <1>1 DEF Untouched, SameEntries
  <2>3. Kept(q)'
    BY <1>0, <2>1, <2>2, UntouchedFacts DEF OpInv
  <2> QED
    BY <1>4, <1>5, <1>7, <2>3 DEF OpInv
<1> QED
  BY <1>1, <1>4, <1>6, <1>7, <1>8, RunSet

LEMMA CleanedKeeps ==
    ASSUME FsInv, NEW s \in Sessions, Cleaned(s)
    PROVE  FsInv'
<1>0. FsTypes /\ run[s].op = "clean" /\ SessionInv(s) /\ s \notin guest
  BY NoGuest DEF FsInv, Cleaned
<1>1. UNCHANGED <<root, durable, data, obj, told, Rest>>
  BY DEF Cleaned
<1>2. CASE Unwind(s, obj)
  BY <1>0, <1>1, <1>2, UnwindKeeps
<1>3. CASE run' = [run EXCEPT ![s] = [Idle EXCEPT !.op = "closed"]]
  <2> DEFINE r == [Idle EXCEPT !.op = "closed"]
  <2>1. r \in Runs /\ r.op = "closed" /\ r.todo = <<>>
    BY IdleFacts DEF OpNames
  <2>2. run' = [run EXCEPT ![s] = r]
    BY <1>3
  <2> HIDE DEF r
  <2>3. run'[s] = r
    BY <1>0, <2>1, <2>2, PutFacts
  <2>4. UNCHANGED <<root, durable, data, obj, told, plan>> /\ UNCHANGED <<recorded, guest, receipt>>
    BY <1>1 DEF Rest
  <2>5. \A t \in Sessions : SameStanding(t)
    BY <2>4, Standing
  <2>6. SessionInv(s)' /\ s \notin guest'
    BY <1>0, <2>1, <2>3, <2>5, StandsFor
  <2>7. ASSUME NEW q \in Parts, q[1] = s
        PROVE  OpInv(s, q)'
    <3>1. OpInv(s, q)
      BY <2>7 DEF FsInv
    <3>2. Untouched(q)
      BY <2>4 DEF Untouched, SameEntries
    <3>3. Kept(q)'
      BY <1>0, <3>1, <3>2, UntouchedFacts DEF OpInv
    <3> QED
      BY <2>1, <2>3, <2>6, <3>3 DEF OpInv
  <2> QED
    BY <2>1, <2>2, <2>4, <2>5, <2>6, <2>7, RunSet
<1> QED
  BY <1>2, <1>3 DEF Cleaned

\* An operation gives way to one whose parts mean nothing.
LEMMA LetGo ==
    ASSUME FsInv, NEW s \in Sessions, NEW r \in Runs,
           r.op \in {"dropped", "dead", "adopt", "mismatch"},
           r.todo = <<>> \/ r.at = "adopt" \/ r.op = "mismatch",
           run' = [run EXCEPT ![s] = r],
           UNCHANGED <<root, durable, data, obj, told, plan, receipt>>,
           \A t \in Sessions \ {s} : SameStanding(t), s \notin guest'
    PROVE  FsInv'
<1>1. run'[s] = r
  BY PutFacts DEF FsInv
<1>2. SessionInv(s)'
  BY <1>1 DEF SessionInv
<1>3. \A q \in Parts : OpInv(s, q)'
  BY <1>1, PlainOp
<1> QED
  BY <1>2, <1>3, RunSet

LEMMA UnwoundKeeps ==
    ASSUME FsInv, NEW s \in Sessions, Unwound(s)
    PROVE  FsInv'
<1>0. FsTypes /\ run[s].op = "unwind" /\ s \notin guest
  BY NoGuest DEF FsInv, Unwound
<1> DEFINE r == [Idle EXCEPT !.op = "dropped"]
<1>1. r \in Runs /\ r.op = "dropped" /\ r.todo = <<>>
  BY IdleFacts DEF OpNames
<1>2. /\ run' = [run EXCEPT ![s] = r] /\ UNCHANGED <<recorded, guest, receipt>>
      /\ UNCHANGED <<root, durable, data, obj, told, plan, receipt>>
  BY DEF Unwound, Rest
<1> HIDE DEF r
<1>3. \A t \in Sessions : SameStanding(t)
  BY <1>2, Standing
<1> QED
  BY <1>0, <1>1, <1>2, <1>3, LetGo

LEMMA CleanupRecoveredKeeps ==
    ASSUME FsInv, NEW s \in Sessions, CleanupRecovered(s)
    PROVE  FsInv'
<1> DEFINE c == Append(Copies(plan[s]), Scratch)
           r == [op |-> "adopt", at |-> "adopt", failed |-> FALSE, todo |-> c]
<1>0. FsTypes
  BY DEF FsInv
<1>1. /\ run' = [run EXCEPT ![s] = r] /\ guest' = guest \ {s}
      /\ UNCHANGED <<root, durable, data, obj, told, plan, receipt>> /\ UNCHANGED <<recorded, receipt>>
  BY DEF CleanupRecovered
<1>2. c \in Seq(PartNames)
  BY <1>0, CopiesOf
<1> HIDE DEF c
<1>3. r \in Runs /\ r.op = "adopt" /\ r.at = "adopt"
  BY <1>2 DEF Runs, OpNames, Places
<1> HIDE DEF r
<1>4. s \notin guest' /\ \A t \in Sessions \ {s} : SameStanding(t)
  BY <1>1 DEF SameStanding
<1> QED
  BY <1>1, <1>3, <1>4, LetGo

LEMMA MismatchKeeps ==
    ASSUME FsInv, NEW s \in Sessions, Mismatch(s)
    PROVE  FsInv'
<1>0. FsTypes /\ run[s] \in Runs
  BY DEF FsInv, FsTypes
<1> DEFINE r == [run[s] EXCEPT !.op = "mismatch"]
<1>1. r \in Runs /\ r.op = "mismatch"
  BY <1>0 DEF Runs, OpNames
<1>2. /\ run' = [run EXCEPT ![s] = r] /\ UNCHANGED <<recorded, guest, receipt>>
      /\ UNCHANGED <<root, durable, data, obj, told, plan, receipt>> /\ s \notin guest
  BY DEF Mismatch, Rest
<1> HIDE DEF r
<1>3. \A t \in Sessions : SameStanding(t)
  BY <1>2, Standing
<1> QED
  BY <1>1, <1>2, <1>3, LetGo

\* No part and no operation changes; a session may come to stand elsewhere.
LEMMA Restands ==
    ASSUME FsInv, NEW s \in Sessions,
           UNCHANGED <<root, durable, data, obj, told, plan, run>>,
           \A t \in Sessions \ {s} : SameStanding(t), SessionInv(s)',
           \A q \in Parts : q[1] = s => OpInv(s, q)'
    PROVE  FsInv'
<1>1. FsTypes /\ FsTypes'
  BY DEF FsInv, FsTypes
<1>2. \A q \in Parts : Untouched(q)
  BY DEF Untouched, SameEntries
<1>3. ASSUME run'[s].todo # <<>>
      PROVE  PlaceInv(s, Current(s))'
  <2>1. PICK q \in Parts : q = Current(s) /\ PlaceInv(s, q)
    BY <1>3, StepFacts
  <2>2. Current(s)' = q
    BY <2>1 DEF Current
  <2>3. PlaceInv(s, q)'
    BY <1>2, <2>1, UntouchedPlace
  <2> QED
    BY <2>2, <2>3
<1> QED
  BY <1>1, <1>2, <1>3, Turns

LEMMA RecordKeeps ==
    ASSUME FsInv, NEW s \in Sessions, Record(s)
    PROVE  FsInv'
<1>0. run[s].op = "live" /\ SessionInv(s)
  BY DEF Record, FsInv
<1>1. /\ UNCHANGED <<root, durable, data, obj, told, plan, run>>
      /\ recorded' = recorded \cup {s} /\ guest' = guest \cup {s} /\ receipt' = receipt
  BY DEF Record
<1>2. SessionInv(s)' /\ \A t \in Sessions \ {s} : SameStanding(t)
  BY <1>0, <1>1 DEF SessionInv, SameStanding
<1>3. ASSUME NEW q \in Parts, q[1] = s
      PROVE  OpInv(s, q)'
  <2>1. OpInv(s, q)
    BY <1>3 DEF FsInv
  <2>2. Untouched(q)
    BY <1>1 DEF Untouched, SameEntries
  <2>3. IsRetained(q)' => Intact(q)' /\ Unstaged(q)' /\ Pristine(q)'
    BY <1>0, <2>1, <2>2, UntouchedFacts DEF OpInv
  <2> QED
    BY <1>0, <1>1, <2>3 DEF OpInv, FinalOps
<1> QED
  BY <1>1, <1>2, <1>3, Restands

\* The standing of one session changes and it has no guest.
LEMMA Settles ==
    ASSUME FsInv, NEW s \in Sessions,
           UNCHANGED <<root, durable, data, obj, told, plan, run, guest>>,
           \A t \in Sessions \ {s} : SameStanding(t),
           run[s].op \in {"closed", "dropped", "dead"}, s \notin guest
    PROVE  FsInv'
<1>1. SessionInv(s)'
  BY DEF SessionInv
<1>2. ASSUME NEW q \in Parts, q[1] = s
      PROVE  OpInv(s, q)'
  <2>1. OpInv(s, q)
    BY <1>2 DEF FsInv
  <2>2. Untouched(q)
    BY DEF Untouched, SameEntries
  <2> QED
    BY <2>1, <2>2, UntouchedOp
<1> QED
  BY <1>1, <1>2, Restands

LEMMA AppendReceiptKeeps ==
    ASSUME FsInv, NEW s \in Sessions, AppendReceipt(s)
    PROVE  FsInv'
<1>1. /\ UNCHANGED <<root, durable, data, obj, told, plan, run, guest>>
      /\ run[s].op \in {"closed", "dropped"} /\ recorded' = recorded
      /\ receipt' = receipt \cup {s}
  BY DEF AppendReceipt
<1>2. s \notin guest
  BY <1>1, NoGuest
<1>3. \A t \in Sessions \ {s} : SameStanding(t)
  BY <1>1 DEF SameStanding
<1> QED
  BY <1>1, <1>2, <1>3, Settles

LEMMA SettleKeeps ==
    ASSUME FsInv, NEW s \in Sessions, Settle(s)
    PROVE  FsInv'
<1>1. /\ UNCHANGED <<root, durable, data, obj, told, plan, run, guest>>
      /\ run[s].op \in {"closed", "dropped", "dead"} /\ recorded' = recorded \ {s}
      /\ receipt' = receipt /\ s \in receipt
  BY DEF Settle
<1>2. s \notin guest
  BY <1>1 DEF FsInv, SessionInv
<1>3. \A t \in Sessions \ {s} : SameStanding(t)
  BY <1>1 DEF SameStanding
<1> QED
  BY <1>1, <1>2, <1>3, Settles

LEMMA GuestWriteKeeps ==
    ASSUME FsInv, NEW s \in Sessions, GuestWrite(s)
    PROVE  FsInv'
<1>0. FsTypes /\ SessionInv(s) /\ s \in guest
  BY DEF FsInv, GuestWrite
<1>1. PICK p \in SessionParts(s) : data[p] < MaxWrites /\ data' = [data EXCEPT ![p] = @ + 1]
  BY DEF GuestWrite
<1>2. /\ root' = root /\ durable' = durable /\ obj' = obj /\ run' = run /\ told' = told
      /\ UNCHANGED <<plan, recorded, guest, receipt>>
  BY DEF GuestWrite
<1>3. p \in Parts /\ p[1] = s
  <2>1. Copies(plan[s]) \in Seq(Aliases)
    BY <1>0, CopiesOf
  <2>2. Range(Copies(plan[s])) \subseteq Aliases
    BY <2>1 DEF Range
  <2>3. \E a \in PartNames : p = <<s, a>>
    BY <2>2 DEF SessionParts, PartNames
  <2> QED
    BY <2>3, PartFacts
<1>4. /\ data[p] \in NoData .. MaxWrites /\ MaxWrites \in Nat
      /\ data' \in [Parts -> NoData .. MaxWrites] /\ data'[p] = data[p] + 1 /\ data'[p] # NoData
      /\ \A q \in Parts \ {p} : data'[q] = data[q]
  BY <1>0, <1>1, <1>3, FilesystemAssumption DEF FsTypes, NoData
<1>5. FsTypes'
  BY <1>0, <1>2, <1>4 DEF FsTypes
<1>6. Around(p)
  BY <1>2, <1>3, <1>4, AroundFacts
<1>7. PartInv(p) /\ OpInv(s, p)
  BY <1>3 DEF FsInv
<1>8. IsRetained(p)' <=> IsRetained(p)
  BY <1>2, <1>3, RetainedKept
<1>9. IsRetained(p) => Intact(p) /\ Unstaged(p) /\ (obj[p].held => Pristine(p))
  BY <1>0, <1>7 DEF OpInv
<1>10. Unstaged(p) /\ p \notin told
  <2>1. Unstaged(p)
    BY <1>7, <1>9 DEF PartInv
  <2> QED
    BY <1>7, <2>1 DEF PartInv, Unstaged
<1>11. /\ Unstaged(p)'
       /\ Pristine(p)' <=> Pristine(p)
       /\ Intact(p)' <=> Intact(p)
  BY <1>2, <1>10 DEF Unstaged, Pristine, Intact
<1>12. Kept(p)' \/ IsRetained(p)
  BY <1>8 DEF Kept, Shown
<1>13. PartInv(p)'
  <2>1. Shown(p)' => Intact(p)'
    BY <1>8, <1>9, <1>11 DEF Shown
  <2>2. root'[p].stage # data'[p]
    BY <1>4, <1>11 DEF Unstaged
  <2>3. obj'[p].held => Pristine(p)' \/ Kept(p)'
    BY <1>2, <1>9, <1>11, <1>12
  <2>4. obj'[p].meta \/ root'[p].meta = "final" \/ durable'[p].meta = "final" => IsRetained(p)'
    BY <1>2, <1>7, <1>8 DEF PartInv
  <2> QED
    BY <1>2, <1>4, <1>10, <1>11, <2>1, <2>2, <2>3, <2>4 DEF PartInv, Intact
<1>14. SessionInv(s)' /\ run[s].op \in {"live", "dead"}
  BY <1>0, <1>2 DEF SessionInv
<1>15. ASSUME NEW q \in Parts, q[1] = s
       PROVE  OpInv(s, q)'
  <2>1. CASE q = p
    <3>1. IsRetained(p)' => Intact(p)' /\ Unstaged(p)' /\ (obj'[p].held => Pristine(p)')
      BY <1>2, <1>8, <1>9, <1>11
    <3>2. run[s].op = "live" /\ IsRetained(p) => Pristine(p)
      BY <1>7 DEF OpInv
    <3> QED
      BY <1>2, <1>8, <1>11, <1>14, <2>1, <3>1, <3>2 DEF OpInv, FinalOps
  <2>2. CASE q # p
    <3>1. Untouched(q) /\ OpInv(s, q)
      BY <1>6, <1>15, <2>2 DEF Around, FsInv
    <3> QED
      BY <1>2, <3>1, UntouchedOp
  <2> QED
    BY <2>1, <2>2
<1>16. PlaceInv(s, Current(s))'
  BY <1>2, <1>14 DEF PlaceInv, FinalOps, CleanOps
<1> QED
  BY <1>3, <1>5, <1>6, <1>13, <1>14, <1>15, <1>16, StepKept

LEMMA JoinedRange ==
    ASSUME NEW S, NEW s \in Seq(S), NEW t \in Seq(S)
    PROVE  s \o t \in Seq(S) /\ Range(t) \subseteq Range(s \o t)
<1> DEFINE j == s \o t
<1>1. /\ j \in Seq(S) /\ DOMAIN j = 1 .. Len(s) + Len(t)
      /\ \A i \in 1 .. Len(t) : j[Len(s) + i] = t[i]
  BY JoinedIs
<1> HIDE DEF j
<1>2. Len(s) \in Nat /\ Len(t) \in Nat /\ DOMAIN t = 1 .. Len(t)
  OBVIOUS
<1>3. \A i \in DOMAIN t : Len(s) + i \in DOMAIN j /\ j[Len(s) + i] = t[i]
  BY <1>1, <1>2
<1>4. Range(t) \subseteq Range(j)
  BY <1>3 DEF Range
<1> QED
  BY <1>1, <1>4 DEF j

LEMMA JoinedCopies ==
    ASSUME NEW c \in Seq(Aliases)
    PROVE  <<Scratch>> \o c \in Seq(PartNames) /\ Range(c) \subseteq Range(<<Scratch>> \o c)
<1> DEFINE d == <<Scratch>>
<1>1. d \in Seq(PartNames) /\ c \in Seq(PartNames)
  BY DEF PartNames
<1> HIDE DEF d
<1>2. d \o c \in Seq(PartNames) /\ Range(c) \subseteq Range(d \o c)
  BY <1>1, JoinedRange
<1> QED
  BY <1>2 DEF d

LEMMA CreateKeeps ==
    ASSUME FsInv, NEW s \in Sessions, Create(s)
    PROVE  FsInv'
<1>0. FsTypes /\ run[s].op = "idle" /\ SessionInv(s)
  BY DEF FsInv, Create
<1>1. PICK grants \in Plans :
         /\ plan' = [plan EXCEPT ![s] = grants]
         /\ run' = [run EXCEPT ![s] = [op |-> "create", at |-> "mkdir",
                        todo |-> <<Scratch>> \o Copies(grants), failed |-> FALSE]]
  BY DEF Create
<1>2. UNCHANGED <<root, durable, data, obj, told>> /\ UNCHANGED <<recorded, guest, receipt>>
  BY DEF Create
<1> DEFINE c == Copies(grants)
           td == <<Scratch>> \o c
           r == [op |-> "create", at |-> "mkdir", todo |-> td, failed |-> FALSE]
<1>3. c \in Seq(Aliases)
  BY CopiesFacts
<1>4. run' = [run EXCEPT ![s] = r]
  BY <1>1
<1>5. /\ plan' \in [Sessions -> Plans \cup {<<>>}] /\ plan'[s] = grants
      /\ \A t \in Sessions \ {s} : plan'[t] = plan[t]
  BY <1>0, <1>1 DEF FsTypes
<1>6. td \in Seq(PartNames) /\ Range(c) \subseteq Range(td)
  BY <1>3, JoinedCopies
<1>7. \A q \in Parts : q[1] = s /\ IsRetained(q)' => q[2] \in Range(c)
  BY <1>5 DEF IsRetained
<1> HIDE DEF c, td
<1>8. r \in Runs /\ r.op = "create" /\ r.at = "mkdir" /\ r.todo = td
  BY <1>6 DEF Runs, OpNames, Places
<1> HIDE DEF r
<1>9. run' \in [Sessions -> Runs] /\ run'[s] = r /\ \A t \in Sessions \ {s} : run'[t] = run[t]
  BY <1>0, <1>4, <1>8, PutFacts
<1>10. FsTypes'
  BY <1>0, <1>2, <1>5, <1>9 DEF FsTypes
<1>11. \A t \in Sessions : SameStanding(t)
  BY <1>2, Standing
<1>12. SessionInv(s)' /\ s \notin guest'
  BY <1>0, <1>2, <1>8, <1>9 DEF SessionInv
<1>13. ASSUME NEW q \in Parts, q[1] = s
       PROVE  PartInv(q)' /\ OpInv(s, q)'
  <2>1. PartInv(q) /\ OpInv(s, q)
    BY <1>13 DEF FsInv
  <2>2. Unstaged(q) /\ data[q] = NoData /\ obj[q] = NoObject
    BY <1>0, <2>1 DEF OpInv
  <2>3. q \notin told /\ root[q].meta # "final" /\ durable[q].meta # "final"
    BY <2>1, <2>2 DEF PartInv
  <2>4. Unstaged(q)' /\ data'[q] = NoData /\ obj'[q] = NoObject
    BY <1>2, <2>2 DEF Unstaged
  <2>5. ~obj'[q].meta /\ ~obj'[q].held /\ ~obj'[q].manifest
    BY <2>4 DEF NoObject
  <2>6. ~Shown(q)'
    BY <2>4 DEF Shown, NoData
  <2>7. PartInv(q)'
    BY <1>2, <2>3, <2>4, <2>5, <2>6 DEF PartInv, Unstaged
  <2>8. IsRetained(q)' => q[2] \in Range(run'[s].todo)
    BY <1>6, <1>7, <1>8, <1>9, <1>13
  <2>9. data'[q] <= 0
    BY <2>4 DEF NoData
  <2>10. OpInv(s, q)'
    BY <1>8, <1>9, <1>12, <2>4, <2>5, <2>8, <2>9 DEF OpInv, FinalOps
  <2> QED
    BY <2>7, <2>10
<1>14. ASSUME NEW q \in Parts, q[1] # s
       PROVE  Untouched(q)
  <2>1. q[1] \in Sessions /\ plan'[q[1]] = plan[q[1]]
    BY <1>5, <1>14, PartParts
  <2> QED
    BY <1>2, <2>1 DEF Untouched, SameEntries
<1>15. run'[s].todo # <<>> => PlaceInv(s, Current(s))'
  BY <1>8, <1>9, <1>10, <1>13, NextPlace
<1> QED
  BY <1>9, <1>10, <1>11, <1>12, <1>13, <1>14, <1>15, Turns

-----------------------------------------------------------------------------
(* Death and recovery.                                                       *)

\* What a restart finds of part q: its names, or those of the last sync.
Found(q) ==
    \/ /\ SameEntries(root'[q], root[q])
       /\ SameEntries(durable'[q], durable[q]) \/ SameEntries(durable'[q], root[q])
    \/ SameEntries(root'[q], durable[q]) /\ SameEntries(durable'[q], durable[q])

\* A loss of power took writes to the image of part q.
Unsynced(q) ==
    /\ Recoverable(root'[q]) /\ SameEntries(durable'[q], root'[q])
    /\ data[q] > 0 /\ data'[q] \in 0 .. data[q]

\* Every object is gone and every operation has ended.
LEMMA ResetKeeps ==
    ASSUME FsInv,
           root' \in [Parts -> Entries], durable' \in [Parts -> Entries],
           \A q \in Parts : Found(q),
           obj' = [p \in Parts |-> NoObject],
           run' = [s \in Sessions |->
                      IF run[s].op = "idle" THEN Idle ELSE [Idle EXCEPT !.op = "dead"]],
           data' \in [Parts -> NoData .. MaxWrites], \A q \in Parts : data'[q] = data[q] \/ Unsynced(q),
           UNCHANGED <<plan, told, recorded, receipt>>, guest' \subseteq guest
    PROVE  FsInv'
<1>0. FsTypes
  BY DEF FsInv
<1> DEFINE d == [Idle EXCEPT !.op = "dead"]
<1>1. /\ Idle \in Runs /\ Idle.op = "idle" /\ Idle.todo = <<>>
      /\ d \in Runs /\ d.op = "dead" /\ d.todo = <<>>
  BY IdleFacts DEF OpNames
<1>2. run' = [s \in Sessions |-> IF run[s].op = "idle" THEN Idle ELSE d]
  OBVIOUS
<1> HIDE DEF d
<1>3. /\ run' \in [Sessions -> Runs]
      /\ \A s \in Sessions : /\ run'[s].todo = <<>> /\ run'[s].op \in {"idle", "dead"}
                             /\ run'[s].op = "idle" <=> run[s].op = "idle"
  BY <1>1, <1>2
<1>4. obj' \in [Parts -> Materials] /\ \A q \in Parts : obj'[q] = NoObject
  BY DEF NoObject, Materials
<1>5. FsTypes'
  BY <1>0, <1>3, <1>4 DEF FsTypes
<1>6. ASSUME NEW s \in Sessions
      PROVE  SessionInv(s)' /\ run'[s].todo = <<>>
  <2>1. SessionInv(s)
    BY DEF FsInv
  <2>2. s \in guest' => s \in guest
    OBVIOUS
  <2>3. s \in guest => run[s].op # "idle"
    BY <2>1 DEF SessionInv
  <2> QED
    BY <1>3, <2>1, <2>2, <2>3 DEF SessionInv
<1>7. ASSUME NEW q \in Parts
      PROVE  PartInv(q)' /\ OpInv(q[1], q)'
  <2> DEFINE s == q[1]
  <2>1. s \in Sessions /\ PartInv(q) /\ OpInv(s, q)
    BY PartParts DEF FsInv
  <2>2. (q \in told' <=> q \in told) /\ obj'[q] = NoObject
    BY <1>4
  <2>3. ~obj'[q].meta /\ ~obj'[q].held
    BY <2>2 DEF NoObject
  <2>4. IsRetained(q)' <=> IsRetained(q)
    BY RetainedKept
  <2> HIDE DEF s
  <2>5. Found(q)
    OBVIOUS
  <2>6. Unstaged(q) => Unstaged(q)'
    BY <2>5 DEF Found, SameEntries, Unstaged
  <2>7. Intact(q) => Intact(q)'
    BY <2>5 DEF Found, SameEntries, Intact, Recoverable
  <2>8. PartInv(q)'
    <3>0. Unsynced(q) => q \notin told /\ data'[q] # NoData /\ data'[q] \in Int
      BY <2>1, <2>5 DEF PartInv, Unsynced, Found, SameEntries, Recoverable, NoData
    <3>1. Shown(q)' => \A e \in {root'[q], durable'[q]} : e.stage = data'[q] \/ Recoverable(e)
      BY <2>1, <2>2, <2>4, <2>5 DEF PartInv, Found, SameEntries, Recoverable, Shown, Unsynced
    <3>2. root'[q].stage = data'[q] => durable'[q].stage = data'[q]
      BY <2>1, <2>2, <2>5 DEF PartInv, Found, SameEntries, Unsynced
    <3>3. root'[q].meta = "final" \/ durable'[q].meta = "final" =>
             data'[q] # NoData /\ IsRetained(q)'
      BY <2>1, <2>2, <2>4, <2>5, <3>0 DEF PartInv, Found, SameEntries
    <3>4. q \in told' => /\ data'[q] # NoData /\ root'[q].stage = data'[q]
                         /\ root'[q].meta # "final" /\ durable'[q].meta # "final"
      BY <2>1, <2>2, <2>5, <3>0 DEF PartInv, Found, SameEntries
    <3>5. ~IsRetained(q)' => Unstaged(q)' /\ q \notin told'
      BY <2>1, <2>2, <2>4, <2>6 DEF PartInv
    <3> QED
      BY <2>3, <3>1, <3>2, <3>3, <3>4, <3>5 DEF PartInv
  <2>9. OpInv(s, q)'
    <3>1. /\ run'[s].op \in {"idle", "dead"}
          /\ run'[s].op = "idle" <=> run[s].op = "idle"
      BY <1>3, <2>1
    <3>2. s \in guest' => s \in guest
      OBVIOUS
    <3>3. run[s].op = "idle" => data'[q] = data[q]
      BY <2>1 DEF OpInv, Unsynced, NoData
    <3> QED
      BY <2>1, <2>2, <2>3, <2>4, <2>6, <2>7, <3>1, <3>2, <3>3 DEF OpInv, FinalOps
  <2> QED
    BY <2>8, <2>9 DEF s
<1> QED
  BY <1>5, <1>6, <1>7 DEF FsInv

LEMMA CrashKeeps ==
    ASSUME FsInv, Crash
    PROVE  FsInv'
<1>1. UNCHANGED <<root, durable>> /\ UNCHANGED <<data, plan, told, recorded, receipt>> /\ guest' = guest
  BY DEF Crash
<1>2. \A q \in Parts : Found(q)
  BY <1>1 DEF Found, SameEntries
<1>3. /\ root' \in [Parts -> Entries] /\ durable' \in [Parts -> Entries]
      /\ data' \in [Parts -> NoData .. MaxWrites]
  BY <1>1 DEF FsInv, FsTypes
<1>4. /\ obj' = [p \in Parts |-> NoObject]
      /\ run' = [s \in Sessions |->
                    IF run[s].op = "idle" THEN Idle ELSE [Idle EXCEPT !.op = "dead"]]
  BY DEF Crash, Forgotten
<1> QED
  BY <1>1, <1>2, <1>3, <1>4, ResetKeeps

LEMMA PowerLossKeeps ==
    ASSUME FsInv, PowerLoss
    PROVE  FsInv'
<1>1. /\ root' = root \/ root' = durable
      /\ durable' = root' /\ UNCHANGED <<plan, told, recorded, receipt>> /\ guest' = {}
  BY DEF PowerLoss
<1>2. /\ \A q \in Parts : Found(q)
      /\ data' \in [Parts -> NoData .. MaxWrites] /\ \A q \in Parts : data'[q] = data[q] \/ Unsynced(q)
  BY <1>1 DEF PowerLoss, Found, Unsynced, SameEntries
<1>3. root' \in [Parts -> Entries] /\ durable' \in [Parts -> Entries]
  BY <1>1 DEF FsInv, FsTypes
<1>4. /\ obj' = [p \in Parts |-> NoObject]
      /\ run' = [s \in Sessions |->
                    IF run[s].op = "idle" THEN Idle ELSE [Idle EXCEPT !.op = "dead"]]
  BY DEF PowerLoss, Forgotten
<1> QED
  BY <1>1, <1>2, <1>3, <1>4, ResetKeeps

\* A start that fails without a change of a name.
LEMMA StartFailedKeeps ==
    ASSUME FsInv, StartFailed,
           root' \in [Parts -> Entries], \A q \in Parts : SameEntries(root'[q], root[q]),
           durable' = durable \/ durable' = root',
           UNCHANGED <<data, plan, told, recorded, receipt>>, guest' = guest
    PROVE  FsInv'
<1>1. durable' \in [Parts -> Entries] /\ data' \in [Parts -> NoData .. MaxWrites]
  BY DEF FsInv, FsTypes
<1>2. ASSUME NEW q \in Parts
      PROVE  Found(q)
  BY DEF Found, SameEntries
<1>3. /\ obj' = [p \in Parts |-> NoObject]
      /\ run' = [s \in Sessions |->
                    IF run[s].op = "idle" THEN Idle ELSE [Idle EXCEPT !.op = "dead"]]
  BY DEF StartFailed
<1> QED
  BY <1>1, <1>2, <1>3, ResetKeeps

LEMMA StartFailedPlain ==
    ASSUME FsInv, StartFailed, UNCHANGED <<root, durable>>,
           UNCHANGED <<data, plan, told, recorded, receipt>>, guest' = guest
    PROVE  FsInv'
<1>1. root' \in [Parts -> Entries] /\ \A q \in Parts : SameEntries(root'[q], root[q])
  BY DEF FsInv, FsTypes, SameEntries
<1> QED
  BY <1>1, StartFailedKeeps

LEMMA SweepStepFacts ==
    ASSUME FsInv, NEW p \in Parts, NEW at \in Places, SweepStep(p, at)
    PROVE  /\ run' \in [Sessions -> Runs]
           /\ run'[p[1]].op = "orphan" /\ run'[p[1]].at = at /\ run'[p[1]].todo = <<p[2]>>
           /\ \A t \in Sessions \ {p[1]} : run'[t] = run[t]
<1> DEFINE td == <<p[2]>>
           r == [op |-> "orphan", at |-> at, todo |-> td, failed |-> FALSE]
<1>1. p[1] \in Sessions /\ td \in Seq(PartNames) /\ FsTypes
  BY PartParts DEF FsInv
<1>2. run' = [run EXCEPT ![p[1]] = r]
  BY DEF SweepStep
<1> HIDE DEF td
<1>3. r \in Runs /\ r.op = "orphan" /\ r.at = at /\ r.todo = td
  BY <1>1 DEF Runs, OpNames
<1> HIDE DEF r
<1>4. run' \in [Sessions -> Runs] /\ run'[p[1]] = r /\ \A t \in Sessions \ {p[1]} : run'[t] = run[t]
  BY <1>1, <1>2, <1>3, PutFacts
<1> QED
  BY <1>3, <1>4 DEF td

LEMMA OneRange ==
    ASSUME NEW a
    PROVE  Range(<<a>>) = {a} /\ <<a>> # <<>> /\ Head(<<a>>) = a
BY DEF Range

\* The sweep takes up part p of an unrecorded session.
LEMMA OrphanTaken ==
    ASSUME FsInv, NEW p \in Parts, p[1] \notin recorded,
           OnlyPart(p), PartInv(p)', Pristine(p)' \/ Kept(p)',
           NEW at \in {"final", "unmount"}, at = "unmount" => Kept(p)', SweepStep(p, at)
    PROVE  FsInv'
<1> DEFINE s == p[1]
<1>0. FsTypes /\ s \in Sessions /\ SessionInv(s)
  BY PartParts DEF FsInv
<1>1. at \in Places
  BY DEF Places
<1>2. /\ run' \in [Sessions -> Runs]
      /\ run'[s].op = "orphan" /\ run'[s].at = at /\ run'[s].todo = <<p[2]>>
      /\ \A t \in Sessions \ {s} : run'[t] = run[t]
  BY <1>1, SweepStepFacts
<1>3. FsTypes' /\ Around(p)
  BY <1>0, <1>2, OnlyPartFacts
<1>4. s \notin guest /\ s \notin guest'
  BY <1>0 DEF SessionInv, OnlyPart
<1>5. SessionInv(s)'
  BY <1>2, <1>3, <1>4, StandingKept
<1>6. Range(run'[s].todo) = {p[2]} /\ Head(run'[s].todo) = p[2]
  BY <1>2, OneRange
<1>7. ASSUME NEW q \in Parts, q[1] = s
      PROVE  OpInv(s, q)'
  <2>1. q = p \/ q[2] \notin Range(run'[s].todo)
    BY <1>6, <1>7, OtherPart
  <2> QED
    BY <1>2, <1>4, <2>1 DEF OpInv
<1>8. Current(s)' = p
  BY <1>6, PartParts DEF Current
<1>9. PlaceInv(s, p)'
  BY <1>2 DEF PlaceInv, FinalOps
<1>10. PlaceInv(s, Current(s))'
  BY <1>8, <1>9
<1> QED
  BY <1>3, <1>5, <1>7, <1>10, StepKept

LEMMA AdoptedObject ==
    ASSUME FsTypes, NEW p \in Parts, AdoptRetained(p)
    PROVE  /\ obj' \in [Parts -> Materials] /\ Pristine(p)'
           /\ \A q \in Parts \ {p} : obj'[q] = obj[q]
<1>1. [held |-> TRUE, meta |-> TRUE, manifest |-> FALSE] \in Materials
  BY DEF Materials
<1> QED
  BY <1>1 DEF AdoptRetained, FsTypes, Pristine

\* A part with metadata is adopted: its names are the same.
LEMMA AdoptedPart ==
    ASSUME NEW p \in Parts, PartInv(p), root[p].meta = "final",
           SameEntries(root'[p], root[p]),
           SameEntries(durable'[p], durable[p]) \/ SameEntries(durable'[p], root[p]),
           data' = data, plan' = plan, told' = told, Pristine(p)'
    PROVE  PartInv(p)'
<1>1. /\ IsRetained(p)' <=> IsRetained(p)
      /\ Shown(p)' <=> Shown(p)
  BY RetainedKept, ShownKept
<1>2. Shown(p)' => \A e \in {root'[p], durable'[p]} : e.stage = data'[p] \/ Recoverable(e)
  BY <1>1 DEF PartInv, SameEntries, Recoverable
<1>3. root'[p].stage = data'[p] => durable'[p].stage = data'[p]
  BY DEF PartInv, SameEntries
<1>4. data[p] # NoData /\ IsRetained(p)
  BY DEF PartInv
<1>5. p \in told' => data'[p] # NoData /\ root'[p].stage = data'[p]
  BY DEF PartInv, SameEntries
<1> QED
  BY <1>1, <1>2, <1>3, <1>4, <1>5 DEF PartInv

LEMMA SweepRetainedKeeps ==
    ASSUME FsInv, NEW p \in Parts, SweepRetained(p)
    PROVE  FsInv'
<1> DEFINE e == [root[p] EXCEPT !.dir = TRUE]
<1>0. FsTypes /\ PartInv(p) /\ root[p] \in Entries /\ root[p].meta = "final"
  BY DEF FsInv, FsTypes, SweepRetained, HasMetadata
<1>1. e \in Entries /\ SameEntries(e, root[p])
  BY <1>0 DEF Entries, SameEntries
<1>2. /\ SetEntry(p, e) /\ (durable' = durable \/ durable' = root')
      /\ UNCHANGED <<data, plan, told, recorded, receipt>> /\ guest' = guest
      /\ p[1] \notin recorded
  BY DEF SweepRetained, NoSync, SyncRoot, Orphans, Orphan
<1>3. (AdoptRetained(p) /\ SweepStep(p, "final")) \/ StartFailed
  BY DEF SweepRetained
<1> HIDE DEF e
<1>4. root' \in [Parts -> Entries] /\ root'[p] = e /\ \A q \in Parts \ {p} : root'[q] = root[q]
  BY <1>0, <1>1, <1>2, SetEntryFacts
<1>5. CASE AdoptRetained(p) /\ SweepStep(p, "final")
  <2>1. /\ obj' \in [Parts -> Materials] /\ Pristine(p)'
        /\ \A q \in Parts \ {p} : obj'[q] = obj[q]
    BY <1>0, <1>5, AdoptedObject
  <2>2. SameEntries(durable'[p], durable[p]) \/ SameEntries(durable'[p], root[p])
    BY <1>1, <1>2, <1>4 DEF SameEntries
  <2>3. PartInv(p)'
    BY <1>0, <1>1, <1>2, <1>4, <2>1, <2>2, AdoptedPart
  <2>4. OnlyPart(p)
    BY <1>0, <1>2, <1>4, <2>1 DEF OnlyPart, FsTypes
  <2> QED
    BY <1>2, <1>5, <2>1, <2>3, <2>4, OrphanTaken
<1>6. CASE StartFailed
  <2>1. \A q \in Parts : SameEntries(root'[q], root[q])
    BY <1>1, <1>4 DEF SameEntries
  <2> QED
    BY <1>2, <1>4, <1>6, <2>1, StartFailedKeeps
<1> QED
  BY <1>3, <1>5, <1>6

LEMMA SweepRefusedKeeps ==
    ASSUME FsInv, NEW p \in Parts, SweepRefused(p)
    PROVE  FsInv'
BY StartFailedPlain DEF SweepRefused

LEMMA SweepIncompleteKeeps ==
    ASSUME FsInv, NEW p \in Parts, SweepIncomplete(p)
    PROVE  FsInv'
<1>0. FsTypes /\ PartInv(p) /\ root[p].meta # "final" /\ p[1] \notin recorded
  BY DEF FsInv, SweepIncomplete, HasMetadata, Orphans, Orphan
<1>2. /\ UNCHANGED <<root, durable, data, obj, told, plan, recorded, guest, receipt>>
      /\ SweepStep(p, "unmount")
  BY DEF SweepIncomplete
<1>3. OnlyPart(p) /\ Untouched(p)
  BY <1>0, <1>2 DEF OnlyPart, FsTypes, Untouched, SameEntries
<1>4. Kept(p)
  BY <1>0 DEF Kept, Staged, PartInv, Recoverable
<1>5. PartInv(p)' /\ Kept(p)'
  BY <1>0, <1>3, <1>4, UntouchedPart, UntouchedFacts
<1> QED
  BY <1>0, <1>2, <1>3, <1>5, OrphanTaken

LEMMA SweptKeeps ==
    ASSUME FsInv, NEW s \in Sessions, Swept(s)
    PROVE  FsInv'
<1>1. UNCHANGED <<root, durable>> /\ UNCHANGED <<data, plan, told, recorded, receipt>> /\ guest' = guest
  BY DEF Swept
<1>2. CASE StartFailed
  BY <1>1, <1>2, StartFailedPlain
<1>3. CASE run' = [run EXCEPT ![s] = [Idle EXCEPT !.op = "dead"]] /\ obj' = obj
  <2> DEFINE r == [Idle EXCEPT !.op = "dead"]
  <2>1. r \in Runs /\ r.op = "dead" /\ r.todo = <<>>
    BY IdleFacts DEF OpNames
  <2>2. run' = [run EXCEPT ![s] = r]
    BY <1>3
  <2> HIDE DEF r
  <2>3. s \notin guest
    BY NoGuest DEF Swept
  <2>4. \A t \in Sessions : SameStanding(t)
    BY <1>1 DEF SameStanding
  <2> QED
    BY <1>1, <1>3, <2>1, <2>2, <2>3, <2>4, LetGo
<1> QED
  BY <1>2, <1>3 DEF Swept

LEMMA RecoveredKeeps ==
    ASSUME FsInv, NEW s \in Sessions, Recovered(s)
    PROVE  FsInv'
<1>1. UNCHANGED <<root, durable>> /\ UNCHANGED <<data, plan, told, receipt>> /\ guest' = guest
  BY DEF Recovered
<1>2. CASE StartFailed /\ UNCHANGED recorded
  BY <1>1, <1>2, StartFailedPlain
<1>3. CASE /\ run' = [run EXCEPT ![s] = [Idle EXCEPT !.op = "dropped"]]
           /\ recorded' = recorded \ {s} /\ obj' = obj
  <2> DEFINE r == [Idle EXCEPT !.op = "dropped"]
  <2>1. r \in Runs /\ r.op = "dropped" /\ r.todo = <<>>
    BY IdleFacts DEF OpNames
  <2>2. run' = [run EXCEPT ![s] = r]
    BY <1>3
  <2> HIDE DEF r
  <2>3. s \notin guest
    BY NoGuest DEF Recovered
  <2>4. \A t \in Sessions \ {s} : SameStanding(t)
    BY <1>1, <1>3 DEF SameStanding
  <2> QED
    BY <1>1, <1>3, <2>1, <2>2, <2>3, <2>4, LetGo
<1> QED
  BY <1>2, <1>3 DEF Recovered

LEMMA AdoptedKeeps ==
    ASSUME FsInv, NEW s \in Sessions, Adopted(s)
    PROVE  FsInv'
<1> DEFINE h == Held(s, obj)
           r == [op |-> "adopted", at |-> "final", failed |-> FALSE, todo |-> h]
<1>0. FsTypes /\ s \notin guest /\ SessionInv(s)
  BY NoGuest DEF FsInv, Adopted
<1>1. /\ run' = [run EXCEPT ![s] = r] /\ UNCHANGED <<root, durable, data, obj, told, plan>>
      /\ UNCHANGED <<recorded, guest, receipt>>
  BY DEF Adopted, Rest
<1>2. h \in Seq(PartNames) /\ \A a \in Range(h) : a \in PartNames /\ obj[<<s, a>>].held
  BY <1>0, HeldFacts
<1> HIDE DEF h
<1>3. r \in Runs /\ r.op = "adopted" /\ r.at = "final" /\ r.todo = h
  BY <1>2 DEF Runs, OpNames, Places
<1> HIDE DEF r
<1>4. run'[s] = r
  BY <1>0, <1>1, <1>3, PutFacts
<1>5. \A t \in Sessions : SameStanding(t)
  BY <1>1, Standing
<1>6. SessionInv(s)' /\ s \notin guest'
  BY <1>0, <1>3, <1>4, <1>5, StandsFor
<1>7. ASSUME NEW q \in Parts, q[1] = s
      PROVE  OpInv(s, q)'
  <2>1. PartInv(q) /\ Untouched(q)
    BY <1>1 DEF FsInv, Untouched, SameEntries
  <2>2. q = <<s, q[2]>>
    BY <1>7, PartParts
  <2>3. q[2] \in Range(run'[s].todo) => obj[q].held
    BY <1>2, <1>3, <1>4, <2>2
  <2>4. q[2] \in Range(run'[s].todo) => Pristine(q)' \/ Kept(q)'
    BY <2>1, <2>3, UntouchedFacts DEF PartInv
  <2> QED
    BY <1>3, <1>4, <1>6, <2>4 DEF OpInv
<1> QED
  BY <1>1, <1>3, <1>5, <1>6, <1>7, RunSet

LEMMA AdoptAdvances ==
    ASSUME FsInv, NEW s \in Sessions, NEW p \in Parts, p = Current(s),
           run[s].todo # <<>>, run[s].op = "adopt", Advance(s, "adopt", FALSE),
           OnlyPart(p), PartInv(p)'
    PROVE  FsInv'
<1>0. FsTypes /\ p[1] = s
  BY StepFacts
<1>1. s \notin guest'
  BY NoGuest DEF OnlyPart
<1>2. /\ run' \in [Sessions -> Runs]
      /\ run'[s].op = run[s].op /\ run'[s].at = "adopt" /\ run'[s].todo = Tail(run[s].todo)
      /\ \A t \in Sessions \ {s} : run'[t] = run[t]
  BY <1>0, AdvanceFacts DEF Places
<1>3. FsTypes' /\ Around(p)
  BY <1>0, <1>2, OnlyPartFacts
<1>4. OpInv(s, p)'
  BY <1>1, <1>2, PlainOp
<1> QED
  BY <1>0, <1>2, <1>3, <1>4, Advances

LEMMA AdoptKeeps ==
    ASSUME FsInv, NEW s \in Sessions, Adopt(s)
    PROVE  FsInv'
<1>0. run[s].op = "adopt" /\ run[s].todo # <<>>
  BY DEF Adopt, InStep
<1>1. PICK p \in Parts : p = Current(s) /\ root[p] \in Entries /\ PartInv(p) /\ FsTypes
  BY <1>0, StepFacts
<1>2. /\ durable' = durable /\ UNCHANGED <<data, plan, told, recorded, receipt>> /\ guest' = guest
  BY DEF Adopt, NoSync
<1>3. CASE HasMetadata(p) /\ AdoptRetained(p) /\ Advance(s, "adopt", FALSE) /\ root' = root
  <2>1. /\ obj' \in [Parts -> Materials] /\ Pristine(p)'
        /\ \A q \in Parts \ {p} : obj'[q] = obj[q]
    BY <1>1, <1>3, AdoptedObject
  <2>2. SameEntries(root'[p], root[p]) /\ SameEntries(durable'[p], durable[p])
    BY <1>2, <1>3 DEF SameEntries
  <2>3. PartInv(p)'
    BY <1>1, <1>2, <1>3, <2>1, <2>2, AdoptedPart DEF HasMetadata
  <2>4. OnlyPart(p)
    BY <1>1, <1>2, <1>3, <2>1 DEF OnlyPart, FsTypes
  <2> QED
    BY <1>0, <1>1, <1>3, <2>3, <2>4, AdoptAdvances
<1>4. CASE StartFailed /\ root' = root
  BY <1>2, <1>4, StartFailedPlain
<1>5. CASE /\ SetEntry(p, [root[p] EXCEPT !.dir = FALSE])
           /\ Advance(s, "adopt", FALSE) /\ obj' = obj
  <2> DEFINE e == [root[p] EXCEPT !.dir = FALSE]
  <2>1. e \in Entries /\ SameEntries(e, root[p])
    BY <1>1 DEF Entries, SameEntries
  <2>2. SetEntry(p, e)
    BY <1>5
  <2> HIDE DEF e
  <2>3. root' \in [Parts -> Entries] /\ root'[p] = e /\ \A q \in Parts \ {p} : root'[q] = root[q]
    BY <1>1, <2>1, <2>2, SetEntryFacts
  <2>4. OnlyPart(p)
    BY <1>1, <1>2, <1>5, <2>3 DEF OnlyPart, FsTypes
  <2>5. SameEntries(durable'[p], durable[p])
    BY <1>2 DEF SameEntries
  <2>6. Untouched(p)
    BY <1>2, <1>5, <2>1, <2>3, <2>5 DEF Untouched
  <2>7. PartInv(p)'
    BY <1>1, <2>6, UntouchedPart
  <2> QED
    BY <1>0, <1>1, <1>5, <2>4, <2>7, AdoptAdvances
<1>6. CASE /\ ~IsRetained(p) /\ obj' = [obj EXCEPT ![p].held = TRUE]
           /\ Advance(s, "adopt", FALSE) /\ root' = root
  <2>1. /\ obj' \in [Parts -> Materials] /\ obj'[p].meta = obj[p].meta
        /\ \A q \in Parts \ {p} : obj'[q] = obj[q]
    BY <1>1, <1>6 DEF FsTypes, Materials
  <2>2. OnlyPart(p)
    BY <1>1, <1>2, <1>6, <2>1 DEF OnlyPart, FsTypes
  <2>3. ~IsRetained(p)'
    BY <1>2, <1>6, RetainedKept
  <2>4. ~Shown(p)' /\ Kept(p)'
    BY <2>3 DEF Shown, Kept
  <2>5. Unstaged(p) /\ p \notin told /\ ~obj[p].meta /\ root[p].meta # "final" /\ durable[p].meta # "final"
    BY <1>1, <1>6 DEF PartInv
  <2>6. Unstaged(p)' /\ p \notin told'
    BY <1>2, <1>6, <2>5 DEF Unstaged
  <2>7. PartInv(p)'
    BY <1>2, <1>6, <2>1, <2>4, <2>5, <2>6 DEF PartInv, Unstaged
  <2> QED
    BY <1>0, <1>1, <1>6, <2>2, <2>7, AdoptAdvances
<1> QED
  BY <1>1, <1>3, <1>4, <1>5, <1>6 DEF Adopt

\* Only the daemon's phase changes.
LEMMA PhaseKeeps ==
    ASSUME FsInv, UNCHANGED <<root, durable, data, obj, run, plan, recorded, guest, receipt, told>>
    PROVE  FsInv'
<1>1. FsTypes'
  BY DEF FsInv, FsTypes
<1>2. ASSUME NEW q \in Parts
      PROVE  PartInv(q)' /\ OpInv(q[1], q)'
  <2>1. Untouched(q) /\ PartInv(q) /\ OpInv(q[1], q)
    BY DEF Untouched, SameEntries, FsInv
  <2> QED
    BY <2>1, UntouchedPart, UntouchedOp
<1>3. ASSUME NEW t \in Sessions
      PROVE  SessionInv(t)' /\ (run'[t].todo # <<>> => PlaceInv(t, Current(t))')
  <2>1. SessionInv(t)'
    BY DEF FsInv, SessionInv
  <2>2. ASSUME run'[t].todo # <<>>
        PROVE  PlaceInv(t, Current(t))'
    <3>1. PICK q \in Parts : q = Current(t) /\ PlaceInv(t, q)
      BY <2>2, StepFacts
    <3>2. Untouched(q) /\ Current(t)' = q
      BY <3>1 DEF Untouched, SameEntries, Current
    <3>3. PlaceInv(t, q)'
      BY <3>1, <3>2, UntouchedPlace
    <3> QED
      BY <3>2, <3>3
  <2> QED
    BY <2>1, <2>2
<1> QED
  BY <1>1, <1>2, <1>3 DEF FsInv

-----------------------------------------------------------------------------
LEMMA InitHolds ==
    ASSUME FilesystemInit
    PROVE  FsInv
<1>1. /\ NoEntries \in Entries /\ NoObject \in Materials /\ Idle \in Runs
      /\ NoData \in NoData .. MaxWrites
  <2>1. MaxWrites \in Nat
    BY FilesystemAssumption
  <2>2. NoEntries \in Entries /\ NoData \in NoData .. MaxWrites
    BY <2>1 DEF NoEntries, Entries, NoData
  <2>3. NoObject \in Materials
    BY DEF NoObject, Materials
  <2>4. "idle" \in OpNames
    BY DEF OpNames
  <2> QED
    BY <2>2, <2>3, <2>4, IdleFacts
<1>2. FsTypes
  BY <1>1 DEF FilesystemInit, FsTypes
<1>3. ASSUME NEW q \in Parts
      PROVE  PartInv(q) /\ OpInv(q[1], q)
  <2>1. root[q] = NoEntries /\ durable[q] = NoEntries /\ data[q] = NoData /\ obj[q] = NoObject
    BY DEF FilesystemInit
  <2>2. Unstaged(q) /\ root[q].meta = "none" /\ durable[q].meta = "none"
    BY <2>1 DEF Unstaged, NoEntries
  <2>3. ~obj[q].held /\ ~obj[q].meta
    BY <2>1 DEF NoObject
  <2>4. ~Shown(q) /\ told = {}
    BY <2>1 DEF Shown, NoData, FilesystemInit
  <2>5. PartInv(q)
    BY <2>1, <2>2, <2>3, <2>4 DEF PartInv, Unstaged
  <2>6. q[1] \in Sessions
    BY PartParts
  <2>7. run[q[1]].op = "idle" /\ guest = {}
    BY <2>6 DEF FilesystemInit, Idle
  <2>8. OpInv(q[1], q)
    BY <2>1, <2>2, <2>7 DEF OpInv, FinalOps
  <2> QED
    BY <2>5, <2>8
<1>4. ASSUME NEW s \in Sessions
      PROVE  SessionInv(s) /\ run[s].todo = <<>>
  BY DEF FilesystemInit, SessionInv, Idle
<1> QED
  BY <1>2, <1>3, <1>4 DEF FsInv

LEMMA StepKeeps ==
    ASSUME FsInv, NEW s \in Sessions, Step(s)
    PROVE  FsInv'
<1>1. CASE MakeDirectory(s) \/ MakeImage(s) \/ SizeImage(s) \/ FormatImage(s)
  BY <1>1, MakeDirectoryKeeps, MakeImageKeeps, SizeImageKeeps, FormatImageKeeps
<1>2. CASE MountImage(s) \/ MountTmpfs(s) \/ CopySource(s) \/ WriteMetadata(s)
  BY <1>2, MountKeeps, CopySourceKeeps, WriteMetadataKeeps
<1>3. CASE PublishMetadata(s) \/ Created(s)
  BY <1>3, PublishMetadataKeeps, CreatedKeeps
<1>4. CASE FinalBegin(s) \/ PublishStage(s) \/ ForgetMetadata(s)
  BY <1>4, FinalBeginKeeps, PublishStageKeeps, ForgetMetadataKeeps
<1>5. CASE Unmount(s) \/ RemoveDirectory(s) \/ RemoveImage(s)
  BY <1>5, UnmountKeeps, RemoveDirectoryKeeps, RemoveImageKeeps
<1>6. CASE Finalized(s) \/ Cleaned(s) \/ Unwound(s)
  BY <1>6, FinalizedKeeps, CleanedKeeps, UnwoundKeeps
<1>7. CASE AppendReceipt(s) \/ Settle(s)
  BY <1>7, AppendReceiptKeeps, SettleKeeps
<1>8. CASE Mismatch(s) \/ Swept(s) \/ CleanupRecovered(s)
  BY <1>8, MismatchKeeps, SweptKeeps, CleanupRecoveredKeeps
<1>9. CASE Adopt(s) \/ Adopted(s) \/ Recovered(s)
  BY <1>9, AdoptKeeps, AdoptedKeeps, RecoveredKeeps
<1> QED
  BY <1>1, <1>2, <1>3, <1>4, <1>5, <1>6, <1>7, <1>8, <1>9 DEF Step

LEMMA BootKeeps ==
    ASSUME FsInv, Boot
    PROVE  FsInv'
<1>1. CASE Start \/ SweepDone \/ Serve
  BY <1>1, PhaseKeeps DEF Start, SweepDone, Serve
<1>2. CASE \E p \in Parts : SweepRetained(p) \/ SweepRefused(p) \/ SweepIncomplete(p)
  BY <1>2, SweepRetainedKeeps, SweepRefusedKeeps, SweepIncompleteKeeps
<1> QED
  BY <1>1, <1>2 DEF Boot

LEMMA FilesystemStep ==
    ASSUME FsInv, [FilesystemNext]_filesystemVars
    PROVE  FsInv'
<1>1. CASE UNCHANGED filesystemVars
  BY <1>1, PhaseKeeps DEF filesystemVars
<1>2. ASSUME NEW s \in Sessions, Create(s) \/ Record(s) \/ GuestWrite(s) \/ Close(s) \/ Step(s)
      PROVE  FsInv'
  BY <1>2, CreateKeeps, RecordKeeps, GuestWriteKeeps, ClosingKeeps, StepKeeps
<1>3. CASE Boot
  BY <1>3, BootKeeps
<1>4. CASE Crash \/ PowerLoss
  BY <1>4, CrashKeeps, PowerLossKeeps
<1> QED
  BY <1>1, <1>2, <1>3, <1>4 DEF FilesystemNext

\* The invariant says what the property asks of every part and every stage.
LEMMA InvariantSuffices ==
    ASSUME FsInv
    PROVE  RetainedContentSurvives
<1>1. ASSUME NEW p \in Parts, Shown(p), NEW r \in {root, durable}
      PROVE  r[p].stage = data[p] \/ Recoverable(r[p])
  BY <1>1 DEF FsInv, PartInv
<1>2. ASSUME NEW p \in told
      PROVE  root[p].stage = data[p]
  <2>1. p \in Parts
    BY DEF FsInv, FsTypes
  <2> QED
    BY <2>1 DEF FsInv, PartInv
<1>3. RetainedSurvives
  BY <1>1 DEF RetainedSurvives
<1>4. AcknowledgedStageStays
  BY <1>2 DEF AcknowledgedStageStays
<1> QED
  BY <1>3, <1>4 DEF RetainedContentSurvives

\* Whatever fails and whatever dies, the names, the object and the operation
\* of every part agree on where its content is (create_mounted,
\* finalize_retained, cleanup, cleanup_noexcept, recover_orphaned,
\* adopt_recovered).
THEOREM FilesystemInvariant == FilesystemSpec => []FsInv
<1>1. FilesystemInit => FsInv
  BY InitHolds
<1>2. FsInv /\ [FilesystemNext]_filesystemVars => FsInv'
  BY FilesystemStep
<1> QED
  BY <1>1, <1>2, PTL DEF FilesystemSpec

\* What a guest wrote to a retained copy is always in an image a recovery
\* finds or in its published stage, and a stage whose manifest was returned
\* to a caller stays: for every set of sessions and plans, any number of
\* failing calls, crashes of the daemon and power losses.
THEOREM FilesystemSafety == FilesystemSpec => []RetainedContentSurvives
<1>1. FsInv => RetainedContentSurvives
  BY InvariantSuffices
<1> QED
  BY <1>1, FilesystemInvariant, PTL

---------------------------------------------------------------------------
(* Path exposures: the inductive invariant.                                *)

ExposureKeys == {c.exposure_id : c \in Creations} \X (Nat \ {0})
RootIds == {c.root_id : c \in Creations}
ModeSets == {ToSet(c.modes) : c \in Creations}
RuntimeSets == {ToSet(c.runtimes) : c \in Creations}
RequestIds == {c.request_id : c \in Creations}

Descriptors ==
    [key : ExposureKeys, root_id : RootIds, source : Identities, modes : ModeSets,
     expires_at_ms : Nat, runtimes : RuntimeSets,
     scope : ExposureKeys \X RootIds \X Identities \X ModeSets \X Nat \X RuntimeSets,
     state : {"active", "revoked", "expired"}]

CreateRecords ==
    [kind : {"create"}, d : Descriptors, request_id : RequestIds,
     digest : {request_digest(c) : c \in Creations},
     host_path : {c.host_path : c \in Creations}, parent : Identities]

RevokeRecords ==
    [kind : {"revoke"}, request_id : RevokeIds, key : ExposureKeys,
     digest : {"revoke"} \X RevokeIds \X ExposureKeys,
     state : {"revoked", "expired"}]

JournalRecords == CreateRecords \cup RevokeRecords

\* The roots a daemon may work with: a policy, and what it opened of it.
Trees == [DOMAIN Tree -> Identities \cup {None}]
RootsOf(pol, t) ==
    {[root_id |-> r.root_id, host_root |-> r.host_root, modes |-> r.modes,
      max_ttl |-> r.max_ttl, runtimes |-> r.runtimes, identity |-> t[r.host_root]] : r \in pol}
RootSets == Policies \cup {RootsOf(pol, t) : pol \in Policies, t \in Trees}

Covers(rs, qs) ==
    \A r \in rs : \E w \in qs : w.root_id = r.root_id /\ w.host_root = r.host_root
                                /\ WithinPolicy(r.modes, r.runtimes, w)
Widest(pol) == \A other \in Policies : Covers(other, pol)

\* What a request in the maps says is true of the exposure it names.
RequestIsTrue(s, q) ==
    LET a == s.requests[q]
        e == s.exposures[a.key]
    IN  /\ a.key \in DOMAIN s.exposures
        /\ a.kind = "create" => e.request_id = q /\ e.digest = a.digest
        /\ a.kind = "revoke" => a.digest = revoke_request_digest(q, a.key)
                                /\ e.d.state # "active"

\* The maps a replay builds.
SoundMaps(s) ==
    /\ s = [ok |-> TRUE, exposures |-> s.exposures, requests |-> s.requests]
    /\ s.exposures = [k \in DOMAIN s.exposures |-> s.exposures[k]]
    /\ DOMAIN s.exposures \subseteq ExposureKeys
    /\ \A k \in DOMAIN s.exposures : s.exposures[k] \in CreateRecords
                                     /\ s.exposures[k].d.key = k
    /\ \A q \in DOMAIN s.requests : RequestIsTrue(s, q)
    /\ \A k \in DOMAIN s.exposures : \E g \in DOMAIN s.exposures :
          g[1] = k[1] /\ \A l \in DOMAIN s.exposures : l[1] = k[1] => l[2] <= g[2]

\* Every generation but the latest is over.
OldAreOver(ex, now) ==
    \A k, l \in DOMAIN ex : k[1] = l[1] /\ k[2] < l[2] => ~Live(ex[k], now)

\* Every exposure is inside a root that allows it.
PlacedIn(e, base) ==
    /\ base.root_id = e.d.root_id /\ e.host_path # base.host_root
    /\ path_within(e.host_path, base.host_root)
    /\ WithinPolicy(e.d.modes, e.d.runtimes, base)
AllPlaced(ex, rs) == \A k \in DOMAIN ex : \E base \in rs : PlacedIn(ex[k], base)

\* What callers were told.
ToldOf(e) == [request_id |-> e.request_id, digest |-> e.digest, key |-> e.d.key,
              scope |-> e.d.scope, parent |-> e.parent]
ToldIn(s, a) ==
    /\ a.request_id \in DOMAIN s.requests
    /\ s.requests[a.request_id].kind = "create"
    /\ a = ToldOf(s.exposures[s.requests[a.request_id].key])
RevokedIn(s, key) == key \in DOMAIN s.exposures /\ s.exposures[key].d.state # "active"
AnswersIn(s, told_, revoked_) ==
    (\A a \in told_ : ToldIn(s, a)) /\ (\A key \in revoked_ : RevokedIn(s, key))

\* A log a daemon may find, whatever policy it starts with.
LogSound(log, now, told_, revoked_) ==
    /\ log \in Seq(JournalRecords)
    /\ \A rs \in RootSets : Replay(log, rs).ok =>
          /\ SoundMaps(Replay(log, rs))
          /\ OldAreOver(Replay(log, rs).exposures, now)
          /\ AllPlaced(Replay(log, rs).exposures, rs)
          /\ AnswersIn(Replay(log, rs), told_, revoked_)
    /\ \A rs, qs \in RootSets : Replay(log, rs).ok =>
          /\ Replay(log, qs).ok => Replay(log, rs) = Replay(log, qs)
          /\ Covers(rs, qs) => Replay(log, qs).ok
    /\ \A pol \in Policies : Widest(pol) => Replay(log, pol).ok

LogInv(log) == LogSound(log, clock, created, revoked)

\* The file as it is, with a record that is wholly behind its end, and as it
\* will be when the record in hand is written.
Logs ==
    {disk} \cup (IF tail = None \/ tail.record = None THEN {} ELSE {Append(disk, tail.record)})
           \cup (IF writing = None THEN {} ELSE {Append(disk, writing)})

Memory == [ok |-> TRUE, exposures |-> exposures, requests |-> request_records]

\* One answer to a request, and every log keeps it.
LogsInv ==
    /\ \A a, b \in created : a.request_id = b.request_id => a = b
    /\ \A log \in Logs : LogInv(log)

ExposureTypes ==
    /\ policy \in Policies /\ fs \in Trees /\ clock \in Nat /\ up \in BOOLEAN
    /\ writing # None => writing \in JournalRecords
    /\ tail # None => /\ tail = [bytes |-> tail.bytes, record |-> tail.record]
                      /\ tail.record # None => tail.record \in JournalRecords

\* What the daemon that is up has opened and loaded.
OpenInv ==
    /\ ~up => writing = None /\ resolving = None /\ resolved = None
    /\ up => /\ \E pol \in Policies, t \in Trees : build(pol) /\ roots = RootsOf(pol, t)
             /\ Replay(disk, roots) = Memory
             /\ writing # None => Replays(Memory, writing, roots)

\* What a grant in hand was checked for.
GrantInv ==
    /\ resolving # None =>
          /\ resolving.grant.key \in DOMAIN exposures
          /\ resolving.grant.mode.max_bytes \in Nat
          /\ mode_is_subset(resolving.grant.mode, exposures[resolving.grant.key].d.modes)
    /\ resolved # None =>
          /\ resolved = [grant |-> resolved.grant, host_path |-> resolved.host_path,
                         identity |-> resolved.identity, launched |-> resolved.launched]
          /\ resolved.grant.key \in DOMAIN exposures
          /\ resolved.identity = exposures[resolved.grant.key].d.source

ExposureInv ==
    ExposureTypes /\ LogsInv /\ OpenInv /\ GrantInv

-----------------------------------------------------------------------------
(* The replay of a log, one record at a time.                               *)

Blank == [ok |-> TRUE, exposures |-> Empty, requests |-> Empty]

\* The loop behind Replay is defined.
LEMMA ReplayExists ==
    ASSUME NEW log, NEW rs, NEW n \in Nat
    PROVE  \E f : /\ f = [i \in 0 .. n |-> f[i]] /\ f[0] = Blank
                 /\ \A i \in 1 .. n : f[i] = Replayed(f[i - 1], log[i], rs)
<1> DEFINE Loops(m, f) ==
             /\ f = [i \in 0 .. m |-> f[i]] /\ f[0] = Blank
             /\ \A i \in 1 .. m : f[i] = Replayed(f[i - 1], log[i], rs)
           Bad == {m \in Nat : ~\E f : Loops(m, f)}
<1> SUFFICES ASSUME Bad # {}
             PROVE  FALSE
  OBVIOUS
<1>1. PICK m \in Bad : \A k \in Bad : m <= k
  BY LeastOf
<1>2. m \in Nat /\ ~\E f : Loops(m, f)
  OBVIOUS
<1>3. m # 0
  <2> SUFFICES ASSUME m = 0
               PROVE  FALSE
    OBVIOUS
  <2> DEFINE f == [i \in 0 .. 0 |-> Blank]
  <2>1. f[0] = Blank /\ f = [i \in 0 .. 0 |-> f[i]] /\ \A i \in 1 .. 0 : FALSE
    OBVIOUS
  <2> QED
    BY <1>2, <2>1
<1>4. m - 1 \in Nat /\ m - 1 \notin Bad
  <2>1. m - 1 \in Nat /\ ~(m <= m - 1)
    BY <1>2, <1>3
  <2> HIDE DEF Bad
  <2> QED
    BY <1>1, <2>1
<1>5. PICK f : Loops(m - 1, f)
  BY <1>4
<1> DEFINE g == [i \in 0 .. m |-> IF i < m THEN f[i] ELSE Replayed(f[m - 1], log[m], rs)]
<1>6. Loops(m, g)
  <2>1. g = [i \in 0 .. m |-> g[i]] /\ g[0] = Blank
    BY <1>2, <1>3, <1>5
  <2>2. ASSUME NEW i \in 1 .. m
        PROVE  g[i] = Replayed(g[i - 1], log[i], rs)
    <3>1. i \in 0 .. m /\ i - 1 \in 0 .. m /\ i - 1 < m /\ g[i - 1] = f[i - 1]
      BY <1>2
    <3>2. CASE i = m
      BY <1>2, <1>3, <3>1, <3>2
    <3>3. CASE i # m
      <4>1. i < m /\ i \in 1 .. (m - 1)
        BY <1>2, <3>3
      <4> QED
        BY <1>5, <3>1, <4>1
    <3> QED
      BY <3>2, <3>3
  <2> QED
    BY <2>1, <2>2
<1> QED
  BY <1>2, <1>6

\* f holds what each of the first n records left.
ReplayedBy(f, log, rs, n) ==
    /\ Replay(log, rs) = f[n] /\ f[0] = Blank
    /\ \A i \in 1 .. n : f[i] = Replayed(f[i - 1], log[i], rs)

LEMMA ReplayTurns ==
    ASSUME NEW log, NEW rs, NEW n \in Nat, n = Len(log)
    PROVE  \E f : ReplayedBy(f, log, rs, n)
<1> DEFINE Loops(f) ==
             f = [i \in 0 .. n |-> IF i = 0 THEN Blank ELSE Replayed(f[i - 1], log[i], rs)]
           p == CHOOSE f : Loops(f)
<1>1. Loops(p)
  <2>1. PICK f : /\ f = [i \in 0 .. n |-> f[i]] /\ f[0] = Blank
                 /\ \A i \in 1 .. n : f[i] = Replayed(f[i - 1], log[i], rs)
    BY ReplayExists
  <2>2. ASSUME NEW i \in 0 .. n
        PROVE  f[i] = IF i = 0 THEN Blank ELSE Replayed(f[i - 1], log[i], rs)
    <3>1. CASE i = 0
      BY <2>1, <3>1
    <3>2. CASE i # 0
      <4>1. i \in 1 .. n
        BY <3>2
      <4> QED
        BY <2>1, <3>2, <4>1
    <3> QED
      BY <3>1, <3>2
  <2>3. Loops(f)
    BY <2>1, <2>2
  <2> HIDE DEF Loops
  <2> QED
    BY <2>3
<1>2. Replay(log, rs) = p[n]
  BY DEF Replay, Blank
<1> HIDE DEF p
<1>3. 0 \in 0 .. n /\ \A i \in 1 .. n : i \in 0 .. n /\ i # 0
  OBVIOUS
<1>4. p[0] = Blank /\ \A i \in 1 .. n : p[i] = Replayed(p[i - 1], log[i], rs)
  BY <1>1, <1>3
<1>5. ReplayedBy(p, log, rs, n)
  BY <1>2, <1>4 DEF ReplayedBy
<1> QED
  BY <1>5

LEMMA ReplayNothing ==
    ASSUME NEW rs
    PROVE  Replay(<<>>, rs) = Blank
<1>1. Len(<<>>) = 0 /\ 0 \in Nat
  OBVIOUS
<1>2. PICK f : ReplayedBy(f, <<>>, rs, 0)
  BY <1>1, ReplayTurns
<1> QED
  BY <1>2 DEF ReplayedBy

\* The last record is replayed over what the records before it gave.
LEMMA ReplayAppend ==
    ASSUME NEW T, NEW log \in Seq(T), NEW r \in T, NEW rs
    PROVE  Replay(Append(log, r), rs) = Replayed(Replay(log, rs), r, rs)
<1> DEFINE n == Len(log)
           more == Append(log, r)
<1>1. /\ n \in Nat /\ n + 1 \in Nat /\ Len(more) = n + 1 /\ more[n + 1] = r
      /\ \A i \in 1 .. n : more[i] = log[i]
  OBVIOUS
<1> HIDE DEF more, n
<1>2. PICK f : /\ Replay(log, rs) = f[n] /\ f[0] = Blank
               /\ \A i \in 1 .. n : f[i] = Replayed(f[i - 1], log[i], rs)
  <2>1. PICK f : ReplayedBy(f, log, rs, n)
    BY <1>1, ReplayTurns DEF n
  <2> QED
    BY <2>1 DEF ReplayedBy
<1>3. PICK g : /\ Replay(more, rs) = g[n + 1] /\ g[0] = Blank
               /\ \A i \in 1 .. n + 1 : g[i] = Replayed(g[i - 1], more[i], rs)
  <2>1. PICK g : ReplayedBy(g, more, rs, n + 1)
    BY <1>1, ReplayTurns
  <2> QED
    BY <2>1 DEF ReplayedBy
<1> DEFINE Bad == {m \in 0 .. n : f[m] # g[m]}
<1>4. Bad = {}
  <2> SUFFICES ASSUME Bad # {}
               PROVE  FALSE
    OBVIOUS
  <2>1. PICK m \in Bad : \A k \in Bad : m <= k
    BY LeastOf, Bad \in SUBSET Nat
  <2>2. m \in 0 .. n /\ f[m] # g[m] /\ m # 0
    BY <1>2, <1>3
  <2>3. m \in 1 .. n /\ m \in 1 .. n + 1 /\ m - 1 \in 0 .. n /\ ~(m <= m - 1)
    BY <1>1, <2>2
  <2>4. f[m - 1] = g[m - 1]
    BY <2>1, <2>3
  <2>5. f[m] = Replayed(f[m - 1], log[m], rs) /\ g[m] = Replayed(g[m - 1], more[m], rs)
    BY <1>2, <1>3, <2>3
  <2> QED
    BY <1>1, <2>2, <2>3, <2>4, <2>5
<1>5. f[n] = g[n] /\ n + 1 \in 1 .. n + 1 /\ (n + 1) - 1 = n
  BY <1>1, <1>4
<1>6. g[n + 1] = Replayed(g[n], r, rs)
  BY <1>1, <1>3, <1>5
<1> QED
  BY <1>2, <1>3, <1>5, <1>6 DEF more

\* A log that replays did so before its last record too.
LEMMA ReplayStep ==
    ASSUME NEW T, NEW log \in Seq(T), NEW r \in T, NEW rs
    PROVE  /\ Replay(Append(log, r), rs).ok => Replay(log, rs).ok /\ Replays(Replay(log, rs), r, rs)
           /\ Replays(Replay(log, rs), r, rs) =>
                 Replay(Append(log, r), rs) = Recorded(Replay(log, rs), r)
<1>1. Replay(Append(log, r), rs) = Replayed(Replay(log, rs), r, rs)
  BY ReplayAppend
<1>2. Replays(Replay(log, rs), r, rs) => Replay(log, rs).ok
  BY DEF Replays
<1>3. Replayed(Replay(log, rs), r, rs) = IF Replays(Replay(log, rs), r, rs)
                                          THEN Recorded(Replay(log, rs), r)
                                          ELSE [ok |-> FALSE, exposures |-> Empty, requests |-> Empty]
  BY DEF Replayed
<1>4. [ok |-> FALSE, exposures |-> Empty, requests |-> Empty].ok = FALSE
  OBVIOUS
<1> QED
  BY <1>1, <1>2, <1>3, <1>4

-----------------------------------------------------------------------------
(* Policies and the roots opened from them.                                 *)

LEMMA RootFacts ==
    ASSUME NEW rs \in RootSets, NEW r \in rs
    PROVE  r.host_root \in DOMAIN Tree /\ Unsigned(r.modes)
<1>1. CASE rs \in Policies
  BY <1>1, ExposureAssumption
<1>2. CASE rs \in {RootsOf(pol, t) : pol \in Policies, t \in Trees}
  <2>1. PICK pol \in Policies, t \in Trees : rs = RootsOf(pol, t)
    BY <1>2
  <2>2. PICK x \in pol : r.host_root = x.host_root /\ r.modes = x.modes
    BY <2>1 DEF RootsOf
  <2> QED
    BY <2>2, ExposureAssumption
<1> QED
  BY <1>1, <1>2 DEF RootSets

LEMMA ModeWithin ==
    ASSUME NEW modes, NEW allowed, NEW want, want.max_bytes \in Nat,
           Unsigned(modes), Unsigned(allowed),
           mode_is_subset(want, modes), \A m \in modes : mode_is_subset(m, allowed)
    PROVE  mode_is_subset(want, allowed)
<1>1. PICK m \in modes : /\ m.access = want.access /\ m.materialization = want.materialization
                         /\ m.cleanup_policy = want.cleanup_policy
                         /\ want.max_bytes <= m.max_bytes
  BY DEF mode_is_subset
<1>2. PICK a \in allowed : /\ a.access = m.access /\ a.materialization = m.materialization
                           /\ a.cleanup_policy = m.cleanup_policy
                           /\ m.max_bytes <= a.max_bytes
  BY DEF mode_is_subset
<1>3. want.max_bytes <= a.max_bytes
  BY <1>1, <1>2 DEF Unsigned
<1> QED
  BY <1>1, <1>2, <1>3 DEF mode_is_subset

LEMMA PolicyWithin ==
    ASSUME NEW modes, NEW runtimes, NEW r, NEW w, Unsigned(modes), Unsigned(r.modes),
           Unsigned(w.modes), WithinPolicy(modes, runtimes, r),
           WithinPolicy(r.modes, r.runtimes, w)
    PROVE  WithinPolicy(modes, runtimes, w)
<1>1. ASSUME NEW m \in modes
      PROVE  mode_is_subset(m, w.modes)
  BY ModeWithin DEF WithinPolicy, Unsigned
<1> QED
  BY <1>1 DEF WithinPolicy

LEMMA OwnPolicy ==
    ASSUME NEW r, NEW w, w.modes = r.modes, w.runtimes = r.runtimes, Unsigned(r.modes)
    PROVE  WithinPolicy(r.modes, r.runtimes, w)
BY DEF WithinPolicy, Unsigned, mode_is_subset

\* What is opened of a policy allows as much as the policy, and a policy that
\* covers every other covers it too.
LEMMA OpenedCovers ==
    ASSUME NEW pol \in Policies, NEW t \in Trees
    PROVE  /\ RootsOf(pol, t) \in RootSets /\ pol \in RootSets
           /\ Covers(pol, RootsOf(pol, t))
           /\ \A wide \in Policies : Widest(wide) => Covers(RootsOf(pol, t), wide)
<1> DEFINE open(r) == [root_id |-> r.root_id, host_root |-> r.host_root, modes |-> r.modes,
                       max_ttl |-> r.max_ttl, runtimes |-> r.runtimes,
                       identity |-> t[r.host_root]]
<1>1. RootsOf(pol, t) \in RootSets /\ pol \in RootSets
  BY DEF RootSets
<1>2. RootsOf(pol, t) = {open(r) : r \in pol}
  BY DEF RootsOf
<1>3. \A r \in pol : /\ open(r).root_id = r.root_id /\ open(r).host_root = r.host_root
                     /\ open(r).modes = r.modes /\ open(r).runtimes = r.runtimes
  OBVIOUS
<1> HIDE DEF open
<1>4. ASSUME NEW r \in pol
      PROVE  \E w \in RootsOf(pol, t) : w.root_id = r.root_id /\ w.host_root = r.host_root
                                        /\ WithinPolicy(r.modes, r.runtimes, w)
  <2>1. Unsigned(r.modes) /\ open(r) \in RootsOf(pol, t)
    BY <1>2, ExposureAssumption
  <2> QED
    BY <1>3, <2>1, OwnPolicy
<1>5. ASSUME NEW wide \in Policies, Widest(wide), NEW o \in RootsOf(pol, t)
      PROVE  \E w \in wide : w.root_id = o.root_id /\ w.host_root = o.host_root
                             /\ WithinPolicy(o.modes, o.runtimes, w)
  <2>1. PICK r \in pol : o = open(r)
    BY <1>2
  <2>2. \E w \in wide : w.root_id = r.root_id /\ w.host_root = r.host_root
                        /\ WithinPolicy(r.modes, r.runtimes, w)
    BY <1>5 DEF Widest, Covers
  <2> QED
    BY <1>3, <2>1, <2>2
<1> QED
  BY <1>1, <1>4, <1>5 DEF Covers

\* A record names modes of a creation.
LEMMA RecordModes ==
    ASSUME NEW e \in CreateRecords
    PROVE  Unsigned(e.d.modes) /\ e.host_path \in DOMAIN Tree /\ e.host_path \in Seq(STRING)
           /\ e.host_path # <<>> /\ Front(e.host_path) \in DOMAIN Tree
<1>1. e.d.modes \in ModeSets /\ e.host_path \in {c.host_path : c \in Creations}
  BY DEF CreateRecords, Descriptors
<1>2. PICK c \in Creations : e.d.modes = ToSet(c.modes)
  BY <1>1 DEF ModeSets
<1>3. PICK b \in Creations : e.host_path = b.host_path
  BY <1>1
<1>4. Unsigned(ToSet(c.modes))
  BY ExposureAssumption
<1>5. /\ b.host_path \in DOMAIN Tree /\ b.host_path # <<>> /\ DOMAIN Tree \subseteq Seq(STRING)
      /\ Front(b.host_path) \in DOMAIN Tree
  BY ExposureAssumption
<1> QED
  BY <1>2, <1>3, <1>4, <1>5

\* A record that replays under some roots does so under wider ones.
LEMMA WiderReplays ==
    ASSUME NEW rs \in RootSets, NEW qs \in RootSets, Covers(rs, qs), NEW s,
           NEW r \in JournalRecords, Replays(s, r, rs)
    PROVE  Replays(s, r, qs)
<1>1. CASE r.kind = "create"
  <2>1. r \in CreateRecords
    BY <1>1 DEF JournalRecords, RevokeRecords
  <2>2. CreateReplays(s, r, rs)
    BY <1>1 DEF Replays
  <2>3. PICK base \in rs : /\ base.root_id = r.d.root_id /\ r.host_path # base.host_root
                           /\ path_within(r.host_path, base.host_root)
                           /\ WithinPolicy(r.d.modes, r.d.runtimes, base)
    BY <2>2 DEF CreateReplays
  <2>4. PICK w \in qs : /\ w.root_id = base.root_id /\ w.host_root = base.host_root
                        /\ WithinPolicy(base.modes, base.runtimes, w)
    BY DEF Covers
  <2>5. Unsigned(base.modes) /\ Unsigned(w.modes) /\ Unsigned(r.d.modes)
    BY <2>1, RootFacts, RecordModes
  <2>6. WithinPolicy(r.d.modes, r.d.runtimes, w)
    BY <2>3, <2>4, <2>5, PolicyWithin
  <2>7. \E root_ \in qs : /\ root_.root_id = r.d.root_id /\ r.host_path # root_.host_root
                          /\ path_within(r.host_path, root_.host_root)
                          /\ WithinPolicy(r.d.modes, r.d.runtimes, root_)
    BY <2>3, <2>4, <2>6
  <2>8. CreateReplays(s, r, qs)
    BY <2>2, <2>7 DEF CreateReplays
  <2> QED
    BY <1>1, <2>8 DEF Replays
<1>2. CASE r.kind # "create"
  BY <1>2 DEF Replays
<1> QED
  BY <1>1, <1>2

-----------------------------------------------------------------------------
(* What one record does to the maps.                                        *)

LEMMA LastGeneration ==
    ASSUME NEW s, SoundMaps(s), NEW id
    PROVE  LET g == last_generation(s.exposures, id)
           IN  /\ g \in Nat
               /\ \A l \in DOMAIN s.exposures : l[1] = id => l[2] <= g /\ <<id, g>> \in DOMAIN s.exposures
               /\ (\A l \in DOMAIN s.exposures : l[1] # id) => g = 0
<1> DEFINE gens == {key[2] : key \in {k \in DOMAIN s.exposures : k[1] = id}}
           g == last_generation(s.exposures, id)
<1>1. g = IF gens = {} THEN 0 ELSE CHOOSE x \in gens : \A h \in gens : h <= x
  BY DEF last_generation
<1>2. \A l \in DOMAIN s.exposures : l \in ExposureKeys /\ l[2] \in Nat /\ l = <<l[1], l[2]>>
  BY DEF SoundMaps, ExposureKeys
<1>3. CASE \A l \in DOMAIN s.exposures : l[1] # id
  <2>1. gens = {}
    BY <1>3
  <2>2. g = 0
    BY <1>1, <2>1
  <2> QED
    BY <1>3, <2>2
<1>4. CASE \E l \in DOMAIN s.exposures : l[1] = id
  <2>1. PICK l \in DOMAIN s.exposures : l[1] = id
    BY <1>4
  <2>2. PICK k \in DOMAIN s.exposures :
            k[1] = id /\ \A m \in DOMAIN s.exposures : m[1] = id => m[2] <= k[2]
    BY <2>1 DEF SoundMaps
  <2>3. k[2] \in gens /\ \A h \in gens : h <= k[2]
    BY <2>2
  <2>4. gens # {} /\ \E x \in gens : \A h \in gens : h <= x
    BY <2>3
  <2> HIDE DEF gens
  <2>5. g \in gens /\ \A h \in gens : h <= g
    BY <1>1, <2>4
  <2> USE DEF gens
  <2> HIDE DEF g
  <2>6. PICK m \in DOMAIN s.exposures : m[1] = id /\ g = m[2]
    BY <2>5
  <2>7. <<id, g>> \in DOMAIN s.exposures /\ g \in Nat
    BY <1>2, <2>6
  <2>8. \A m_ \in DOMAIN s.exposures : m_[1] = id => m_[2] <= g
    BY <2>5
  <2> QED
    BY <2>1, <2>7, <2>8 DEF g
<1> QED
  BY <1>3, <1>4

\* A creation adds its exposure and its request, and nothing else changes.
AddsExposure(s, x, r, rs) ==
    /\ x = [ok |-> TRUE, exposures |-> x.exposures, requests |-> x.requests]
    /\ x.exposures = [k \in DOMAIN x.exposures |-> x.exposures[k]]
    /\ DOMAIN x.exposures = DOMAIN s.exposures \cup {r.d.key}
    /\ r.d.key \notin DOMAIN s.exposures /\ x.exposures[r.d.key] = r
    /\ \A k \in DOMAIN s.exposures : x.exposures[k] = s.exposures[k]
    /\ DOMAIN x.requests = DOMAIN s.requests \cup {r.request_id}
    /\ r.request_id \notin DOMAIN s.requests
    /\ x.requests[r.request_id].kind = "create"
    /\ x.requests[r.request_id].digest = r.digest
    /\ x.requests[r.request_id].key = r.d.key
    /\ \A q \in DOMAIN s.requests : x.requests[q] = s.requests[q]
    /\ r.d.key \in ExposureKeys
    /\ r.d.key[2] = last_generation(s.exposures, r.d.key[1]) + 1
    /\ \E base \in rs : PlacedIn(r, base)

LEMMA CreateFacts ==
    ASSUME NEW s, SoundMaps(s), NEW r \in CreateRecords, NEW rs, Replays(s, r, rs)
    PROVE  AddsExposure(s, Recorded(s, r), r, rs)
<1> DEFINE x == Recorded(s, r)
           id == r.d.key[1]
<1>1. r.kind = "create" /\ r.d.key \in ExposureKeys
  BY DEF CreateRecords, Descriptors
<1>2. CreateReplays(s, r, rs) /\ s.ok
  BY <1>1 DEF Replays
<1>3. x = [ok |-> s.ok, exposures |-> With(s.exposures, r.d.key, r),
           requests |-> With(s.requests, r.request_id,
                             [kind |-> r.kind, digest |-> r.digest, key |-> r.d.key])]
  BY <1>1 DEF Recorded
<1>4. s.ok = TRUE
  BY <1>2 DEF SoundMaps
<1> HIDE DEF x
<1>5. /\ x.exposures = With(s.exposures, r.d.key, r)
      /\ x.requests = With(s.requests, r.request_id,
                           [kind |-> r.kind, digest |-> r.digest, key |-> r.d.key])
  BY <1>3
<1>6. x = [ok |-> TRUE, exposures |-> x.exposures, requests |-> x.requests]
  BY <1>3, <1>4, <1>5
<1>7. /\ x.exposures = [k \in DOMAIN x.exposures |-> x.exposures[k]]
      /\ DOMAIN x.exposures = DOMAIN s.exposures \cup {r.d.key} /\ x.exposures[r.d.key] = r
      /\ \A k \in DOMAIN s.exposures : k # r.d.key => x.exposures[k] = s.exposures[k]
  BY <1>5 DEF With
<1>8. /\ r.request_id \notin DOMAIN s.requests
      /\ r.d.key[2] = last_generation(s.exposures, id) + 1
      /\ \E base \in rs : PlacedIn(r, base)
  BY <1>2 DEF CreateReplays, PlacedIn
<1>9. r.d.key \notin DOMAIN s.exposures
  <2> SUFFICES ASSUME r.d.key \in DOMAIN s.exposures
               PROVE  FALSE
    OBVIOUS
  <2> DEFINE g == last_generation(s.exposures, id)
  <2>1. g \in Nat /\ r.d.key[2] <= g
    BY LastGeneration
  <2> HIDE DEF g
  <2>2. r.d.key[2] = g + 1
    BY <1>8 DEF g
  <2> QED
    BY <2>1, <2>2
<1>10. /\ DOMAIN x.requests = DOMAIN s.requests \cup {r.request_id}
       /\ x.requests[r.request_id] = [kind |-> r.kind, digest |-> r.digest, key |-> r.d.key]
       /\ \A q \in DOMAIN s.requests : x.requests[q] = s.requests[q]
  BY <1>5, <1>8 DEF With
<1>11. /\ x.requests[r.request_id].kind = "create"
       /\ x.requests[r.request_id].digest = r.digest
       /\ x.requests[r.request_id].key = r.d.key
  BY <1>1, <1>10
<1>12. \A k \in DOMAIN s.exposures : x.exposures[k] = s.exposures[k]
  BY <1>7, <1>9
<1> QED
  BY <1>1, <1>6, <1>7, <1>8, <1>9, <1>10, <1>11, <1>12, Zenon DEF x, AddsExposure

\* A revocation changes the state of an active exposure, and nothing else of it.
RevokesExposure(s, x, r) ==
    /\ x = [ok |-> TRUE, exposures |-> x.exposures, requests |-> x.requests]
    /\ x.exposures = [k \in DOMAIN x.exposures |-> x.exposures[k]]
    /\ DOMAIN x.exposures = DOMAIN s.exposures /\ r.key \in DOMAIN s.exposures
    /\ \A k \in DOMAIN s.exposures : k # r.key => x.exposures[k] = s.exposures[k]
    /\ x.exposures[r.key] \in CreateRecords
    /\ x.exposures[r.key].d.state = r.state /\ r.state # "active"
    /\ x.exposures[r.key].request_id = s.exposures[r.key].request_id
    /\ x.exposures[r.key].digest = s.exposures[r.key].digest
    /\ x.exposures[r.key].host_path = s.exposures[r.key].host_path
    /\ x.exposures[r.key].parent = s.exposures[r.key].parent
    /\ x.exposures[r.key].d.key = s.exposures[r.key].d.key
    /\ x.exposures[r.key].d.root_id = s.exposures[r.key].d.root_id
    /\ x.exposures[r.key].d.source = s.exposures[r.key].d.source
    /\ x.exposures[r.key].d.modes = s.exposures[r.key].d.modes
    /\ x.exposures[r.key].d.runtimes = s.exposures[r.key].d.runtimes
    /\ x.exposures[r.key].d.scope = s.exposures[r.key].d.scope
    /\ DOMAIN x.requests = DOMAIN s.requests \cup {r.request_id}
    /\ r.request_id \notin DOMAIN s.requests
    /\ x.requests[r.request_id].kind = "revoke"
    /\ x.requests[r.request_id].digest = revoke_request_digest(r.request_id, r.key)
    /\ x.requests[r.request_id].key = r.key
    /\ \A q \in DOMAIN s.requests : x.requests[q] = s.requests[q]

LEMMA RevokeFacts ==
    ASSUME NEW s, SoundMaps(s), NEW r \in RevokeRecords, NEW rs, Replays(s, r, rs)
    PROVE  RevokesExposure(s, Recorded(s, r), r)
<1> DEFINE x == Recorded(s, r)
           e == s.exposures[r.key]
<1>1. r.kind = "revoke" /\ r.kind # "create" /\ r.state \in {"revoked", "expired"}
      /\ r.state # "active"
  BY DEF RevokeRecords
<1>2. RevokeReplays(s, r) /\ s.ok
  BY <1>1 DEF Replays
<1>3. x = [ok |-> s.ok, exposures |-> [s.exposures EXCEPT ![r.key].d.state = r.state],
           requests |-> With(s.requests, r.request_id,
                             [kind |-> r.kind, digest |-> r.digest, key |-> r.key])]
  BY <1>1 DEF Recorded
<1>4. s.ok = TRUE /\ r.key \in DOMAIN s.exposures /\ e \in CreateRecords
  BY <1>2 DEF SoundMaps, RevokeReplays
<1> HIDE DEF x
<1>5. /\ x.exposures = [s.exposures EXCEPT ![r.key].d.state = r.state]
      /\ x.requests = With(s.requests, r.request_id,
                           [kind |-> r.kind, digest |-> r.digest, key |-> r.key])
  BY <1>3
<1>6. x = [ok |-> TRUE, exposures |-> x.exposures, requests |-> x.requests]
  BY <1>3, <1>4, <1>5
<1>7. /\ x.exposures = [k \in DOMAIN x.exposures |-> x.exposures[k]]
      /\ DOMAIN x.exposures = DOMAIN s.exposures
      /\ x.exposures[r.key] = [e EXCEPT !.d.state = r.state]
      /\ \A k \in DOMAIN s.exposures : k # r.key => x.exposures[k] = s.exposures[k]
  BY <1>4, <1>5
<1> DEFINE f == [e EXCEPT !.d.state = r.state]
<1>8. /\ f \in CreateRecords /\ f.d.state = r.state
      /\ f.request_id = e.request_id /\ f.digest = e.digest /\ f.host_path = e.host_path
      /\ f.parent = e.parent /\ f.d.key = e.d.key /\ f.d.root_id = e.d.root_id
      /\ f.d.source = e.d.source /\ f.d.modes = e.d.modes /\ f.d.runtimes = e.d.runtimes
      /\ f.d.scope = e.d.scope
  <2> HIDE DEF e
  <2> QED
    BY <1>1, <1>4 DEF CreateRecords, Descriptors
<1> HIDE DEF f
<1>9. x.exposures[r.key] = f
  BY <1>7 DEF f
<1>10. r.request_id \notin DOMAIN s.requests /\ r.digest = revoke_request_digest(r.request_id, r.key)
  BY <1>2 DEF RevokeReplays
<1>11. /\ DOMAIN x.requests = DOMAIN s.requests \cup {r.request_id}
       /\ x.requests[r.request_id] = [kind |-> r.kind, digest |-> r.digest, key |-> r.key]
       /\ \A q \in DOMAIN s.requests : x.requests[q] = s.requests[q]
  BY <1>5, <1>10 DEF With
<1>12. /\ x.requests[r.request_id].kind = "revoke"
       /\ x.requests[r.request_id].digest = revoke_request_digest(r.request_id, r.key)
       /\ x.requests[r.request_id].key = r.key
  BY <1>1, <1>10, <1>11
<1> QED
  BY <1>1, <1>4, <1>6, <1>7, <1>8, <1>9, <1>10, <1>11, <1>12, Zenon DEF x, e, RevokesExposure

\* A record that replays keeps the maps sound.
LEMMA MapsStaySound ==
    ASSUME NEW s, SoundMaps(s), NEW r \in JournalRecords, NEW rs, Replays(s, r, rs)
    PROVE  SoundMaps(Recorded(s, r))
<1> DEFINE x == Recorded(s, r)
<1>1. CASE r \in CreateRecords
  <2>0. AddsExposure(s, x, r, rs)
    BY <1>1, CreateFacts
  <2> HIDE DEF x
  <2>1. /\ x = [ok |-> TRUE, exposures |-> x.exposures, requests |-> x.requests]
        /\ x.exposures = [k \in DOMAIN x.exposures |-> x.exposures[k]]
        /\ DOMAIN x.exposures = DOMAIN s.exposures \cup {r.d.key}
        /\ r.d.key \notin DOMAIN s.exposures /\ x.exposures[r.d.key] = r
        /\ \A k \in DOMAIN s.exposures : x.exposures[k] = s.exposures[k]
        /\ DOMAIN x.requests = DOMAIN s.requests \cup {r.request_id}
        /\ r.request_id \notin DOMAIN s.requests
        /\ x.requests[r.request_id].kind = "create"
        /\ x.requests[r.request_id].digest = r.digest
        /\ x.requests[r.request_id].key = r.d.key
        /\ \A q \in DOMAIN s.requests : x.requests[q] = s.requests[q]
        /\ r.d.key \in ExposureKeys
        /\ r.d.key[2] = last_generation(s.exposures, r.d.key[1]) + 1
    BY <1>1, <2>0 DEF AddsExposure
  <2>2. DOMAIN x.exposures \subseteq ExposureKeys
    BY <2>1 DEF SoundMaps
  <2>3. ASSUME NEW k \in DOMAIN x.exposures
        PROVE  x.exposures[k] \in CreateRecords /\ x.exposures[k].d.key = k
    BY <1>1, <2>1 DEF SoundMaps
  <2>4. ASSUME NEW q \in DOMAIN x.requests
        PROVE  RequestIsTrue(x, q)
    <3>1. CASE q = r.request_id
      BY <2>1, <3>1 DEF RequestIsTrue
    <3>2. CASE q \in DOMAIN s.requests
      <4>1. RequestIsTrue(s, q)
        BY <3>2 DEF SoundMaps
      <4>2. x.requests[q] = s.requests[q] /\ s.requests[q].key \in DOMAIN s.exposures
        BY <2>1, <3>2, <4>1 DEF RequestIsTrue
      <4>3. /\ x.exposures[x.requests[q].key] = s.exposures[s.requests[q].key]
            /\ x.requests[q].key \in DOMAIN x.exposures
        BY <2>1, <4>2
      <4> QED
        BY <4>1, <4>2, <4>3 DEF RequestIsTrue
    <3> QED
      BY <2>1, <3>1, <3>2
  <2>5. ASSUME NEW k \in DOMAIN x.exposures
        PROVE  \E g \in DOMAIN x.exposures :
                  g[1] = k[1] /\ \A l \in DOMAIN x.exposures : l[1] = k[1] => l[2] <= g[2]
    <3>1. CASE k[1] = r.d.key[1]
      <4> DEFINE n == last_generation(s.exposures, r.d.key[1])
      <4>1. n \in Nat /\ \A l \in DOMAIN s.exposures : l[1] = r.d.key[1] => l[2] <= n
        BY LastGeneration
      <4>2. r.d.key[2] = n + 1
        BY <2>1
      <4> HIDE DEF n
      <4>3. \A l \in DOMAIN x.exposures : l[2] \in Nat
        BY <2>2 DEF ExposureKeys
      <4>4. \A l \in DOMAIN x.exposures : l[1] = k[1] => l[2] <= r.d.key[2]
        BY <2>1, <3>1, <4>1, <4>2, <4>3
      <4> QED
        BY <2>1, <3>1, <4>4
    <3>2. CASE k[1] # r.d.key[1]
      <4>1. k \in DOMAIN s.exposures
        BY <2>1, <3>2
      <4>2. PICK g \in DOMAIN s.exposures :
                g[1] = k[1] /\ \A l \in DOMAIN s.exposures : l[1] = k[1] => l[2] <= g[2]
        BY <4>1 DEF SoundMaps
      <4> QED
        BY <2>1, <3>2, <4>2
    <3> QED
      BY <3>1, <3>2
  <2> QED
    BY <2>1, <2>2, <2>3, <2>4, <2>5 DEF SoundMaps, x
<1>2. CASE r \in RevokeRecords
  <2>0. RevokesExposure(s, x, r)
    BY <1>2, RevokeFacts
  <2> HIDE DEF x
  <2>1. /\ x = [ok |-> TRUE, exposures |-> x.exposures, requests |-> x.requests]
        /\ x.exposures = [k \in DOMAIN x.exposures |-> x.exposures[k]]
        /\ DOMAIN x.exposures = DOMAIN s.exposures /\ r.key \in DOMAIN s.exposures
        /\ \A k \in DOMAIN s.exposures : k # r.key => x.exposures[k] = s.exposures[k]
        /\ x.exposures[r.key] \in CreateRecords
        /\ x.exposures[r.key].d.state = r.state /\ r.state # "active"
        /\ x.exposures[r.key].request_id = s.exposures[r.key].request_id
        /\ x.exposures[r.key].digest = s.exposures[r.key].digest
        /\ x.exposures[r.key].d.key = s.exposures[r.key].d.key
        /\ DOMAIN x.requests = DOMAIN s.requests \cup {r.request_id}
        /\ r.request_id \notin DOMAIN s.requests
        /\ x.requests[r.request_id].kind = "revoke"
        /\ x.requests[r.request_id].digest = revoke_request_digest(r.request_id, r.key)
        /\ x.requests[r.request_id].key = r.key
        /\ \A q \in DOMAIN s.requests : x.requests[q] = s.requests[q]
    BY <1>2, <2>0 DEF RevokesExposure
  <2>2. DOMAIN x.exposures \subseteq ExposureKeys
    BY <2>1 DEF SoundMaps
  <2>3. ASSUME NEW k \in DOMAIN x.exposures
        PROVE  x.exposures[k] \in CreateRecords /\ x.exposures[k].d.key = k
    BY <2>1 DEF SoundMaps
  <2>4. ASSUME NEW q \in DOMAIN x.requests
        PROVE  RequestIsTrue(x, q)
    <3>1. CASE q = r.request_id
      BY <2>1, <3>1 DEF RequestIsTrue
    <3>2. CASE q \in DOMAIN s.requests
      <4>1. RequestIsTrue(s, q)
        BY <3>2 DEF SoundMaps
      <4>2. x.requests[q] = s.requests[q] /\ s.requests[q].key \in DOMAIN s.exposures
        BY <2>1, <3>2, <4>1 DEF RequestIsTrue
      <4>3. CASE s.requests[q].key = r.key
        BY <2>1, <4>1, <4>2, <4>3 DEF RequestIsTrue
      <4>4. CASE s.requests[q].key # r.key
        BY <2>1, <4>1, <4>2, <4>4 DEF RequestIsTrue
      <4> QED
        BY <4>3, <4>4
    <3> QED
      BY <2>1, <3>1, <3>2
  <2>5. ASSUME NEW k \in DOMAIN x.exposures
        PROVE  \E g \in DOMAIN x.exposures :
                  g[1] = k[1] /\ \A l \in DOMAIN x.exposures : l[1] = k[1] => l[2] <= g[2]
    BY <2>1 DEF SoundMaps
  <2> QED
    BY <2>1, <2>2, <2>3, <2>4, <2>5 DEF SoundMaps, x
<1> QED
  BY <1>1, <1>2 DEF JournalRecords

\* What was told stays true, and what was placed stays in its root.
LEMMA AnswersStay ==
    ASSUME NEW s, SoundMaps(s), NEW r \in JournalRecords, NEW rs, Replays(s, r, rs)
    PROVE  /\ \A a : ToldIn(s, a) => ToldIn(Recorded(s, r), a)
           /\ \A key : RevokedIn(s, key) => RevokedIn(Recorded(s, r), key)
           /\ AllPlaced(s.exposures, rs) => AllPlaced(Recorded(s, r).exposures, rs)
<1> DEFINE x == Recorded(s, r)
<1>1. CASE r \in CreateRecords
  <2>0. AddsExposure(s, x, r, rs)
    BY <1>1, CreateFacts
  <2> HIDE DEF x
  <2>1. /\ DOMAIN x.exposures = DOMAIN s.exposures \cup {r.d.key}
        /\ r.d.key \notin DOMAIN s.exposures /\ x.exposures[r.d.key] = r
        /\ \A k \in DOMAIN s.exposures : x.exposures[k] = s.exposures[k]
        /\ DOMAIN x.requests = DOMAIN s.requests \cup {r.request_id}
        /\ \A q \in DOMAIN s.requests : x.requests[q] = s.requests[q]
        /\ \E base \in rs : PlacedIn(r, base)
    BY <1>1, <2>0 DEF AddsExposure
  <2>2. ASSUME NEW a, ToldIn(s, a)
        PROVE  ToldIn(x, a)
    <3>1. s.requests[a.request_id].key \in DOMAIN s.exposures
      BY <2>2 DEF ToldIn, SoundMaps, RequestIsTrue
    <3> QED
      BY <2>1, <2>2, <3>1 DEF ToldIn
  <2>3. \A key : RevokedIn(s, key) => RevokedIn(x, key)
    BY <2>1 DEF RevokedIn
  <2>4. AllPlaced(s.exposures, rs) => AllPlaced(x.exposures, rs)
    BY <2>1 DEF AllPlaced
  <2> QED
    BY <2>2, <2>3, <2>4 DEF x
<1>2. CASE r \in RevokeRecords
  <2>0. RevokesExposure(s, x, r)
    BY <1>2, RevokeFacts
  <2> HIDE DEF x
  <2>1. /\ DOMAIN x.exposures = DOMAIN s.exposures /\ r.key \in DOMAIN s.exposures
        /\ \A k \in DOMAIN s.exposures : k # r.key => x.exposures[k] = s.exposures[k]
        /\ x.exposures[r.key].d.state = r.state /\ r.state # "active"
        /\ x.exposures[r.key].request_id = s.exposures[r.key].request_id
        /\ x.exposures[r.key].digest = s.exposures[r.key].digest
        /\ x.exposures[r.key].host_path = s.exposures[r.key].host_path
        /\ x.exposures[r.key].parent = s.exposures[r.key].parent
        /\ x.exposures[r.key].d.key = s.exposures[r.key].d.key
        /\ x.exposures[r.key].d.root_id = s.exposures[r.key].d.root_id
        /\ x.exposures[r.key].d.modes = s.exposures[r.key].d.modes
        /\ x.exposures[r.key].d.runtimes = s.exposures[r.key].d.runtimes
        /\ x.exposures[r.key].d.scope = s.exposures[r.key].d.scope
        /\ DOMAIN x.requests = DOMAIN s.requests \cup {r.request_id}
        /\ \A q \in DOMAIN s.requests : x.requests[q] = s.requests[q]
    BY <1>2, <2>0 DEF RevokesExposure
  <2>2. ASSUME NEW a, ToldIn(s, a)
        PROVE  ToldIn(x, a)
    <3> DEFINE k == s.requests[a.request_id].key
    <3>1. k \in DOMAIN s.exposures /\ x.requests[a.request_id] = s.requests[a.request_id]
      BY <2>1, <2>2 DEF ToldIn, SoundMaps, RequestIsTrue
    <3> HIDE DEF k
    <3>2. ToldOf(x.exposures[k]) = ToldOf(s.exposures[k])
      <4>1. CASE k = r.key
        BY <2>1, <4>1 DEF ToldOf
      <4>2. CASE k # r.key
        BY <2>1, <3>1, <4>2
      <4> QED
        BY <4>1, <4>2
    <3> QED
      BY <2>1, <2>2, <3>1, <3>2 DEF ToldIn, k
  <2>3. \A key : RevokedIn(s, key) => RevokedIn(x, key)
    BY <2>1 DEF RevokedIn
  <2>4. ASSUME AllPlaced(s.exposures, rs), NEW k \in DOMAIN x.exposures
        PROVE  \E base \in rs : PlacedIn(x.exposures[k], base)
    <3>1. PICK base \in rs : PlacedIn(s.exposures[k], base)
      BY <2>1, <2>4 DEF AllPlaced
    <3>2. CASE k = r.key
      BY <2>1, <3>1, <3>2 DEF PlacedIn
    <3>3. CASE k # r.key
      BY <2>1, <3>1, <3>3
    <3> QED
      BY <3>2, <3>3
  <2> QED
    BY <2>2, <2>3, <2>4 DEF x, AllPlaced
<1> QED
  BY <1>1, <1>2 DEF JournalRecords

\* A new generation is recorded only when the one before it is over.
Superseding(ex, r, now) ==
    LET id == r.d.key[1]
        g == last_generation(ex, id)
    IN  r.kind = "create" /\ g # 0 => ~Live(ex[<<id, g>>], now)

LEMMA OldStayOver ==
    ASSUME NEW s, SoundMaps(s), NEW r \in JournalRecords, NEW rs, Replays(s, r, rs),
           NEW now, OldAreOver(s.exposures, now), Superseding(s.exposures, r, now)
    PROVE  OldAreOver(Recorded(s, r).exposures, now)
<1> DEFINE x == Recorded(s, r)
<1>1. CASE r \in CreateRecords
  <2>0. AddsExposure(s, x, r, rs)
    BY <1>1, CreateFacts
  <2> HIDE DEF x
  <2>1. /\ DOMAIN x.exposures = DOMAIN s.exposures \cup {r.d.key}
        /\ r.d.key \notin DOMAIN s.exposures /\ x.exposures[r.d.key] = r
        /\ \A k \in DOMAIN s.exposures : x.exposures[k] = s.exposures[k]
        /\ r.d.key[2] = last_generation(s.exposures, r.d.key[1]) + 1
        /\ r.kind = "create"
    BY <1>1, <2>0 DEF AddsExposure, CreateRecords
  <2> DEFINE id == r.d.key[1]
             g == last_generation(s.exposures, id)
  <2>2. /\ g \in Nat
        /\ \A l \in DOMAIN s.exposures : l[1] = id => l[2] <= g /\ <<id, g>> \in DOMAIN s.exposures
    BY LastGeneration
  <2>3. (g # 0 => ~Live(s.exposures[<<id, g>>], now)) /\ r.d.key[2] = g + 1
    BY <2>1 DEF Superseding
  <2> HIDE DEF id, g
  <2>4. \A l \in DOMAIN s.exposures : l[2] \in Nat \ {0} /\ l = <<l[1], l[2]>>
    BY DEF SoundMaps, ExposureKeys
  <2>5. ASSUME NEW k \in DOMAIN x.exposures, NEW l \in DOMAIN x.exposures,
               k[1] = l[1], k[2] < l[2]
        PROVE  ~Live(x.exposures[k], now)
    <3>1. CASE k \in DOMAIN s.exposures /\ l \in DOMAIN s.exposures
      BY <2>1, <2>5, <3>1 DEF OldAreOver
    <3>2. CASE k \in DOMAIN s.exposures /\ l = r.d.key
      <4>1. k[1] = id /\ k[2] <= g /\ <<id, g>> \in DOMAIN s.exposures
        BY <2>2, <2>5, <3>2 DEF id
      <4>2. CASE k[2] = g
        <5>1. k = <<id, g>> /\ g # 0
          BY <2>4, <3>2, <4>1, <4>2
        <5> QED
          BY <2>1, <2>3, <3>2, <5>1
      <4>3. CASE k[2] # g
        <5>1. k[2] < g /\ <<id, g>>[1] = id /\ <<id, g>>[2] = g
          BY <2>2, <2>4, <3>2, <4>1, <4>3
        <5>2. ~Live(s.exposures[k], now)
          BY <3>2, <4>1, <5>1 DEF OldAreOver
        <5> QED
          BY <2>1, <3>2, <5>2
      <4> QED
        BY <4>2, <4>3
    <3>3. CASE k = r.d.key
      <4>1. l \in DOMAIN s.exposures
        BY <2>1, <2>3, <2>2, <2>5, <3>3
      <4>2. l[2] <= g /\ l[2] \in Nat
        BY <2>2, <2>4, <2>5, <3>3, <4>1 DEF id
      <4> QED
        BY <2>2, <2>3, <2>5, <3>3, <4>2
    <3> QED
      BY <2>1, <3>1, <3>2, <3>3
  <2> QED
    BY <2>5 DEF OldAreOver, x
<1>2. CASE r \in RevokeRecords
  <2>0. RevokesExposure(s, x, r)
    BY <1>2, RevokeFacts
  <2> HIDE DEF x
  <2>1. /\ DOMAIN x.exposures = DOMAIN s.exposures /\ r.key \in DOMAIN s.exposures
        /\ \A k \in DOMAIN s.exposures : k # r.key => x.exposures[k] = s.exposures[k]
        /\ x.exposures[r.key].d.state = r.state /\ r.state # "active"
    BY <1>2, <2>0 DEF RevokesExposure
  <2>2. ~Live(x.exposures[r.key], now)
    BY <2>1 DEF Live
  <2> QED
    BY <2>1, <2>2 DEF OldAreOver, x
<1> QED
  BY <1>1, <1>2 DEF JournalRecords

-----------------------------------------------------------------------------
(* Logs that grow, and answers that are given.                              *)

LEMMA LogGrows ==
    ASSUME NEW log, NEW now, NEW told_, NEW revoked_, LogSound(log, now, told_, revoked_),
           NEW r \in JournalRecords, NEW rs \in RootSets, Replays(Replay(log, rs), r, rs),
           Superseding(Replay(log, rs).exposures, r, now),
           \A wide \in Policies : Widest(wide) => Covers(rs, wide)
    PROVE  /\ LogSound(Append(log, r), now, told_, revoked_)
           /\ Replay(Append(log, r), rs) = Recorded(Replay(log, rs), r)
           /\ Replay(Append(log, r), rs).ok
<1> DEFINE s == Replay(log, rs)
           x == Recorded(s, r)
           more == Append(log, r)
<1>1. log \in Seq(JournalRecords) /\ more \in Seq(JournalRecords)
  BY DEF LogSound
<1>2. s.ok
  BY DEF Replays
<1>3. SoundMaps(s) /\ OldAreOver(s.exposures, now) /\ AllPlaced(s.exposures, rs)
      /\ AnswersIn(s, told_, revoked_)
  BY <1>2 DEF LogSound
<1>4. SoundMaps(x) /\ x.ok /\ OldAreOver(x.exposures, now) /\ AnswersIn(x, told_, revoked_)
  <2>1. SoundMaps(x)
    BY <1>3, MapsStaySound
  <2>2. OldAreOver(x.exposures, now)
    BY <1>3, OldStayOver
  <2>3. AnswersIn(x, told_, revoked_)
    BY <1>3, AnswersStay DEF AnswersIn
  <2> HIDE DEF x
  <2>4. x.ok
    BY <2>1 DEF SoundMaps
  <2> QED
    BY <2>1, <2>2, <2>3, <2>4
<1>5. Replay(more, rs) = x
  BY <1>1, ReplayStep
<1>6. ASSUME NEW qs \in RootSets, Replay(more, qs).ok
      PROVE  Replay(more, qs) = x /\ AllPlaced(x.exposures, qs)
  <2>1. Replay(log, qs).ok /\ Replays(Replay(log, qs), r, qs)
        /\ Replay(more, qs) = Recorded(Replay(log, qs), r)
    BY <1>1, <1>6, ReplayStep
  <2>2. Replay(log, qs) = s /\ AllPlaced(s.exposures, qs)
    BY <1>2, <2>1 DEF LogSound
  <2>3. AllPlaced(x.exposures, qs)
    BY <1>3, <2>1, <2>2, AnswersStay
  <2> QED
    BY <2>1, <2>2, <2>3
<1>7. ASSUME NEW ps \in RootSets, NEW qs \in RootSets, Replay(more, ps).ok, Covers(ps, qs)
      PROVE  Replay(more, qs).ok
  <2>1. Replay(log, ps).ok /\ Replays(Replay(log, ps), r, ps)
    BY <1>1, <1>7, ReplayStep
  <2>2. Replay(log, qs).ok
    BY <1>7, <2>1 DEF LogSound
  <2>3. Replay(log, ps) = s /\ Replay(log, qs) = s
    BY <1>2, <2>1, <2>2 DEF LogSound
  <2>4. Replays(Replay(log, qs), r, qs)
    BY <1>7, <2>1, <2>3, WiderReplays
  <2>5. Replay(more, qs) = Recorded(Replay(log, qs), r)
    BY <1>1, <2>4, ReplayStep
  <2> QED
    BY <1>4, <2>3, <2>5
<1>8. ASSUME NEW wide \in Policies, Widest(wide)
      PROVE  Replay(more, wide).ok
  <2>1. wide \in RootSets /\ Covers(rs, wide) /\ Replay(more, rs).ok
    BY <1>4, <1>5, <1>8 DEF RootSets
  <2> QED
    BY <1>7, <2>1
<1>9. LogSound(more, now, told_, revoked_)
  <2>1. \A qs \in RootSets : Replay(more, qs).ok =>
           Replay(more, qs) = x /\ AllPlaced(x.exposures, qs)
    BY <1>6
  <2>2. \A ps, qs \in RootSets : Replay(more, ps).ok /\ Covers(ps, qs) => Replay(more, qs).ok
    BY <1>7
  <2>3. \A wide \in Policies : Widest(wide) => Replay(more, wide).ok
    BY <1>8
  <2> HIDE DEF x, more, s
  <2> QED
    BY <1>1, <1>4, <2>1, <2>2, <2>3 DEF LogSound
<1> QED
  BY <1>4, <1>5, <1>9

\* Time goes on and more is told; what the log replays to is the same.
LEMMA LogStays ==
    ASSUME NEW log, NEW now \in Nat, NEW told_, NEW revoked_, LogSound(log, now, told_, revoked_),
           NEW then \in Nat, now <= then, NEW told2, NEW revoked2,
           \A rs \in RootSets : Replay(log, rs).ok => AnswersIn(Replay(log, rs), told2, revoked2)
    PROVE  LogSound(log, then, told2, revoked2)
<1>1. ASSUME NEW rs \in RootSets, Replay(log, rs).ok
      PROVE  OldAreOver(Replay(log, rs).exposures, then)
  <2> DEFINE ex == Replay(log, rs).exposures
  <2>1. SoundMaps(Replay(log, rs)) /\ OldAreOver(ex, now)
    BY <1>1 DEF LogSound
  <2>2. \A k \in DOMAIN ex : ex[k] \in CreateRecords
    BY <2>1 DEF SoundMaps
  <2> HIDE DEF ex
  <2>3. \A k \in DOMAIN ex : ex[k].d.expires_at_ms \in Nat
    BY <2>2 DEF CreateRecords, Descriptors
  <2>4. \A k \in DOMAIN ex : Live(ex[k], then) => Live(ex[k], now)
    BY <2>3 DEF Live
  <2>5. OldAreOver(ex, then)
    BY <2>1, <2>4 DEF OldAreOver
  <2> QED
    BY <2>5 DEF ex
<1> QED
  BY <1>1 DEF LogSound

LEMMA LogClock ==
    ASSUME NEW log, NEW now \in Nat, NEW told_, NEW revoked_, LogSound(log, now, told_, revoked_),
           NEW then \in Nat, now <= then
    PROVE  LogSound(log, then, told_, revoked_)
<1>1. \A rs \in RootSets : Replay(log, rs).ok => AnswersIn(Replay(log, rs), told_, revoked_)
  BY DEF LogSound
<1> QED
  BY <1>1, LogStays

\* An answer that is in the maps of some roots is in those of all.
LEMMA AnswerHolds ==
    ASSUME NEW log, NEW now \in Nat, NEW told_, NEW revoked_, LogSound(log, now, told_, revoked_),
           NEW rs \in RootSets, Replay(log, rs).ok,
           NEW told2, NEW revoked2, AnswersIn(Replay(log, rs), told2, revoked2)
    PROVE  LogSound(log, now, told2, revoked2)
<1>1. ASSUME NEW qs \in RootSets, Replay(log, qs).ok
      PROVE  AnswersIn(Replay(log, qs), told2, revoked2)
  <2>1. Replay(log, qs) = Replay(log, rs)
    BY <1>1 DEF LogSound
  <2> QED
    BY <2>1
<1>2. now <= now
  OBVIOUS
<1> QED
  BY <1>1, <1>2, LogStays

\* A longer log says all a shorter one does.
LEMMA LongerLog ==
    ASSUME NEW log, NEW now \in Nat, NEW told_, NEW revoked_, LogSound(log, now, told_, revoked_),
           NEW r \in JournalRecords,
           LogSound(Append(log, r), now, told_, revoked_),
           NEW told2, NEW revoked2, LogSound(log, now, told2, revoked2)
    PROVE  LogSound(Append(log, r), now, told2, revoked2)
<1>1. log \in Seq(JournalRecords)
  BY DEF LogSound
<1>2. ASSUME NEW rs \in RootSets, Replay(Append(log, r), rs).ok
      PROVE  AnswersIn(Replay(Append(log, r), rs), told2, revoked2)
  <2>1. /\ Replay(log, rs).ok /\ Replays(Replay(log, rs), r, rs)
        /\ Replay(Append(log, r), rs) = Recorded(Replay(log, rs), r)
    BY <1>1, <1>2, ReplayStep
  <2>2. SoundMaps(Replay(log, rs)) /\ AnswersIn(Replay(log, rs), told2, revoked2)
    BY <2>1 DEF LogSound
  <2>3. AnswersIn(Recorded(Replay(log, rs), r), told2, revoked2)
    BY <2>1, <2>2, AnswersStay DEF AnswersIn
  <2> QED
    BY <2>1, <2>3
<1>3. now <= now
  OBVIOUS
<1> QED
  BY <1>2, <1>3, LogStays

-----------------------------------------------------------------------------
(* The invariant: what an open registry knows, and steps that only frame.   *)

LEMMA OpenFacts ==
    ASSUME ExposureInv, up
    PROVE  /\ roots \in RootSets /\ \A wide \in Policies : Widest(wide) => Covers(roots, wide)
           /\ Replay(disk, roots) = Memory /\ Replay(disk, roots).ok
           /\ SoundMaps(Memory) /\ OldAreOver(exposures, clock) /\ AllPlaced(exposures, roots)
           /\ AnswersIn(Memory, created, revoked)
           /\ LogInv(disk) /\ disk \in Seq(JournalRecords)
<1>1. LogInv(disk)
  BY DEF ExposureInv, Logs, LogsInv
<1>2. PICK pol \in Policies, t \in Trees : roots = RootsOf(pol, t)
  BY DEF ExposureInv, OpenInv
<1>3. roots \in RootSets /\ \A wide \in Policies : Widest(wide) => Covers(roots, wide)
  BY <1>2, OpenedCovers
<1>4. Replay(disk, roots) = Memory
  BY DEF ExposureInv, OpenInv
<1>5. Memory.ok /\ Memory.exposures = exposures
  BY DEF Memory
<1>6. /\ SoundMaps(Memory) /\ OldAreOver(exposures, clock) /\ AllPlaced(exposures, roots)
      /\ AnswersIn(Memory, created, revoked) /\ disk \in Seq(JournalRecords)
  BY <1>1, <1>3, <1>4, <1>5 DEF LogInv, LogSound
<1> QED
  BY <1>1, <1>3, <1>4, <1>5, <1>6

LEMMA LogsKept ==
    ASSUME ExposureInv, UNCHANGED <<created, revoked>>, clock' \in Nat, clock <= clock',
           Logs' \subseteq Logs
    PROVE  LogsInv'
<1>0. (\A a, b \in created : a.request_id = b.request_id => a = b)'
  BY DEF ExposureInv, LogsInv
<1> SUFFICES ASSUME NEW log \in Logs'
             PROVE  LogSound(log, clock', created', revoked')
  BY <1>0 DEF LogInv, LogsInv
<1>1. LogSound(log, clock, created, revoked) /\ clock \in Nat
  BY DEF ExposureInv, LogInv, ExposureTypes, LogsInv
<1>2. LogSound(log, clock', created, revoked)
  BY <1>1, LogClock
<1> QED
  BY <1>2

\* What a step that leaves the log alone must leave alone besides.
LEMMA QuietKeeps ==
    ASSUME ExposureInv, policy' \in Policies, fs' \in Trees, clock' \in Nat, clock <= clock',
           UNCHANGED <<disk, tail, up, memory, calls, created, revoked>>
    PROVE  ExposureInv'
<1>1. UNCHANGED <<disk, tail, up, roots, exposures, request_records, writing, resolving, resolved>>
  BY DEF memory, calls
<1>2. Logs' = Logs
  BY <1>1 DEF Logs
<1>3. LogsInv'
  BY <1>2, LogsKept
<1>4. ExposureTypes'
  BY <1>1 DEF ExposureInv, ExposureTypes
<1>5. OpenInv'
  BY <1>1 DEF ExposureInv, OpenInv, Memory
<1>6. GrantInv'
  BY <1>1 DEF ExposureInv, GrantInv
<1> QED
  BY <1>3, <1>4, <1>5, <1>6 DEF ExposureInv

LEMMA OpenJournalKeeps ==
    ASSUME ExposureInv, open_journal
    PROVE  ExposureInv'
<1>1. policy \in Policies /\ fs \in Trees /\ clock \in Nat
  BY DEF ExposureInv, ExposureTypes
<1>2. UNCHANGED <<policy, fs, clock, disk, tail, up, memory, calls, created, revoked>>
  BY DEF open_journal, answers
<1> QED
  BY <1>1, <1>2, QuietKeeps

LEMMA WorldKeeps ==
    ASSUME ExposureInv, SetPolicy \/ Tick \/ \E p \in DOMAIN fs : Replace(p)
    PROVE  ExposureInv'
<1>1. policy \in Policies /\ fs \in Trees /\ clock \in Nat
  BY DEF ExposureInv, ExposureTypes
<1>2. CASE SetPolicy
  <2>1. UNCHANGED <<fs, clock, disk, tail, up, memory, calls, created, revoked>>
        /\ policy' \in Policies
    BY <1>2 DEF SetPolicy, answers, file
  <2> QED
    BY <1>1, <2>1, QuietKeeps
<1>3. CASE Tick
  <2>1. UNCHANGED <<policy, fs, disk, tail, up, memory, calls, created, revoked>>
        /\ clock' = clock + 1
    BY <1>3 DEF Tick, answers, file
  <2> QED
    BY <1>1, <2>1, QuietKeeps
<1>4. CASE \E p \in DOMAIN fs : Replace(p)
  <2>1. UNCHANGED <<policy, clock, disk, tail, up, memory, calls, created, revoked>>
    BY <1>4 DEF Replace, answers, file
  <2>2. PICK p \in DOMAIN fs, o \in Identities \cup {None} : fs' = [fs EXCEPT ![p] = o]
    BY <1>4 DEF Replace
  <2>3. fs' \in Trees
    BY <1>1, <2>2 DEF Trees
  <2> QED
    BY <1>1, <2>1, <2>3, QuietKeeps
<1> QED
  BY <1>2, <1>3, <1>4

LEMMA DaemonDiesKeeps ==
    ASSUME ExposureInv, DaemonDies
    PROVE  ExposureInv'
<1>1. /\ UNCHANGED <<policy, fs, disk, clock, created, revoked>>
      /\ up' = FALSE /\ writing' = None /\ resolving' = None /\ resolved' = None
      /\ tail' \in IF writing = None THEN {tail} ELSE Written(writing)
  BY DEF DaemonDies, answers
<1>2. /\ clock \in Nat /\ policy \in Policies /\ fs \in Trees
      /\ writing # None => writing \in JournalRecords
      /\ tail # None => /\ tail = [bytes |-> tail.bytes, record |-> tail.record]
                        /\ tail.record # None => tail.record \in JournalRecords
  BY DEF ExposureInv, ExposureTypes
<1>3. \/ tail' = tail
      \/ /\ tail'.record = None
         /\ tail' = [bytes |-> tail'.bytes, record |-> tail'.record]
      \/ /\ writing # None /\ tail'.record = writing
         /\ tail' = [bytes |-> tail'.bytes, record |-> tail'.record]
  BY <1>1 DEF Written, Torn
<1>4. Logs' \subseteq Logs
  BY <1>1, <1>3 DEF Logs
<1>5. LogsInv'
  BY <1>1, <1>2, <1>4, LogsKept
<1>6. ExposureTypes'
  BY <1>1, <1>2, <1>3 DEF ExposureTypes
<1>7. OpenInv' /\ GrantInv'
  BY <1>1 DEF OpenInv, GrantInv
<1> QED
  BY <1>5, <1>6, <1>7 DEF ExposureInv

LEMMA AppendFailsKeeps ==
    ASSUME ExposureInv, append_fails
    PROVE  ExposureInv'
<1>1. /\ UNCHANGED <<policy, fs, disk, clock, created, revoked, up, roots, exposures,
                     request_records, resolving, resolved>>
      /\ writing' = None /\ writing # None
      /\ tail' = None \/ tail' \in Written(writing)
  BY DEF append_fails, answers, memory
<1>2. /\ clock \in Nat /\ policy \in Policies /\ fs \in Trees /\ up \in BOOLEAN
      /\ writing \in JournalRecords
      /\ tail # None => /\ tail = [bytes |-> tail.bytes, record |-> tail.record]
                        /\ tail.record # None => tail.record \in JournalRecords
  BY <1>1 DEF ExposureInv, ExposureTypes
<1>3. \/ tail' = tail \/ tail' = None
      \/ /\ tail'.record = None
         /\ tail' = [bytes |-> tail'.bytes, record |-> tail'.record]
      \/ /\ tail'.record = writing
         /\ tail' = [bytes |-> tail'.bytes, record |-> tail'.record]
  BY <1>1 DEF Written, Torn
<1>4. Logs' \subseteq Logs
  BY <1>1, <1>3 DEF Logs
<1>5. LogsInv'
  BY <1>1, <1>2, <1>4, LogsKept
<1>6. ExposureTypes'
  BY <1>1, <1>2, <1>3 DEF ExposureTypes
<1>7. OpenInv'
  BY <1>1 DEF ExposureInv, OpenInv, Memory
<1>8. GrantInv'
  BY <1>1 DEF ExposureInv, GrantInv
<1> QED
  BY <1>5, <1>6, <1>7, <1>8 DEF ExposureInv

-----------------------------------------------------------------------------
(* Loading, writing and answering.                                          *)

LEMMA LoadKeeps ==
    ASSUME ExposureInv, load
    PROVE  ExposureInv'
<1> DEFINE s == Replay(Stored, policy)
<1>1. /\ ~up /\ Readable /\ build(policy) /\ s.ok
      /\ exposures' = s.exposures /\ request_records' = s.requests
      /\ roots' = RootsOf(policy, fs) /\ disk' = Stored /\ tail' = None /\ up' = TRUE
      /\ UNCHANGED <<policy, fs, clock, created, revoked, writing, resolving, resolved>>
  BY DEF load, calls, answers, RootsOf, open_absolute_no_follow
<1>2. /\ policy \in Policies /\ fs \in Trees /\ clock \in Nat
      /\ writing = None /\ resolving = None /\ resolved = None
  BY <1>1 DEF ExposureInv, ExposureTypes, OpenInv
<1>3. Stored \in Logs
  BY <1>1 DEF Stored, Logs, Readable
<1>4. LogSound(Stored, clock, created, revoked)
  BY <1>3 DEF ExposureInv, LogInv, LogsInv
<1>5. policy \in RootSets /\ roots' \in RootSets /\ Covers(policy, roots')
  BY <1>1, <1>2, OpenedCovers
<1>6. SoundMaps(s) /\ Replay(Stored, roots') = s
  BY <1>1, <1>4, <1>5 DEF LogSound
<1> HIDE DEF s
<1>7. s = [ok |-> TRUE, exposures |-> s.exposures, requests |-> s.requests]
  BY <1>6 DEF SoundMaps
<1>8. Memory' = s
  BY <1>1, <1>7 DEF Memory
<1>9. Replay(disk', roots') = Memory'
  BY <1>1, <1>6, <1>8
<1>10. Logs' \subseteq Logs
  BY <1>1, <1>2, <1>3 DEF Logs
<1>11. LogsInv'
  BY <1>1, <1>2, <1>10, LogsKept
<1>12. ExposureTypes'
  BY <1>1, <1>2 DEF ExposureTypes
<1>13. OpenInv'
  <2>1. \E pol \in Policies, t \in Trees : build(pol) /\ roots' = RootsOf(pol, t)
    BY <1>1, <1>2
  <2> QED
    BY <1>1, <1>2, <1>9, <2>1 DEF OpenInv
<1>14. GrantInv'
  BY <1>1, <1>2 DEF GrantInv
<1> QED
  BY <1>11, <1>12, <1>13, <1>14 DEF ExposureInv

\* What an append leaves of the exposures that were there.
LEMMA ExposuresStay ==
    ASSUME NEW s, SoundMaps(s), NEW r \in JournalRecords, NEW rs, Replays(s, r, rs),
           NEW k \in DOMAIN s.exposures
    PROVE  /\ k \in DOMAIN Recorded(s, r).exposures
           /\ Recorded(s, r).exposures[k].d.modes = s.exposures[k].d.modes
           /\ Recorded(s, r).exposures[k].d.source = s.exposures[k].d.source
<1> DEFINE x == Recorded(s, r)
<1>1. CASE r \in CreateRecords
  <2>1. AddsExposure(s, x, r, rs)
    BY <1>1, CreateFacts
  <2> HIDE DEF x
  <2>2. k \in DOMAIN x.exposures /\ x.exposures[k] = s.exposures[k]
    BY <2>1 DEF AddsExposure
  <2> QED
    BY <2>2 DEF x
<1>2. CASE r \in RevokeRecords
  <2>1. RevokesExposure(s, x, r)
    BY <1>2, RevokeFacts
  <2> HIDE DEF x
  <2>2. /\ k \in DOMAIN x.exposures
        /\ x.exposures[k].d.modes = s.exposures[k].d.modes
        /\ x.exposures[k].d.source = s.exposures[k].d.source
    <3>1. CASE k = r.key
      BY <2>1, <3>1 DEF RevokesExposure
    <3>2. CASE k # r.key
      BY <2>1, <3>2 DEF RevokesExposure
    <3> QED
      BY <3>1, <3>2
  <2> QED
    BY <2>2 DEF x
<1> QED
  BY <1>1, <1>2 DEF JournalRecords

\* A record that was written is answered with the truth.
LEMMA AnswerIsTrue ==
    ASSUME NEW s, SoundMaps(s), NEW r \in JournalRecords, NEW rs, Replays(s, r, rs),
           NEW told_, NEW revoked_, AnswersIn(s, told_, revoked_)
    PROVE  AnswersIn(Recorded(s, r), told_ \cup (IF r.kind = "create" THEN {ToldOf(r)} ELSE {}),
                     revoked_ \cup (IF r.kind = "create" THEN {} ELSE {r.key}))
<1> DEFINE x == Recorded(s, r)
<1>1. (\A a \in told_ : ToldIn(x, a)) /\ \A key \in revoked_ : RevokedIn(x, key)
  BY AnswersStay DEF AnswersIn
<1>2. CASE r \in CreateRecords
  <2>1. AddsExposure(s, x, r, rs) /\ r.kind = "create"
    BY <1>2, CreateFacts DEF CreateRecords
  <2> HIDE DEF x
  <2>2. /\ r.request_id \in DOMAIN x.requests /\ x.requests[r.request_id].kind = "create"
        /\ x.requests[r.request_id].key = r.d.key /\ x.exposures[r.d.key] = r
    BY <2>1 DEF AddsExposure
  <2>3. ToldOf(r).request_id = r.request_id
    BY DEF ToldOf
  <2>4. ToldIn(x, ToldOf(r))
    BY <2>2, <2>3 DEF ToldIn
  <2> QED
    BY <1>1, <2>1, <2>4 DEF AnswersIn, x
<1>3. CASE r \in RevokeRecords
  <2>1. RevokesExposure(s, x, r) /\ r.kind # "create"
    BY <1>3, RevokeFacts DEF RevokeRecords
  <2> HIDE DEF x
  <2>2. RevokedIn(x, r.key)
    BY <2>1 DEF RevokedIn, RevokesExposure
  <2> QED
    BY <1>1, <2>1, <2>2 DEF AnswersIn, x
<1> QED
  BY <1>2, <1>3 DEF JournalRecords

LEMMA ToldOnce ==
    ASSUME NEW s, NEW told_, NEW revoked_, AnswersIn(s, told_, revoked_)
    PROVE  \A a, b \in told_ : a.request_id = b.request_id => a = b
BY DEF AnswersIn, ToldIn

LEMMA AppendKeeps ==
    ASSUME ExposureInv, append
    PROVE  ExposureInv'
<1> DEFINE x == Recorded(Memory, writing)
           more == Append(disk, writing)
<1>1. /\ writing # None /\ writing' = None
      /\ exposures' = x.exposures /\ request_records' = x.requests /\ disk' = more
      /\ UNCHANGED <<policy, fs, clock, up, roots, resolving, resolved>>
      /\ Answer(writing)
      /\ tail' = None \/ /\ tail'.record = None
                         /\ tail' = [bytes |-> tail'.bytes, record |-> tail'.record]
  BY DEF append, Memory
<1>2. /\ up /\ writing \in JournalRecords /\ Replays(Memory, writing, roots)
      /\ clock \in Nat /\ policy \in Policies /\ fs \in Trees
      /\ LogSound(more, clock, created, revoked)
  BY <1>1 DEF ExposureInv, ExposureTypes, OpenInv, Logs, LogInv, LogsInv
<1>3. /\ roots \in RootSets /\ Replay(disk, roots) = Memory /\ SoundMaps(Memory)
      /\ AnswersIn(Memory, created, revoked) /\ disk \in Seq(JournalRecords)
      /\ Memory.exposures = exposures
  BY <1>2, OpenFacts DEF Memory
<1>4. Replay(more, roots) = x
  BY <1>2, <1>3, ReplayStep
<1>5. SoundMaps(x) /\ AnswersIn(x, created', revoked')
  <2>1. SoundMaps(x)
    BY <1>2, <1>3, MapsStaySound
  <2>2. /\ created' = created \cup (IF writing.kind = "create" THEN {ToldOf(writing)} ELSE {})
        /\ revoked' = revoked \cup (IF writing.kind = "create" THEN {} ELSE {writing.key})
    BY <1>1 DEF Answer, ToldOf
  <2>3. AnswersIn(x, created \cup (IF writing.kind = "create" THEN {ToldOf(writing)} ELSE {}),
                     revoked \cup (IF writing.kind = "create" THEN {} ELSE {writing.key}))
    BY <1>2, <1>3, AnswerIsTrue
  <2> QED
    BY <2>1, <2>2, <2>3
<1>6. \A k \in DOMAIN exposures : /\ k \in DOMAIN x.exposures
                                  /\ x.exposures[k].d.modes = exposures[k].d.modes
                                  /\ x.exposures[k].d.source = exposures[k].d.source
  BY <1>2, <1>3, ExposuresStay
<1> HIDE DEF x, more
<1>7. x.ok /\ x = [ok |-> TRUE, exposures |-> x.exposures, requests |-> x.requests]
  BY <1>5 DEF SoundMaps
<1>8. LogSound(more, clock, created', revoked')
  BY <1>2, <1>3, <1>4, <1>5, <1>7, AnswerHolds
<1>9. Logs' = {more}
  BY <1>1 DEF Logs
<1>10. LogsInv'
  BY <1>1, <1>5, <1>8, <1>9, ToldOnce DEF LogInv, LogsInv
<1>11. ExposureTypes'
  BY <1>1, <1>2 DEF ExposureTypes
<1>12. OpenInv'
  <2>1. Memory' = x
    BY <1>1, <1>7 DEF Memory
  <2>2. Replay(disk', roots') = Memory'
    BY <1>1, <1>4, <2>1
  <2>3. \E pol \in Policies, t \in Trees : build(pol) /\ roots' = RootsOf(pol, t)
    BY <1>1, <1>2 DEF ExposureInv, OpenInv
  <2> QED
    BY <1>1, <1>2, <2>2, <2>3 DEF OpenInv
<1>13. GrantInv'
  BY <1>1, <1>6 DEF ExposureInv, GrantInv
<1> QED
  BY <1>10, <1>11, <1>12, <1>13 DEF ExposureInv

\* A request that was carried out is answered again with what it made.
LEMMA AgainKeeps ==
    ASSUME ExposureInv, up, writing = None, AnswersIn(Memory, created', revoked'),
           UNCHANGED <<policy, fs, file, up, memory, calls, clock>>
    PROVE  ExposureInv'
<1>1. UNCHANGED <<disk, tail, roots, exposures, request_records, writing, resolving, resolved>>
  BY DEF file, memory, calls
<1>2. /\ roots \in RootSets /\ Replay(disk, roots) = Memory /\ Replay(disk, roots).ok
      /\ LogSound(disk, clock, created, revoked) /\ clock \in Nat
  BY OpenFacts DEF LogInv, ExposureInv, ExposureTypes, LogsInv
<1>3. LogSound(disk, clock, created', revoked')
  BY <1>2, AnswerHolds
<1>4. ASSUME NEW log \in Logs'
      PROVE  LogSound(log, clock', created', revoked')
  <2>1. CASE log = disk
    BY <1>3, <2>1
  <2>2. CASE tail # None /\ tail.record # None /\ log = Append(disk, tail.record)
    <3>1. LogSound(Append(disk, tail.record), clock, created, revoked)
          /\ tail.record \in JournalRecords
      BY <2>2 DEF ExposureInv, ExposureTypes, Logs, LogInv, LogsInv
    <3>2. LogSound(Append(disk, tail.record), clock, created', revoked')
      BY <1>2, <1>3, <3>1, LongerLog
    <3> QED
      BY <2>2, <3>2
  <2> QED
    BY <1>1, <2>1, <2>2 DEF Logs
<1>5. LogsInv'
  BY <1>4, ToldOnce DEF LogInv, LogsInv
<1>6. ExposureTypes'
  BY <1>1 DEF ExposureInv, ExposureTypes
<1>7. OpenInv'
  BY <1>1 DEF ExposureInv, OpenInv, Memory
<1>8. GrantInv'
  BY <1>1 DEF ExposureInv, GrantInv
<1> QED
  BY <1>5, <1>6, <1>7, <1>8 DEF ExposureInv

LEMMA CreateAgainKeeps ==
    ASSUME ExposureInv, NEW c \in Creations, create_again(c)
    PROVE  ExposureInv'
<1> DEFINE q == c.request_id
           e == exposures[request_records[q].key]
<1>1. /\ up /\ writing = None /\ q \in DOMAIN request_records
      /\ request_records[q].kind = "create" /\ Answer(e)
      /\ UNCHANGED <<policy, fs, file, up, memory, calls, clock>>
  BY DEF create_again, RequestIsKnown
<1>2. /\ SoundMaps(Memory) /\ AnswersIn(Memory, created, revoked)
      /\ Memory.exposures = exposures /\ Memory.requests = request_records
  BY <1>1, OpenFacts DEF Memory
<1>3. RequestIsTrue(Memory, q)
  BY <1>1, <1>2 DEF SoundMaps
<1>4. e.request_id = q /\ e \in CreateRecords
  BY <1>1, <1>2, <1>3 DEF SoundMaps, RequestIsTrue
<1>5. e.kind = "create" /\ ToldOf(e).request_id = q
  BY <1>4 DEF CreateRecords, ToldOf
<1>6. ToldIn(Memory, ToldOf(e))
  BY <1>1, <1>2, <1>5 DEF ToldIn
<1>7. created' = created \cup {ToldOf(e)} /\ revoked' = revoked
  BY <1>1, <1>5 DEF Answer, ToldOf
<1>8. AnswersIn(Memory, created', revoked')
  BY <1>2, <1>6, <1>7 DEF AnswersIn
<1> QED
  BY <1>1, <1>8, AgainKeeps

LEMMA RevokeAgainKeeps ==
    ASSUME ExposureInv, NEW rid \in RevokeIds, NEW key \in DOMAIN exposures, revoke_again(rid, key)
    PROVE  ExposureInv'
<1>1. /\ up /\ writing = None /\ rid \in DOMAIN request_records
      /\ request_records[rid].kind = "revoke"
      /\ request_records[rid].digest = revoke_request_digest(rid, key)
      /\ revoked' = revoked \cup {key} /\ created' = created
      /\ UNCHANGED <<policy, fs, file, up, memory, calls, clock>>
  BY DEF revoke_again, RequestIsKnown
<1>2. /\ SoundMaps(Memory) /\ AnswersIn(Memory, created, revoked)
      /\ Memory.exposures = exposures /\ Memory.requests = request_records
  BY <1>1, OpenFacts DEF Memory
<1>3. RequestIsTrue(Memory, rid)
  BY <1>1, <1>2 DEF SoundMaps
<1>4. /\ request_records[rid].digest = revoke_request_digest(rid, request_records[rid].key)
      /\ exposures[request_records[rid].key].d.state # "active"
  BY <1>1, <1>2, <1>3 DEF RequestIsTrue
<1>5. key = request_records[rid].key
  BY <1>1, <1>4 DEF revoke_request_digest
<1>6. RevokedIn(Memory, key)
  BY <1>2, <1>4, <1>5 DEF RevokedIn
<1>7. AnswersIn(Memory, created', revoked')
  BY <1>1, <1>2, <1>6 DEF AnswersIn
<1> QED
  BY <1>1, <1>7, AgainKeeps

-----------------------------------------------------------------------------
(* A record is taken in hand.                                               *)

LEMMA WritingKeeps ==
    ASSUME ExposureInv, up, writing = None, writing' \in JournalRecords,
           Replays(Memory, writing', roots), Superseding(exposures, writing', clock),
           UNCHANGED <<policy, fs, file, up, memory, resolving, resolved, clock, answers>>
    PROVE  ExposureInv'
<1>1. UNCHANGED <<disk, tail, roots, exposures, request_records, created, revoked>>
  BY DEF file, memory, answers
<1>2. /\ roots \in RootSets /\ \A wide \in Policies : Widest(wide) => Covers(roots, wide)
      /\ Replay(disk, roots) = Memory /\ Memory.exposures = exposures
      /\ LogSound(disk, clock, created, revoked)
  BY OpenFacts DEF LogInv, Memory
<1>3. ASSUME NEW r \in JournalRecords, r = writing'
      PROVE  LogSound(Append(disk, r), clock, created, revoked)
  BY <1>2, <1>3, LogGrows
<1>4. ASSUME NEW log \in Logs'
      PROVE  LogSound(log, clock', created', revoked')
  <2>1. CASE log \in Logs
    BY <1>1, <2>1 DEF ExposureInv, LogInv, LogsInv
  <2>2. CASE log = Append(disk, writing')
    BY <1>1, <1>3, <2>2
  <2> QED
    BY <1>1, <2>1, <2>2 DEF Logs
<1>5. LogsInv'
  BY <1>1, <1>4 DEF ExposureInv, LogInv, LogsInv
<1>6. ExposureTypes'
  BY <1>1 DEF ExposureInv, ExposureTypes
<1>7. OpenInv'
  BY <1>1 DEF ExposureInv, OpenInv, Memory
<1>8. GrantInv'
  BY <1>1 DEF ExposureInv, GrantInv
<1> QED
  BY <1>5, <1>6, <1>7, <1>8 DEF ExposureInv

LEMMA CreateKeepsExposures ==
    ASSUME ExposureInv, NEW c \in Creations, create(c)
    PROVE  ExposureInv'
<1>1. /\ up /\ writing = None /\ c.request_id \notin DOMAIN request_records
      /\ UNCHANGED <<policy, fs, file, up, memory, resolving, resolved, clock, answers>>
  BY DEF create
<1>2. PICK base \in roots : /\ AcceptableCreate(c, base)
                            /\ Cardinality(DOMAIN exposures) < MaxExposures
                            /\ Replaceable(c.exposure_id)
                            /\ writing' = CreateRecord(c, base)
  BY DEF create
<1> DEFINE r == CreateRecord(c, base)
           d == Descriptor(c, base)
           n == last_generation(exposures, c.exposure_id)
<1>3. /\ SoundMaps(Memory) /\ Memory.exposures = exposures /\ Memory.requests = request_records
      /\ Memory.ok /\ fs \in Trees /\ clock \in Nat
  BY <1>1, OpenFacts DEF Memory, ExposureInv, ExposureTypes
<1>4. n \in Nat
  BY <1>3, LastGeneration
<1>5. /\ c.host_path \in DOMAIN Tree /\ Front(c.host_path) \in DOMAIN Tree
      /\ c.ttl_secs \in Nat /\ Second \in Nat /\ None \notin Identities
  BY ExposureAssumption
<1>6. /\ c.host_path # base.host_root /\ path_within(c.host_path, base.host_root)
      /\ open_beneath_root(base, c.host_path) \in Identities
  BY <1>2, <1>3, <1>5 DEF AcceptableCreate, open_beneath_root, Trees
<1>7. recovery_parent_identity_digest(base, c.host_path) \in Identities
  BY <1>2, <1>3, <1>5 DEF AcceptableCreate, recovery_parent_identity_digest,
                          open_beneath_root, Trees
<1>8. clock + c.ttl_secs * Second \in Nat
  BY <1>3, <1>5
<1>9. d = [key |-> <<c.exposure_id, n + 1>>, root_id |-> c.root_id,
           source |-> open_beneath_root(base, c.host_path), modes |-> ToSet(c.modes),
           expires_at_ms |-> clock + c.ttl_secs * Second, runtimes |-> ToSet(c.runtimes),
           scope |-> << <<c.exposure_id, n + 1>>, c.root_id,
                        open_beneath_root(base, c.host_path), ToSet(c.modes),
                        clock + c.ttl_secs * Second, ToSet(c.runtimes)>>,
           state |-> "active"]
  BY DEF Descriptor, scope_digest
<1> DEFINE src == open_beneath_root(base, c.host_path)
           end == clock + c.ttl_secs * Second
           key == <<c.exposure_id, n + 1>>
           ms == ToSet(c.modes)
           rts == ToSet(c.runtimes)
<1>10. key \in ExposureKeys /\ key[1] = c.exposure_id /\ key[2] = n + 1
  <2> HIDE DEF n
  <2> QED
    BY <1>4 DEF ExposureKeys
<1>11. c.root_id \in RootIds /\ ms \in ModeSets /\ rts \in RuntimeSets /\ c.request_id \in RequestIds
       /\ src \in Identities /\ end \in Nat
  BY <1>6, <1>8 DEF RootIds, ModeSets, RuntimeSets, RequestIds
<1>12. d = [key |-> key, root_id |-> c.root_id, source |-> src, modes |-> ms,
            expires_at_ms |-> end, runtimes |-> rts,
            scope |-> <<key, c.root_id, src, ms, end, rts>>, state |-> "active"]
  BY <1>9
<1>13. r = [kind |-> "create", d |-> d, request_id |-> c.request_id, digest |-> request_digest(c),
            host_path |-> c.host_path,
            parent |-> recovery_parent_identity_digest(base, c.host_path)]
  BY DEF CreateRecord
<1> HIDE DEF src, end, key, ms, rts, d, n, r
<1>14. d \in Descriptors /\ d.key = key /\ d.root_id = c.root_id /\ d.modes = ms
       /\ d.runtimes = rts /\ d.scope = scope_digest(d)
  BY <1>10, <1>11, <1>12 DEF Descriptors, scope_digest
<1>15. /\ r \in CreateRecords /\ r.kind = "create" /\ r.d = d /\ r.request_id = c.request_id
       /\ r.host_path = c.host_path
  BY <1>7, <1>11, <1>13, <1>14 DEF CreateRecords
<1>16. CreateReplays(Memory, r, roots)
  <2>1. /\ \A m \in ms : valid_mode(m)
        /\ ~reserved_host_path(c.host_path) /\ base.root_id = c.root_id
        /\ WithinPolicy(ms, rts, base)
    BY <1>2 DEF AcceptableCreate, canonical_modes, ms, rts
  <2>2. r.d.key[2] = last_generation(Memory.exposures, r.d.key[1]) + 1
    BY <1>3, <1>10, <1>14, <1>15 DEF n
  <2>3. \E root_ \in roots : /\ root_.root_id = r.d.root_id
                             /\ r.host_path # root_.host_root
                             /\ path_within(r.host_path, root_.host_root)
                             /\ WithinPolicy(r.d.modes, r.d.runtimes, root_)
    BY <1>6, <1>14, <1>15, <2>1
  <2> QED
    BY <1>1, <1>2, <1>3, <1>14, <1>15, <2>1, <2>2, <2>3 DEF CreateReplays
<1>17. Replays(Memory, r, roots)
  BY <1>3, <1>15, <1>16 DEF Replays
<1>18. Superseding(exposures, r, clock)
  BY <1>2, <1>10, <1>14, <1>15 DEF Superseding, Replaceable
<1>19. writing' = r /\ r \in JournalRecords
  BY <1>2, <1>15 DEF r, JournalRecords
<1> QED
  BY <1>1, <1>17, <1>18, <1>19, WritingKeeps

LEMMA RevokeKeepsExposures ==
    ASSUME ExposureInv, NEW rid \in RevokeIds, NEW key \in DOMAIN exposures, revoke(rid, key)
    PROVE  ExposureInv'
<1> DEFINE st == IF Live(exposures[key], clock) THEN "revoked" ELSE "expired"
           r == [kind |-> "revoke", request_id |-> rid, key |-> key,
                 digest |-> revoke_request_digest(rid, key), state |-> st]
<1>1. /\ up /\ writing = None /\ rid \notin DOMAIN request_records
      /\ exposures[key].d.state = "active" /\ writing' = r
      /\ UNCHANGED <<policy, fs, file, up, memory, resolving, resolved, clock, answers>>
  BY DEF revoke
<1>2. /\ SoundMaps(Memory) /\ Memory.exposures = exposures /\ Memory.requests = request_records
      /\ Memory.ok
  BY <1>1, OpenFacts DEF Memory
<1>3. key \in ExposureKeys /\ st \in {"revoked", "expired"}
  BY <1>2 DEF SoundMaps
<1> HIDE DEF st
<1>4. /\ r \in RevokeRecords /\ r.kind = "revoke" /\ r.kind # "create" /\ r.request_id = rid
      /\ r.key = key /\ r.digest = revoke_request_digest(rid, key) /\ r.state # "active"
  BY <1>3 DEF RevokeRecords, revoke_request_digest
<1> HIDE DEF r
<1>5. Replays(Memory, r, roots)
  BY <1>1, <1>2, <1>4 DEF Replays, RevokeReplays
<1>6. Superseding(exposures, r, clock) /\ r \in JournalRecords
  BY <1>4 DEF Superseding, JournalRecords
<1> QED
  BY <1>1, <1>5, <1>6, WritingKeeps

-----------------------------------------------------------------------------
(* Grants.                                                                  *)

LEMMA GrantsKeep ==
    ASSUME ExposureInv, GrantInv',
           UNCHANGED <<policy, fs, file, up, memory, writing, clock, answers>>,
           ~up => resolving' = None /\ resolved' = None
    PROVE  ExposureInv'
<1>1. UNCHANGED <<disk, tail, roots, exposures, request_records, created, revoked>>
  BY DEF file, memory, answers
<1>2. Logs' = Logs
  BY <1>1 DEF Logs
<1>3. clock \in Nat
  BY DEF ExposureInv, ExposureTypes
<1>4. LogsInv'
  BY <1>1, <1>2, <1>3, LogsKept
<1>5. ExposureTypes'
  BY <1>1 DEF ExposureInv, ExposureTypes
<1>6. OpenInv'
  BY <1>1 DEF ExposureInv, OpenInv, Memory
<1> QED
  BY <1>4, <1>5, <1>6 DEF ExposureInv

LEMMA ValidateKeeps ==
    ASSUME ExposureInv, NEW a \in Asked, NEW c \in created, validate_grant(a, c)
    PROVE  ExposureInv'
<1> DEFINE g == Grant(a, c)
<1>1. /\ up /\ ValidGrantAt(g, clock) /\ resolving' = [grant |-> g, now |-> clock]
      /\ UNCHANGED <<policy, fs, file, up, memory, writing, resolved, clock, answers>>
  BY DEF validate_grant
<1>2. g.mode = a.mode /\ a.mode.max_bytes \in Nat
  BY ExposureAssumption DEF Grant
<1> HIDE DEF g
<1>3. g.key \in DOMAIN exposures /\ mode_is_subset(g.mode, exposures[g.key].d.modes)
  BY <1>1 DEF ValidGrantAt
<1>4. resolving'.grant = g /\ exposures' = exposures
  BY <1>1 DEF memory
<1>5. GrantInv'
  BY <1>1, <1>2, <1>3, <1>4 DEF ExposureInv, GrantInv
<1> QED
  BY <1>1, <1>5, GrantsKeep

\* What a second look at an exposure shows.
LEMMA ExposedSource ==
    ASSUME ExposureInv, up, NEW k \in DOMAIN exposures, SourceIsExposed(exposures[k])
    PROVE  fs[exposures[k].host_path] = exposures[k].d.source
<1>1. PICK base \in roots : open_beneath_root(base, exposures[k].host_path) = exposures[k].d.source
  BY DEF SourceIsExposed, source_matches
<1>2. exposures[k] \in CreateRecords
  BY OpenFacts DEF SoundMaps, Memory
<1>3. exposures[k].d.source \in Identities /\ None \notin Identities
  BY <1>2, ExposureAssumption DEF CreateRecords, Descriptors
<1> QED
  BY <1>1, <1>3 DEF open_beneath_root

LEMMA ResolveKeeps ==
    ASSUME ExposureInv, resolve_grant
    PROVE  ExposureInv'
<1> DEFINE g == resolving.grant
<1>1. /\ up /\ resolving # None /\ resolving' = None
      /\ resolved' = IF StillGranted(g, resolving.now)
                       THEN [grant |-> g, host_path |-> exposures[g.key].host_path,
                             identity |-> fs[exposures[g.key].host_path],
                             launched |-> FALSE]
                       ELSE None
      /\ UNCHANGED <<policy, fs, file, up, memory, writing, clock, answers>>
  BY DEF resolve_grant
<1>2. exposures' = exposures
  BY <1>1 DEF memory
<1>3. CASE StillGranted(g, resolving.now)
  <2>1. g.key \in DOMAIN exposures /\ SourceIsExposed(exposures[g.key])
    BY <1>3 DEF StillGranted
  <2>2. fs[exposures[g.key].host_path] = exposures[g.key].d.source
    BY <1>1, <2>1, ExposedSource
  <2>3. GrantInv'
    BY <1>1, <1>2, <1>3, <2>1, <2>2 DEF GrantInv
  <2> QED
    BY <1>1, <2>3, GrantsKeep
<1>4. CASE ~StillGranted(g, resolving.now)
  <2>1. GrantInv'
    BY <1>1, <1>4 DEF GrantInv
  <2> QED
    BY <1>1, <2>1, GrantsKeep
<1> QED
  BY <1>3, <1>4

LEMMA VerifyKeeps ==
    ASSUME ExposureInv, verify_identity
    PROVE  ExposureInv'
<1>1. /\ resolved # None
      /\ resolved' = [resolved EXCEPT !.launched = TRUE] \/ resolved' = None
      /\ UNCHANGED <<policy, fs, file, up, memory, writing, resolving, clock, answers>>
  BY DEF verify_identity
<1>2. exposures' = exposures /\ up
  BY <1>1 DEF memory, ExposureInv, OpenInv
<1>3. resolved = [grant |-> resolved.grant, host_path |-> resolved.host_path,
                  identity |-> resolved.identity, launched |-> resolved.launched]
  BY <1>1 DEF ExposureInv, GrantInv
<1>4. resolved' = None \/ /\ resolved' = [grant |-> resolved.grant, host_path |-> resolved.host_path,
                                          identity |-> resolved.identity, launched |-> TRUE]
  BY <1>1, <1>3
<1>5. GrantInv'
  BY <1>1, <1>2, <1>4 DEF ExposureInv, GrantInv
<1> QED
  BY <1>1, <1>2, <1>5, GrantsKeep

-----------------------------------------------------------------------------
(* The theorems about path exposures.                                       *)

LEMMA ExposureInitHolds ==
    ASSUME ExposureInit
    PROVE  ExposureInv
<1>1. /\ policy \in Policies /\ fs = Tree /\ disk = <<>> /\ tail = None /\ up = FALSE
      /\ writing = None /\ resolving = None /\ resolved = None /\ clock = 1
      /\ created = {} /\ revoked = {}
  BY DEF ExposureInit
<1>2. Logs = {<<>>}
  BY <1>1 DEF Logs
<1>3. /\ DOMAIN Empty = {} /\ Blank.ok /\ Blank.exposures = Empty /\ Blank.requests = Empty
      /\ Empty = [k \in DOMAIN Empty |-> Empty[k]]
      /\ Blank = [ok |-> TRUE, exposures |-> Blank.exposures, requests |-> Blank.requests]
  BY DEF Empty, Blank
<1>4. SoundMaps(Blank) /\ OldAreOver(Blank.exposures, clock)
      /\ \A rs : AllPlaced(Blank.exposures, rs)
  BY <1>3 DEF SoundMaps, OldAreOver, AllPlaced
<1>5. AnswersIn(Blank, {}, {})
  BY DEF AnswersIn
<1>6. \A rs : Replay(<<>>, rs) = Blank
  BY ReplayNothing
<1>7. LogSound(<<>>, clock, {}, {})
  BY <1>3, <1>4, <1>5, <1>6 DEF LogSound
<1>8. LogsInv
  BY <1>1, <1>2, <1>7 DEF LogInv, LogsInv
<1>9. ExposureTypes
  BY <1>1, ExposureAssumption DEF ExposureTypes, Trees
<1>10. OpenInv /\ GrantInv
  BY <1>1 DEF OpenInv, GrantInv
<1> QED
  BY <1>8, <1>9, <1>10 DEF ExposureInv

LEMMA ExposureStep ==
    ASSUME ExposureInv, [ExposureNext]_exposureVars
    PROVE  ExposureInv'
<1>1. CASE open_journal
  BY <1>1, OpenJournalKeeps
<1>2. CASE load
  BY <1>2, LoadKeeps
<1>3. CASE append
  BY <1>3, AppendKeeps
<1>4. CASE append_fails
  BY <1>4, AppendFailsKeeps
<1>5. CASE \E c \in Creations : create(c) \/ create_again(c)
  BY <1>5, CreateKeepsExposures, CreateAgainKeeps
<1>6. CASE \E rid \in RevokeIds : \E key \in DOMAIN exposures :
             revoke(rid, key) \/ revoke_again(rid, key)
  BY <1>6, RevokeKeepsExposures, RevokeAgainKeeps
<1>7. CASE \E a \in Asked : \E c \in created : validate_grant(a, c)
  BY <1>7, ValidateKeeps
<1>8. CASE resolve_grant
  BY <1>8, ResolveKeeps
<1>9. CASE verify_identity
  BY <1>9, VerifyKeeps
<1>10. CASE DaemonDies
  BY <1>10, DaemonDiesKeeps
<1>11. CASE SetPolicy \/ Tick \/ \E p \in DOMAIN fs : Replace(p)
  BY <1>11, WorldKeeps
<1>12. CASE UNCHANGED exposureVars
  <2>1. policy \in Policies /\ fs \in Trees /\ clock \in Nat
    BY DEF ExposureInv, ExposureTypes
  <2>2. UNCHANGED <<policy, fs, clock, disk, tail, up, memory, calls, created, revoked>>
    BY <1>12 DEF exposureVars, file, answers
  <2> QED
    BY <2>1, <2>2, QuietKeeps
<1> QED
  BY <1>1, <1>2, <1>3, <1>4, <1>5, <1>6, <1>7, <1>8, <1>9, <1>10, <1>11, <1>12 DEF ExposureNext

\* Whatever policy a daemon starts with, the logs it may find replay to maps
\* that keep what callers were told, and an open registry holds what its log
\* replays to (path_exposure_registry::open, create, revoke, resolve_grant).
THEOREM ExposureInvariant == ExposureSpec => []ExposureInv
<1>1. ExposureInit => ExposureInv
  BY ExposureInitHolds
<1>2. ExposureInv /\ [ExposureNext]_exposureVars => ExposureInv'
  BY ExposureStep
<1> QED
  BY <1>1, <1>2, PTL DEF ExposureSpec

LEMMA PrefixFront ==
    ASSUME NEW p \in Seq(STRING), NEW q \in Seq(STRING), p # <<>>, p # q, path_within(p, q)
    PROVE  path_within(Front(p), q)
<1> DEFINE f == Front(p)
<1>1. /\ Len(p) \in Nat \ {0} /\ Len(q) \in Nat /\ f \in Seq(STRING) /\ Len(f) = Len(p) - 1
      /\ \A i \in 1 .. Len(f) : f[i] = p[i]
  <2>1. Len(p) \in Nat \ {0} /\ Len(q) \in Nat
    OBVIOUS
  <2>2. f = SubSeq(p, 1, Len(p) - 1)
    BY DEF Front
  <2> DEFINE n == Len(p) - 1
  <2>4. n \in Nat /\ n < Len(p) /\ \A i \in 1 .. n : i + 1 - 1 = i /\ i \in 1 .. Len(p)
    BY <2>1
  <2> HIDE DEF n, f
  <2>5. f = SubSeq(p, 1, n)
    BY <2>2 DEF n
  <2>6. Len(f) = n /\ \A i \in 1 .. n : f[i] = p[i]
    BY <2>1, <2>4, <2>5
  <2>7. f \in Seq(STRING)
    BY <2>1, <2>4, <2>5
  <2>3. f \in Seq(STRING) /\ Len(f) = Len(p) - 1 /\ \A i \in 1 .. Len(p) - 1 : f[i] = p[i]
    BY <2>6, <2>7 DEF n
  <2> QED
    BY <2>1, <2>3
<1> HIDE DEF f
<1>2. Len(q) <= Len(p) /\ SubSeq(q, 1, Len(q)) = SubSeq(p, 1, Len(q))
  BY DEF path_within, IsPrefix
<1>3. \A i \in 1 .. Len(q) : q[i] = p[i]
  BY <1>1, <1>2
<1>4. Len(q) # Len(p)
  BY <1>1, <1>3
<1>5. Len(q) <= Len(f)
  BY <1>1, <1>2, <1>4
<1>6. \A i \in 1 .. Len(q) : q[i] = f[i]
  BY <1>1, <1>3, <1>5
<1>7. SubSeq(q, 1, Len(q)) = SubSeq(f, 1, Len(q))
  BY <1>1, <1>5, <1>6
<1> QED
  BY <1>5, <1>7 DEF path_within, IsPrefix, f

\* An apply is recovered through the directory its exposure was made in.
LEMMA RecoveryTarget ==
    ASSUME ExposureInv, up, NEW k \in DOMAIN exposures, NEW base \in roots,
           base.root_id = exposures[k].d.root_id, base.identity = fs[base.host_root],
           fs[Front(exposures[k].host_path)] = exposures[k].parent
    PROVE  resolve_recovery_target(k)
<1> DEFINE p == exposures[k].host_path
<1>1. PICK pol \in Policies, t \in Trees : build(pol) /\ roots = RootsOf(pol, t)
  BY DEF ExposureInv, OpenInv
<1>2. PICK in \in roots : PlacedIn(exposures[k], in)
  BY OpenFacts DEF AllPlaced
<1>3. base = in
  <2>1. PICK x \in pol : base = [root_id |-> x.root_id, host_root |-> x.host_root,
                                 modes |-> x.modes, max_ttl |-> x.max_ttl,
                                 runtimes |-> x.runtimes, identity |-> t[x.host_root]]
    BY <1>1 DEF RootsOf
  <2>2. PICK y \in pol : in = [root_id |-> y.root_id, host_root |-> y.host_root,
                               modes |-> y.modes, max_ttl |-> y.max_ttl,
                               runtimes |-> y.runtimes, identity |-> t[y.host_root]]
    BY <1>1, <1>2 DEF RootsOf
  <2>3. x.root_id = y.root_id
    BY <1>2, <2>1, <2>2 DEF PlacedIn
  <2>4. x = y
    BY <1>1, <2>3 DEF build
  <2> QED
    BY <2>1, <2>2, <2>4
<1>4. exposures[k] \in CreateRecords
  BY OpenFacts DEF SoundMaps, Memory
<1>5. p \in Seq(STRING) /\ p # <<>>
  BY <1>4, RecordModes
<1>6. base.host_root \in Seq(STRING)
  BY RootFacts, OpenFacts, ExposureAssumption
<1>7. p # base.host_root /\ path_within(p, base.host_root)
  BY <1>2, <1>3 DEF PlacedIn
<1>8. path_within(Front(p), base.host_root)
  BY <1>5, <1>6, <1>7, PrefixFront
<1>9. recovery_parent_identity_digest(base, p) = exposures[k].parent
  BY <1>8 DEF recovery_parent_identity_digest, open_beneath_root
<1> QED
  BY <1>9 DEF resolve_recovery_target

LEMMA ExposuresKept ==
    ASSUME ExposureInv
    PROVE  ExposuresAreKept
<1>1. JournalReplays
  <2>1. ASSUME Readable, NEW p \in Policies, Widest(p)
        PROVE  Replay(Stored, p).ok
    <3>1. Stored \in Logs
      BY <2>1 DEF Stored, Logs, Readable
    <3> QED
      BY <2>1, <3>1 DEF ExposureInv, LogInv, LogSound, LogsInv
  <2>2. ASSUME up
        PROVE  LET s == Replay(disk, roots)
               IN  s.ok /\ exposures = s.exposures /\ request_records = s.requests
    BY <2>2, OpenFacts DEF Memory
  <2> QED
    BY <2>1, <2>2 DEF JournalReplays, Widest, Covers
<1>2. AcknowledgedSurvives
  <2>1. \A a, b \in created : a.request_id = b.request_id => a = b
    BY DEF ExposureInv, LogsInv
  <2>2. ASSUME up, NEW a \in created
        PROVE  /\ RequestIsKnown(a.request_id, "create", a.digest)
               /\ a.key \in DOMAIN exposures /\ exposures[a.key].d.scope = a.scope
               /\ (\E base \in roots : /\ base.root_id = exposures[a.key].d.root_id
                                       /\ base.identity = fs[base.host_root]
                                       /\ fs[Front(exposures[a.key].host_path)] = a.parent)
                    => resolve_recovery_target(a.key)
    <3> DEFINE q == a.request_id
               k == request_records[q].key
    <3>1. /\ SoundMaps(Memory) /\ ToldIn(Memory, a)
          /\ Memory.exposures = exposures /\ Memory.requests = request_records
      BY <2>2, OpenFacts DEF Memory, AnswersIn
    <3>2. q \in DOMAIN request_records /\ request_records[q].kind = "create"
          /\ a = ToldOf(exposures[k])
      BY <3>1 DEF ToldIn
    <3>3. RequestIsTrue(Memory, q)
      BY <3>1, <3>2 DEF SoundMaps
    <3>4. k \in DOMAIN exposures /\ exposures[k].digest = request_records[q].digest
      BY <3>1, <3>2, <3>3 DEF RequestIsTrue
    <3>5. exposures[k].d.key = k
      BY <3>1, <3>4 DEF SoundMaps
    <3> HIDE DEF q, k
    <3>6. /\ a.key = k /\ a.digest = exposures[k].digest /\ a.scope = exposures[k].d.scope
          /\ a.parent = exposures[k].parent
      BY <3>2, <3>5 DEF ToldOf
    <3>7. RequestIsKnown(a.request_id, "create", a.digest)
      BY <3>2, <3>4, <3>6 DEF RequestIsKnown, q
    <3> QED
      BY <2>2, <3>4, <3>6, <3>7, RecoveryTarget
  <2> QED
    BY <2>1, <2>2 DEF AcknowledgedSurvives
<1>3. RevokedStaysRevoked
  BY OpenFacts DEF RevokedStaysRevoked, AnswersIn, RevokedIn, Memory
<1>4. OneActiveGeneration
  <2> SUFFICES ASSUME up, NEW k \in DOMAIN exposures, NEW l \in DOMAIN exposures,
                      k[1] = l[1], list[k] = "active", list[l] = "active"
               PROVE  k = l
    BY DEF OneActiveGeneration
  <2>1. \A x \in {k, l} : projected(exposures[x]) = "active"
    BY DEF list
  <2>2. SoundMaps(Memory) /\ Memory.exposures = exposures /\ OldAreOver(exposures, clock)
        /\ clock \in Nat
    BY OpenFacts DEF Memory, ExposureInv, ExposureTypes
  <2>3. \A x \in {k, l} : /\ exposures[x] \in CreateRecords /\ x \in ExposureKeys
    BY <2>2 DEF SoundMaps
  <2>4. \A x \in {k, l} : exposures[x].d.expires_at_ms \in Nat
    BY <2>3 DEF CreateRecords, Descriptors
  <2>5. \A x \in {k, l} : Live(exposures[x], clock)
    BY <2>1, <2>2, <2>4 DEF projected, Live
  <2>6. ~(k[2] < l[2]) /\ ~(l[2] < k[2])
    BY <2>2, <2>5 DEF OldAreOver
  <2> QED
    BY <2>3, <2>6 DEF ExposureKeys
<1> QED
  BY <1>1, <1>2, <1>3, <1>4 DEF ExposuresAreKept

\* For every set of creations, revocations, policies and files, and any number
\* of failing appends, deaths and restarts: the journal can be read again, the
\* registry holds what it says, an acknowledged exposure and an acknowledged
\* revocation stay, and one generation at most is active.
THEOREM ExposureSafety == ExposureSpec => []ExposuresAreKept
<1>1. ExposureInv => ExposuresAreKept
  BY ExposuresKept
<1> QED
  BY <1>1, ExposureInvariant, PTL

LEMMA GrantSteps ==
    ASSUME ExposureInv, [ExposureNext]_exposureVars
    PROVE  GrantStep
<1>1. CASE resolve_grant
  <2> DEFINE g == resolving.grant
             e == exposures[g.key]
  <2>1. /\ up /\ resolving # None
        /\ resolved' = IF StillGranted(g, resolving.now)
                         THEN [grant |-> g, host_path |-> e.host_path,
                               identity |-> fs[e.host_path], launched |-> FALSE]
                         ELSE None
    BY <1>1 DEF resolve_grant
  <2>2. CASE ~StillGranted(g, resolving.now)
    BY <2>1, <2>2 DEF GrantStep
  <2>3. CASE StillGranted(g, resolving.now)
    <3>1. g.key \in DOMAIN exposures /\ e.d.state = "active" /\ SourceIsExposed(e)
      BY <2>3 DEF StillGranted, Live
    <3>2. fs[e.host_path] = e.d.source
      BY <2>1, <3>1, ExposedSource
    <3>3. g.mode.max_bytes \in Nat /\ mode_is_subset(g.mode, e.d.modes)
      BY <2>1 DEF ExposureInv, GrantInv
    <3>4. PICK base \in roots : PlacedIn(e, base)
      BY <2>1, <3>1, OpenFacts DEF AllPlaced
    <3>5. e \in CreateRecords
      BY <2>1, <3>1, OpenFacts DEF SoundMaps, Memory
    <3>6. Unsigned(e.d.modes) /\ Unsigned(base.modes)
      BY <2>1, <3>5, RecordModes, RootFacts, OpenFacts
    <3>7. \A m \in e.d.modes : mode_is_subset(m, base.modes)
      BY <3>4 DEF PlacedIn, WithinPolicy
    <3>8. mode_is_subset(g.mode, base.modes)
      BY <3>3, <3>6, <3>7, ModeWithin
    <3>9. base.root_id = e.d.root_id /\ path_within(e.host_path, base.host_root)
      BY <3>4 DEF PlacedIn
    <3>10. resolved'.grant = g /\ resolved'.identity = fs[e.host_path] /\ resolved'.launched = FALSE
      BY <2>1, <2>3
    <3> HIDE DEF g
    <3> QED
      BY <3>1, <3>2, <3>8, <3>9, <3>10 DEF GrantStep
  <2> QED
    BY <2>2, <2>3
<1>2. CASE verify_identity
  <2>1. /\ resolved # None
        /\ resolved' = IF ~resolved.launched /\ fs[resolved.host_path] = resolved.identity
                         THEN [resolved EXCEPT !.launched = TRUE] ELSE None
    BY <1>2 DEF verify_identity
  <2>2. /\ resolved = [grant |-> resolved.grant, host_path |-> resolved.host_path,
                       identity |-> resolved.identity, launched |-> resolved.launched]
        /\ resolved.identity = exposures[resolved.grant.key].d.source
    BY <2>1 DEF ExposureInv, GrantInv
  <2>3. CASE ~resolved.launched /\ fs[resolved.host_path] = resolved.identity
    <3>1. resolved' = [grant |-> resolved.grant, host_path |-> resolved.host_path,
                       identity |-> resolved.identity, launched |-> TRUE]
      BY <2>1, <2>2, <2>3
    <3> QED
      BY <2>1, <2>2, <2>3, <3>1 DEF GrantStep
  <2>4. CASE ~(~resolved.launched /\ fs[resolved.host_path] = resolved.identity)
    BY <2>1, <2>4 DEF GrantStep
  <2> QED
    BY <2>3, <2>4
<1>3. CASE resolved' = resolved \/ resolved' = None
  BY <1>3 DEF GrantStep
<1> QED
  <2>1. resolve_grant \/ verify_identity \/ resolved' = resolved \/ resolved' = None
    BY DEF ExposureNext, exposureVars, calls, open_journal, load, append, append_fails, create,
           create_again, revoke, revoke_again, validate_grant, DaemonDies, SetPolicy, Tick, Replace
  <2> QED
    BY <1>1, <1>2, <1>3, <2>1

\* A grant is resolved only to the object that was exposed, while its generation
\* is active and inside a root that allows its mode, although the mutex is
\* released between the halves of resolve_grant; what is launched is that object.
THEOREM GrantsResolveTruly == ExposureSpec => ResolvedIsGranted
<1>1. ExposureInv /\ [ExposureNext]_exposureVars => [GrantStep]_exposureVars
  BY GrantSteps
<1> QED
  BY <1>1, ExposureInvariant, PTL DEF ExposureSpec, ResolvedIsGranted

===========================================================================
