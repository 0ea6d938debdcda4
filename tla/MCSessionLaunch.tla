--------------------------- MODULE MCSessionLaunch ---------------------------
(* What a session's launch rests on, one part at a time, since the parts    *)
(* share no state: the exposures its grants are resolved against; its       *)
(* filesystem; launches of the four kinds, with mount sets a managed launch *)
(* accepts or refuses and descriptor layouts that collide with the reserved *)
(* numbers; and the pump that drains a launched child.                      *)
EXTENDS PathExposure, SessionFilesystem, SandboxLaunch, OutputPump, TLC

VARIABLE active   \* "exposure", "filesystem", "launch" or "pump"

-----------------------------------------------------------------------------
(* Exposures: two creations of one exposure under a root whose policy may   *)
(* be narrowed.                                                             *)

ReadMode == [access |-> "read", materialization |-> "bind", max_bytes |-> 0,
         cleanup_policy |-> "retain"]
CopyMode(n) == [access |-> "ephemeral_write", materialization |-> "copy",
            max_bytes |-> n, cleanup_policy |-> "remove"]

ExposedRoot(modes) == [root_id |-> "srv", host_root |-> <<"srv">>, modes |-> modes,
                max_ttl |-> 2, runtimes |-> {"rt"}]

\* The administrator may take the copies out of the policy.
MCPolicies == {{ExposedRoot({ReadMode, CopyMode(2)})}, {ExposedRoot({ReadMode})}}

MCTree == <<"srv">> :> "i0" @@ <<"srv", "d">> :> "i1"
            @@ <<"srv", "d", "f">> :> "i2"

Request(id, modes, ttl) ==
    [request_id |-> id, exposure_id |-> "e", root_id |-> "srv",
     host_path |-> <<"srv", "d", "f">>, modes |-> modes, ttl_secs |-> ttl,
     runtimes |-> <<"rt">>]

MCCreations == {Request("c1", <<ReadMode, CopyMode(2)>>, 1), Request("c2", <<ReadMode>>, 2)}
MCAsked == {[mode |-> CopyMode(1), ttl_secs |-> 1, runtime |-> "rt"],
            [mode |-> ReadMode, ttl_secs |-> 1, runtime |-> "rt"]}
MCSize == [k \in {"create", "revoke"} |-> IF k = "create" THEN 3 ELSE 1]

-----------------------------------------------------------------------------
(* Filesystems: plans with a retained copy, with a retained and an          *)
(* ephemeral copy, and four that create must refuse.                        *)

Writable(alias, kind, bytes, target) ==
    [alias |-> alias, kind |-> kind, bytes |-> bytes, target |-> target]

MCAliases == {"keep", "work"}
MCPlans ==
    { <<Writable("keep", "retained", 4, <<"w", "a">>)>>,
      <<Writable("lib", "read", 0, <<"w", "l">>), Writable("work", "ephemeral", 2, <<"w", "b">>),
        Writable("keep", "retained", 4, <<"w", "a">>)>>,
      <<Writable("keep", "retained", 2, <<"w", "a">>)>>,
      <<Writable("work", "ephemeral", 3, <<"w", "b">>)>>,
      <<Writable("work", "ephemeral", 4, <<"w", "b">>), Writable("keep", "retained", 4, <<"w", "a">>)>>,
      <<Writable("work", "ephemeral", 2, <<"w">>), Writable("keep", "retained", 4, <<"w", "a">>)>> }

-----------------------------------------------------------------------------
(* Launches.                                                                *)

Plain(alias, target, part, bytes, writable, ident) ==
    [alias |-> alias, target |-> target, part |-> part, bytes |-> bytes,
     writable |-> writable, dir |-> ident # "file",
     ident |-> IF part = "scratch" THEN "none" ELSE ident, secret |-> "",
     service |-> FALSE, library |-> FALSE, adapter |-> "", adoption |-> FALSE]
Tmp == Plain("scratch-tmp", <<"tmp">>, "scratch", 2, TRUE, "dir")
VarTmp == Plain("scratch-var", <<"var", "tmp">>, "scratch", 2, TRUE, "dir")
Work == Plain("work", <<"workspace">>, "work", 4, TRUE, "dir")
RuntimeHome == [Plain("runtime-home", Home, "scratch", 2, TRUE, "dir")
                    EXCEPT !.adapter = "pi", !.adoption = TRUE]
Secret(runtime) == [Plain("secret", Home \o <<"key">>, "", 0, TRUE, "file")
                        EXCEPT !.secret = runtime]
Service == [Plain("local-services", <<"run", "glove-services", "local">>, "", 0, FALSE, "dir")
                EXCEPT !.service = TRUE]
Library == [Plain("library", <<"opt", "lib">>, "", 0, FALSE, "file") EXCEPT !.library = TRUE]

Job == [kind |-> "pty", net |-> "none", streams |-> 0, env |-> {}, mounts |-> <<>>,
        rules |-> <<>>, program |-> <<"opt", "bin", "agent">>, direct |-> TRUE,
        diskBytes |-> 6, home |-> FALSE, workDir |-> <<"workspace">>,
        limitsMatch |-> TRUE, layout |-> <<>>]

Low == <<"stream2", "stream1", "sync_r", "egress_s", "master", "slave", "program",
         "mount", "sync_w", "egress_h", "daemon", "out_r", "out_w", "err_r", "err_w">>
High == <<"sync_r", "egress_s", "daemon", "in_r", "in_w", "out_r", "out_w", "err_r",
          "err_w", "master", "slave", "sync_w", "egress_h", "program", "mount",
          "stream1", "stream2">>
Closure == << <<"usr">>, <<"opt">> >>

Unmanaged ==
    { [Job EXCEPT !.kind = k, !.net = n, !.layout = High, !.rules = Closure] :
        k \in {"mcp", "exec"}, n \in {"none", "bridge"} }
Launched ==
    { [Job EXCEPT !.kind = k, !.net = n, !.streams = s, !.direct = d, !.layout = l,
                  !.env = IF s = 0 THEN {} ELSE {"fds"},
                  !.mounts = <<Tmp, VarTmp, Work>>, !.rules = Closure] :
        k \in {"managed", "pty"}, n \in {"none", "proxy"}, s \in {0, 2},
        d \in BOOLEAN, l \in {Low, High} }
\* Orders and combinations of mounts, one layout.
MountSets ==
    { <<Tmp, VarTmp, RuntimeHome, Secret("pi"), Service>>,
      <<Tmp, VarTmp, Secret("pi"), RuntimeHome, Service>>,
      <<Tmp, VarTmp, RuntimeHome, Secret("codex"), Service>>,
      <<RuntimeHome, Secret("pi"), VarTmp, Tmp, Library, Service>>,
      <<Tmp, VarTmp, RuntimeHome, Service, Service>>,
      <<Tmp, RuntimeHome, Service>>,
      <<Tmp, VarTmp, [RuntimeHome EXCEPT !.bytes = 4], Service>>,
      <<Tmp, VarTmp, [Work EXCEPT !.target = <<"opt">>], RuntimeHome, Service>> }
Mounted ==
    { [Job EXCEPT !.mounts = ms, !.rules = Closure, !.layout = High, !.home = TRUE,
                  !.diskBytes = b, !.workDir = Home, !.env = {"dir"}] :
        ms \in MountSets, b \in {2, 6} }
Refused ==
    { [Job EXCEPT !.mounts = <<Tmp, VarTmp, Work>>, !.net = "bridge", !.layout = High],
      [Job EXCEPT !.mounts = <<Tmp, VarTmp, Work>>, !.limitsMatch = FALSE, !.layout = High],
      [Job EXCEPT !.mounts = <<Tmp, VarTmp, Work>>, !.env = {"fds"}, !.layout = High] }

MCJobs == Unmanaged \cup Launched \cup Mounted \cup Refused
MCOutputs == { <<1, 0, 0, 2, 0>>, <<1, 0, 2, 3>> }

-----------------------------------------------------------------------------
\* A part that is not active rests in one of its initial states.
MCInit ==
    /\ ExposureInit /\ FilesystemInit /\ Init /\ PumpInit
    /\ active \in {"exposure", "filesystem", "launch", "pump"}
    /\ active # "exposure" => policy = CHOOSE p \in Policies : TRUE
    /\ active # "launch" => job = CHOOSE j \in Jobs : TRUE
    /\ active # "pump" => use = "mcp" /\ script = CHOOSE o \in Outputs : TRUE

MCNext ==
    /\ UNCHANGED active
    /\ \/ active = "exposure" /\ ExposureNext
          /\ UNCHANGED <<filesystemVars, vars, pumpVars>>
       \/ active = "filesystem" /\ FilesystemNext
          /\ UNCHANGED <<exposureVars, vars, pumpVars>>
       \/ active = "launch" /\ Next
          /\ UNCHANGED <<exposureVars, filesystemVars, pumpVars>>
       \/ active = "pump" /\ PumpNext
          /\ UNCHANGED <<exposureVars, filesystemVars, vars>>

MCSpec ==
    MCInit /\ [][MCNext]_<<active, exposureVars, filesystemVars, vars, pumpVars>>

\* Every process and thread of the active part is scheduled, a daemon that is
\* down is started, and a receiver receives until it is told an error;
\* nothing is asked of guests, callers or failures.
MCFairSpec ==
    /\ MCSpec
    /\ WF_filesystemVars(active = "filesystem" /\ Boot)
    /\ \A s \in Sessions : WF_filesystemVars(active = "filesystem" /\ Step(s))
    /\ WF_vars(active = "launch" /\ ParentNext)
    /\ WF_vars(active = "launch" /\ ChildNext)
    /\ WF_pumpVars(active = "pump" /\ Worker)
    /\ WF_pumpVars(active = "pump" /\ Users)

\* A start of the daemon reaches service, a launch is settled whoever fails,
\* and a pump lets go of everyone who waits for it.
PartsSettle == []<>(Serving /\ LaunchSettled /\ PumpSettled)
=============================================================================
