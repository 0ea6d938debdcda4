------------------------ MODULE MCLinuxSessionRuntime ------------------------
(* The instances of LinuxSessionRuntime that TLC checks. *)
EXTENDS LinuxSessionRuntime

CONSTANT Solo         \* the session that is started when only one is

\* Which sessions are ever started.  A lone session meets a failed write and
\* the end of its daemon in any order; two meet one or the other.
VARIABLE started

MCInit == Init /\ started \in {{Solo}, Sessions}

MCNext ==
    /\ Next
    /\ \A s \in Sessions \ started : state'[s] = "created"
    /\ started = Sessions => faults' + crashes' <= 1
    /\ UNCHANGED started

MCSpec == MCInit /\ [][MCNext]_<<vars, started>>
MCFairSpec == MCSpec /\ Fairness
============================================================================
