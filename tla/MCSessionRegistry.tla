------------------------- MODULE MCSessionRegistry -------------------------
(* Small instances of the session registry for TLC.                        *)
EXTENDS SessionRegistry, TLC

\* Plans outlive the clock by one tick, so an authorization can end before
\* or with its plan.
MCPlanExpiry == [p \in Plans |-> MaxTime + 1]

\* The executor derives the key of every transition from the start request
\* (key.starting, key.running, ...), the client chooses the stop key freely:
\* here it may be the very key the exit will use.
Suffixed(k) == [op \in LifecycleOps |-> <<k, op>>]
MCCallerKeys ==
    [op \in LifecycleOps |->
        IF op \in {"mark_stopping", "mark_managed_stopping"}
          THEN {Suffixed("k")[op], Suffixed("k")["mark_exited"]}
          ELSE {Suffixed("k")[op]}]

\* Clients that reserve compete under their own key or a shared one.
MCCompetingKeys ==
    [MCCallerKeys EXCEPT !["reserve_start"] = {Suffixed(k)["reserve_start"] : k \in {"k", "l"}}]

\* A catalog that admits every body, and one that admits none any more (a
\* schema that was dropped from the configuration).
MCCatalogs == {[b \in Bodies |-> MaxIntentTTL], [b \in Bodies |-> 0]}

\* The clock is set back only while no start is being authorized.
MCNext ==
    /\ Next
    /\ now' < now => /\ \A s \in Sessions : View(s).state # "preparing"
                     /\ \A th \in Threads : inflight[th] = None
MCSpec == Init /\ [][MCNext]_vars

Permuted == Permutations(Threads)
============================================================================
