--------------------------- MODULE MCChangeApply ---------------------------
(* The instances of ChangeApply that TLC checks. *)
EXTENDS ChangeApply

\* Grants 1 and 2 are for one change, 4 is for one without changes.
MCManifestOf == [g \in Grants |-> <<"m1", "m1", "m2", "m3">>[g]]

\* The grants that are used.  Two of one change, or of two, meet a failing
\* call, an edit and a daemon that dies; three meet only a daemon that dies
\* twice, alone or with the machine.
VARIABLE team

Rough == Cardinality(team) = 2

MCInit == Init /\ team \in {{1, 2}, {1, 3}, {1, 2, 4}}

MCNext ==
    /\ Next
    /\ \A g \in Grants \ team : pc'[g] = "idle"
    /\ IF Rough
         THEN crashes' <= 1 /\ (crashes' > crashes => disk' = disk /\ tree' = tree)
         ELSE faults' + edits' = 0
    /\ UNCHANGED team

\* execute_change_apply_exchange and its cleanup: as long as the power does not
\* fail, the live name has a whole tree, and the one it had at first is not
\* lost before its replacement is recorded.
TreesSurviveCrashes == Rough => TreesSurvive

MCSpec == MCInit /\ [][MCNext]_<<vars, team>>
MCFairSpec == MCSpec /\ Fairness
============================================================================
