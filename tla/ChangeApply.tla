---------------------------- MODULE ChangeApply ----------------------------
(***************************************************************************)
(* Applying a retained change to the host: change_apply_gate.cpp (the      *)
(* order of the steps and recovery), change_apply_exchange.cpp (the        *)
(* exchange of two directory entries) and change_apply_journal.cpp (the    *)
(* ledger of authorizations).                                              *)
(*                                                                         *)
(* Every grant here is for the same live entry.  An object is a file or    *)
(* directory with an inode: Original, or the copy made for a grant.  The   *)
(* parent directory gives the live name and the candidate names their      *)
(* objects; content is what each object holds, "part" if it is incomplete. *)
(* A digest is the tree it was computed from, an identity the object.      *)
(*                                                                         *)
(* Calls for different grants may run at once, with one caller per grant;  *)
(* an operator may edit the live entry at any time.  A call for a consumed *)
(* grant is refused and is a stuttering step.                              *)
(***************************************************************************)
EXTENDS Integers, Sequences, FiniteSets, SequencesExt

CONSTANTS
    Grants,          \* authorizations: grant, authorization digest, candidate
    Manifests,       \* retained changes, each with its staged tree
    ManifestOf,      \* the manifest a grant authorizes
    Unchanged,       \* manifests whose staged tree is the baseline
    Original,        \* the entry the exposure names
    MaxRecords,      \* max_records of the journal
    MaxFaults,       \* bound: failed system calls
    MaxCrashes,      \* bound: how often the daemon dies
    MaxEdits,        \* bound: how often the live entry is edited
    PowerMayFail,    \* may a crash lose what was not synced?
    Junk,            \* bytes that are not a record
    None

ASSUME ApplyAssumption ==
    /\ IsFiniteSet(Grants)
    /\ ManifestOf \in [Grants -> Manifests]
    /\ Unchanged \subseteq Manifests
    /\ Original \notin Grants
    /\ None \notin Grants \cup {Original} /\ Junk # None
    /\ MaxRecords \in Nat /\ MaxFaults \in Nat
    /\ MaxCrashes \in Nat /\ MaxEdits \in Nat
    /\ PowerMayFail \in BOOLEAN

Objects == Grants \cup {Original}
Trees == Manifests \cup {"baseline", "edited", "part"}
Staged(g) == IF ManifestOf[g] \in Unchanged THEN "baseline" ELSE ManifestOf[g]

\* change_apply_reservation_record and change_apply_terminal_record; final is
\* the identity of the live entry in the terminal record.
Record == [grant : Grants, state : {"reserved"}, final : {None}]
            \cup [grant : Grants, state : {"applied", "failed"}, final : Objects]
Reservation(g) == [grant |-> g, state |-> "reserved", final |-> None]
Applied(g, o) == [grant |-> g, state |-> "applied", final |-> o]
Failed(g) == [grant |-> g, state |-> "failed", final |-> Original]

ASSUME TagsAssumption ==
    /\ None \notin Record /\ Junk \notin Record
    /\ Manifests \cap {"baseline", "edited", "part", None} = {}
    /\ None \notin {"baseline", "edited", "part"}

VARIABLES
    \* the journal file
    header,          \* "absent" | "blank" (created, no magic) | "valid"
    disk,            \* its records
    tail,            \* bytes after them: None, Junk or a whole record
    synced,          \* how many of the records no loss of power takes
    \* the parent directory and what its entries hold
    source,          \* the object with the live name
    candidate,       \* the object with each candidate name, or None
    content,         \* what each object holds, None if it is not there
    stale,           \* the file systems a loss of power may bring back
    \* the daemon
    open,
    grants,          \* the journal's map: the latest record of a grant, or None
    sweep,           \* records reconcile_change_apply_journal has to visit
    pc,              \* where the call for each grant is
    observed,        \* the live entry's identity it saw last
    faults, crashes, edits,
    exchanges        \* history: how often each grant's exchange was made

file == <<header, disk, tail, synced>>
tree == <<source, candidate, content>>
memory == <<open, grants, sweep, pc, observed>>
vars == <<file, tree, stale, memory, faults, crashes, edits, exchanges>>

Init ==
    /\ header = "absent" /\ disk = <<>> /\ tail = None /\ synced = 0
    /\ source = Original /\ candidate = [g \in Grants |-> None]
    /\ content = [o \in Objects |-> IF o = Original THEN "baseline" ELSE None]
    /\ stale = {}
    /\ open = FALSE /\ grants = [g \in Grants |-> None] /\ sweep = {}
    /\ pc = [g \in Grants |-> "idle"] /\ observed = [g \in Grants |-> None]
    /\ faults = 0 /\ crashes = 0 /\ edits = 0
    /\ exchanges = [g \in Grants |-> 0]

Goto(g, to) == pc' = [pc EXCEPT ![g] = to]
Fault == faults < MaxFaults /\ faults' = faults + 1
NoFault == UNCHANGED faults
StateOf(g) == IF grants[g] = None THEN "none" ELSE grants[g].state

\* fsync of the parent directory; a change that is not synced leaves the file
\* system before it among those that may come back.
Synced == stale' = {}
Unsynced == stale' = stale \cup {tree}

---------------------------------------------------------------------------
(* The journal.                                                            *)

\* The statuses a replay of records yields: of each grant its last record.
Replay(recs) ==
    [g \in Grants |->
        LET own == {i \in 1..Len(recs) : recs[i].grant = g}
        IN  IF own = {} THEN None ELSE recs[Max(own)]]

\* What open accepts of record n after the ones before it.
ValidRecord(recs, n) ==
    LET before == {recs[i] : i \in 1..(n - 1)}
        own == {r \in before : r.grant = recs[n].grant}
    IN  IF recs[n].state = "reserved"
          THEN \A r \in before : ManifestOf[r.grant] # ManifestOf[recs[n].grant]
          ELSE own # {} /\ \A r \in own : r.state = "reserved"
Replayable(recs) ==
    Len(recs) <= MaxRecords /\ \A n \in 1..Len(recs) : ValidRecord(recs, n)

\* The records open reads: a whole record in the tail counts.
Readable == IF tail \in Record THEN Append(disk, tail) ELSE disk

\* open_file makes the file; the daemon may die, or fail to discard the file,
\* before the magic is written.  Anything after the last record that is not a
\* record is refused; a whole one is accepted, though it was never synced.
open_journal ==
    /\ ~open
    /\ \/ /\ header = "absent"
          /\ \/ header' = "valid" /\ open' = TRUE
             \/ header' = "blank" /\ open' = FALSE
          /\ UNCHANGED <<disk, tail, grants>>
       \/ /\ header = "valid" /\ tail # Junk /\ Replayable(Readable)
          /\ disk' = Readable /\ tail' = None /\ grants' = Replay(Readable)
          /\ open' = TRUE
          /\ UNCHANGED header
    /\ UNCHANGED <<synced, tree, stale, sweep, pc, observed, faults, crashes,
                   edits, exchanges>>

\* append_record, when it succeeds: the record is synced; what an earlier
\* failure left behind is overwritten, perhaps not to its end.
AppendOk(r) ==
    /\ Len(disk) < MaxRecords
    /\ disk' = Append(disk, r) /\ synced' = Len(disk')
    /\ tail' \in (IF tail = None THEN {None} ELSE {None, Junk})
    /\ grants' = [grants EXCEPT ![r.grant] = r]
    /\ NoFault

\* Mutant: the failed record is kept in memory.
AppendFails_remembered(r) ==
    /\ Len(disk) < MaxRecords /\ Fault /\ tail' \in {None, Junk, r, tail}
    /\ grants' = [grants EXCEPT ![r.grant] = r]
    /\ UNCHANGED <<disk, synced>>

\* When it fails, or the record is refused before it is written, the
\* truncation back may fail too, unnoticed.
AppendFails(r) ==
    /\ \/ Len(disk) >= MaxRecords /\ NoFault /\ UNCHANGED tail
       \/ Len(disk) < MaxRecords /\ Fault /\ tail' \in {None, Junk, r, tail}
    /\ UNCHANGED <<disk, synced, grants>>

\* Mutant: the digest of the manifest is not looked up.
Unused_by_grant(g) == grants[g] = None

\* The grant, its authorization and its manifest are each single-use.
Unused(g) ==
    \A h \in Grants : grants[h] # None => ManifestOf[h] # ManifestOf[g]

---------------------------------------------------------------------------
(* execute_authorized_change_apply.                                        *)

\* The live entry is the one the manifest names and holds its baseline.
Eligible(g) == source = Original /\ content[Original] = "baseline"

\* The authorization is verified and the preconditions hold.
execute_authorized_change_apply(g) ==
    /\ open /\ sweep = {} /\ pc[g] = "idle"
    /\ grants[g] = None /\ Eligible(g)
    /\ Goto(g, "reserve")
    /\ UNCHANGED <<file, tree, stale, open, grants, sweep, observed, faults,
                   crashes, edits, exchanges>>

reserve(g) ==
    /\ pc[g] = "reserve"
    /\ \/ Unused(g) /\ AppendOk(Reservation(g)) /\ Goto(g, "create")
       \/ Unused(g) /\ AppendFails(Reservation(g)) /\ Goto(g, "idle")
       \/ ~Unused(g) /\ Goto(g, "idle")
          /\ UNCHANGED <<disk, tail, synced, grants, faults>>
    /\ UNCHANGED <<header, tree, stale, open, sweep, observed, crashes, edits,
                   exchanges>>

\* execute_change_apply_exchange: the preconditions once more, no candidate
\* of that name, and an empty one is made.
create_candidate(g) ==
    /\ pc[g] = "create"
    /\ \/ /\ Eligible(g) /\ candidate[g] = None
          /\ candidate' = [candidate EXCEPT ![g] = g]
          /\ content' = [content EXCEPT ![g] = "part"]
          /\ Unsynced /\ Goto(g, "copy") /\ NoFault
       \/ /\ \/ ~(Eligible(g) /\ candidate[g] = None) /\ NoFault
             \/ Fault
          /\ Goto(g, "inspect") /\ UNCHANGED <<candidate, content, stale>>
    /\ UNCHANGED <<file, source, open, grants, sweep, observed, crashes, edits,
                   exchanges>>

\* Mutant: a copy that failed, and its digest, go unnoticed.
copy_staged_tree_unchecked(g) ==
    /\ pc[g] = "copy" /\ Goto(g, "check") /\ Synced
    /\ \/ content' = [content EXCEPT ![g] = Staged(g)] /\ NoFault
       \/ Fault /\ UNCHANGED content
    /\ UNCHANGED <<file, source, candidate, open, grants, sweep, observed,
                   crashes, edits, exchanges>>

\* The stage is copied, every file and directory synced, then the parent.
copy_staged_tree(g) ==
    /\ pc[g] = "copy"
    /\ \/ /\ content' = [content EXCEPT ![g] = Staged(g)]
          /\ Synced /\ Goto(g, "check") /\ NoFault
       \/ Fault /\ Goto(g, "unwind") /\ UNCHANGED <<content, stale>>
    /\ UNCHANGED <<file, source, candidate, open, grants, sweep, observed,
                   crashes, edits, exchanges>>

\* The source must still be the baseline, under its identity.
check_source(g) ==
    /\ pc[g] = "check"
    /\ \/ Goto(g, IF Eligible(g) THEN "exchange" ELSE "unwind") /\ NoFault
       \/ Goto(g, "unwind") /\ Fault
    /\ UNCHANGED <<file, tree, stale, open, grants, sweep, observed, crashes,
                   edits, exchanges>>

\* renameat2(RENAME_EXCHANGE).
exchange(g) ==
    /\ pc[g] = "exchange"
    /\ \/ /\ source' = candidate[g]
          /\ candidate' = [candidate EXCEPT ![g] = source]
          /\ Unsynced /\ Goto(g, "sync") /\ NoFault
          /\ exchanges' = [exchanges EXCEPT ![g] = @ + 1]
       \/ Fault /\ Goto(g, "unwind")
          /\ UNCHANGED <<source, candidate, stale, exchanges>>
    /\ UNCHANGED <<file, content, open, grants, sweep, observed, crashes,
                   edits>>

\* Mutant: pending_candidate is released after the sync.
sync_exchange_unreleased(g) ==
    /\ pc[g] = "sync"
    /\ \/ Synced /\ Goto(g, "verify") /\ NoFault
       \/ Fault /\ Goto(g, "unwind") /\ UNCHANGED stale
    /\ UNCHANGED <<file, tree, open, grants, sweep, observed, crashes, edits,
                   exchanges>>

\* The candidate, now what was live, is no longer unwound.
sync_exchange(g) ==
    /\ pc[g] = "sync"
    /\ \/ Synced /\ Goto(g, "verify") /\ NoFault
       \/ Fault /\ Goto(g, "inspect") /\ UNCHANGED stale
    /\ UNCHANGED <<file, tree, open, grants, sweep, observed, crashes, edits,
                   exchanges>>

\* Both entries are read back.
verify_exchange(g) ==
    /\ pc[g] = "verify"
    /\ LET verified == /\ content[source] = Staged(g)
                       /\ content[candidate[g]] = "baseline"
       IN  \/ /\ verified /\ Goto(g, "finalize") /\ NoFault
              /\ observed' = [observed EXCEPT ![g] = source]
           \/ /\ \/ ~verified /\ NoFault
                 \/ Fault
              /\ Goto(g, "inspect") /\ UNCHANGED observed
    /\ UNCHANGED <<file, tree, stale, open, grants, sweep, crashes, edits,
                   exchanges>>

---------------------------------------------------------------------------
(* Removing a candidate, first what it holds, then its name.               *)

RemoveContents(g, at, next) ==
    /\ pc[g] = at /\ candidate[g] # None
    /\ content' = [content EXCEPT ![candidate[g]] = "part"]
    /\ Unsynced /\ Goto(g, next)
    /\ UNCHANGED <<file, source, candidate, open, grants, sweep, observed,
                   faults, crashes, edits, exchanges>>

\* The name goes and the parent is synced, which may fail.
Unlink(g, next) ==
    /\ candidate' = [candidate EXCEPT ![g] = None]
    /\ content' = [content EXCEPT ![candidate[g]] = None]
    /\ UNCHANGED source
    /\ \/ Synced /\ NoFault /\ Goto(g, next)
       \/ Unsynced /\ Fault
          /\ Goto(g, IF pc[g] = "unwind_unlink" THEN next ELSE "idle")
    /\ UNCHANGED <<file, open, grants, sweep, observed, crashes, edits,
                   exchanges>>

\* The call gives up and leaves what is there.
GiveUp(g, at, next) ==
    /\ pc[g] = at /\ Fault /\ Goto(g, next)
    /\ UNCHANGED <<file, tree, stale, open, grants, sweep, observed, crashes,
                   edits, exchanges>>

\* The destructor of pending_candidate ignores its failures.
unwind(g) ==
    \/ RemoveContents(g, "unwind", "unwind_unlink")
    \/ GiveUp(g, "unwind", "inspect")
    \/ pc[g] = "unwind_unlink" /\ Unlink(g, "inspect")
    \/ GiveUp(g, "unwind_unlink", "inspect")

---------------------------------------------------------------------------
(* Recovery.                                                               *)

\* Mutant: baseline and staged are mixed up when there is a candidate.
classify_swapped(g) ==
    LET s == content[source]
        c == IF candidate[g] = None THEN None ELSE content[candidate[g]]
    IN  CASE c = None /\ s = "baseline" -> "reserved"
          [] c = "baseline" /\ s = Staged(g) -> "candidate_prepared"
          [] c = Staged(g) /\ s = "baseline" /\ s # c -> "exchange_committed"
          [] OTHER -> "ambiguous"

\* classify_change_apply_recovery.
classify(g) ==
    LET s == content[source]
        c == IF candidate[g] = None THEN None ELSE content[candidate[g]]
    IN  CASE c = None /\ s = "baseline" -> "reserved"
          [] c = Staged(g) /\ s = "baseline" -> "candidate_prepared"
          [] c = "baseline" /\ s = Staged(g) /\ s # c -> "exchange_committed"
          [] OTHER -> "ambiguous"

\* Mutant: a prepared candidate is left where it is.
inspect_without_discard(g) ==
    /\ pc[g] \in {"inspect", "inspect_again", "inspect_committed"}
    /\ observed' = [observed EXCEPT ![g] = source]
    /\ Goto(g, IF classify(g) = "exchange_committed" THEN "finalize" ELSE "idle")
    /\ UNCHANGED <<file, tree, stale, open, grants, sweep, faults, crashes,
                   edits, exchanges>>

\* inspect_change_apply_exchange_recovery and what recover_record does next.
inspect(g) ==
    /\ pc[g] \in {"inspect", "inspect_again", "inspect_committed"}
    /\ observed' = [observed EXCEPT ![g] = source]
    /\ \/ /\ Goto(g,
                CASE classify(g) = "exchange_committed"
                       /\ pc[g] # "inspect_again" -> "finalize"
                  [] classify(g) = "candidate_prepared"
                       /\ pc[g] = "inspect" -> "discard"
                  [] classify(g) = "reserved" /\ source = Original
                       /\ pc[g] # "inspect_committed" -> "finalize_failed"
                  [] OTHER -> "idle")
          /\ NoFault
       \/ Fault /\ Goto(g, "idle")
    /\ UNCHANGED <<file, tree, stale, open, grants, sweep, crashes, edits,
                   exchanges>>

\* discard_prepared_change_apply_candidate inspects once more; the source must
\* still be the entry that was reserved.
discard(g) ==
    \/ /\ classify(g) = "candidate_prepared" /\ source = Original
       /\ RemoveContents(g, "discard", "discard_unlink")
    \/ /\ pc[g] = "discard"
       /\ ~(classify(g) = "candidate_prepared" /\ source = Original)
       /\ Goto(g, "idle")
       /\ UNCHANGED <<file, tree, stale, open, grants, sweep, observed, faults,
                      crashes, edits, exchanges>>
    \/ GiveUp(g, "discard", "idle")
    \/ pc[g] = "discard_unlink" /\ Unlink(g, "inspect_again")
    \/ GiveUp(g, "discard_unlink", "idle")

\* finalize: one terminal record per reservation.
Finalize(g, r, next) ==
    /\ \/ StateOf(g) = "reserved" /\ AppendOk(r) /\ Goto(g, next)
       \/ StateOf(g) = "reserved" /\ AppendFails(r) /\ Goto(g, "idle")
    /\ UNCHANGED <<header, tree, stale, open, sweep, observed, crashes, edits,
                   exchanges>>

finalize_applied(g) ==
    pc[g] = "finalize" /\ Finalize(g, Applied(g, observed[g]), "cleanup")
finalize_failed(g) ==
    pc[g] = "finalize_failed" /\ Finalize(g, Failed(g), "idle")

\* cleanup_finalized_change_apply_baseline: the live entry is the one that was
\* installed, the sibling holds the baseline.
MayCleanUp(g) ==
    /\ grants[g].final = source /\ content[source] = Staged(g)
    /\ candidate[g] # None /\ content[candidate[g]] = "baseline"

cleanup(g) ==
    \/ /\ pc[g] = "cleanup" /\ MayCleanUp(g)
       /\ RemoveContents(g, "cleanup", "cleanup_unlink")
    \/ /\ pc[g] = "cleanup" /\ ~MayCleanUp(g) /\ Goto(g, "idle")
       /\ UNCHANGED <<file, tree, stale, open, grants, sweep, observed, faults,
                      crashes, edits, exchanges>>
    \/ GiveUp(g, "cleanup", "idle")
    \/ pc[g] = "cleanup_unlink" /\ Unlink(g, "idle")
    \/ GiveUp(g, "cleanup_unlink", "idle")

Recover(g, at) ==
    /\ open /\ sweep = {} /\ pc[g] = "idle" /\ StateOf(g) = "reserved"
    /\ Goto(g, at)
    /\ UNCHANGED <<file, tree, stale, open, grants, sweep, observed, faults,
                   crashes, edits, exchanges>>

recover_pending_change_apply(g) == Recover(g, "inspect")

\* Accepts a committed exchange only.
finalize_committed_change_apply_recovery(g) == Recover(g, "inspect_committed")

Quiet == \A g \in Grants : pc[g] = "idle"

\* reconcile_change_apply_journal visits the records one after the other.
reconcile ==
    /\ open /\ sweep = {} /\ Quiet
    /\ \E g \in Grants : grants[g] # None
    /\ sweep' = {g \in Grants : grants[g] # None}
    /\ UNCHANGED <<file, tree, stale, open, grants, pc, observed, faults,
                   crashes, edits, exchanges>>

\* A failed record needs nothing; the stage or the target may be unavailable.
reconcile_record(g) ==
    /\ g \in sweep /\ Quiet
    /\ sweep' = sweep \ {g}
    /\ \/ /\ Goto(g, CASE StateOf(g) = "failed" -> "idle"
                       [] StateOf(g) = "applied" -> "cleanup"
                       [] StateOf(g) = "reserved" -> "inspect")
          /\ NoFault
       \/ Fault /\ UNCHANGED pc
    /\ UNCHANGED <<file, tree, stale, open, grants, observed, crashes, edits,
                   exchanges>>

---------------------------------------------------------------------------
(* The environment.                                                        *)

\* The record an append in progress may leave, whole or in part; one that finds
\* the journal full writes nothing.
Written(g) ==
    IF Len(disk) >= MaxRecords THEN {}
    ELSE CASE pc[g] = "reserve" /\ Unused(g) -> {Junk, Reservation(g)}
           [] pc[g] = "finalize" -> {Junk, Applied(g, observed[g])}
           [] pc[g] = "finalize_failed" -> {Junk, Failed(g)}
           [] OTHER -> {}

\* A loss of power takes what was not synced, some of it or all.
PowerLoss ==
    /\ PowerMayFail
    /\ \E n \in synced..Len(disk) : disk' = SubSeq(disk, 1, n) /\ synced' = n
    /\ tail' \in (IF Len(disk') < Len(disk) THEN {None, Junk}
                   ELSE {None, tail} \cup UNION {Written(g) : g \in Grants})
    /\ \E past \in stale \cup {tree} :
          source' = past[1] /\ candidate' = past[2] /\ content' = past[3]
    /\ stale' = {}

\* The daemon dies, by itself or with the machine.
Crash ==
    /\ open /\ crashes < MaxCrashes /\ crashes' = crashes + 1
    /\ \/ /\ tail' \in {tail} \cup UNION {Written(g) : g \in Grants}
          /\ UNCHANGED <<disk, synced, tree, stale>>
       \/ PowerLoss
    /\ open' = FALSE /\ sweep' = {}
    /\ grants' = [g \in Grants |-> None]
    /\ pc' = [g \in Grants |-> "idle"] /\ observed' = [g \in Grants |-> None]
    /\ UNCHANGED <<header, faults, edits, exchanges>>

\* Somebody edits the live entry in place.
edit ==
    /\ edits < MaxEdits /\ edits' = edits + 1
    /\ content[source] # "edited"
    /\ content' = [content EXCEPT ![source] = "edited"]
    /\ Unsynced
    /\ UNCHANGED <<file, source, candidate, memory, faults, crashes, exchanges>>

---------------------------------------------------------------------------
Step(g) ==
    \/ reserve(g) \/ create_candidate(g) \/ copy_staged_tree(g)
    \/ check_source(g) \/ exchange(g) \/ sync_exchange(g)
    \/ verify_exchange(g) \/ unwind(g) \/ inspect(g) \/ discard(g)
    \/ finalize_applied(g) \/ finalize_failed(g) \/ cleanup(g)

Next ==
    \/ open_journal \/ reconcile \/ Crash \/ edit
    \/ \E g \in Grants :
          \/ execute_authorized_change_apply(g)
          \/ recover_pending_change_apply(g)
          \/ finalize_committed_change_apply_recovery(g)
          \/ reconcile_record(g) \/ Step(g)

Spec == Init /\ [][Next]_vars

\* A daemon that died is started again, a call or sweep that was begun goes
\* on, and somebody keeps recovering what is pending.
Fairness ==
    /\ WF_vars(open_journal)
    /\ \A g \in Grants :
          /\ WF_vars(Step(g)) /\ WF_vars(reconcile_record(g))
          /\ SF_vars(recover_pending_change_apply(g))

FairSpec == Spec /\ Fairness

---------------------------------------------------------------------------
(* Properties.                                                             *)

PCs == {"idle", "reserve", "create", "copy", "check", "exchange", "sync",
        "verify", "unwind", "unwind_unlink", "inspect", "inspect_again",
        "inspect_committed", "discard", "discard_unlink", "finalize",
        "finalize_failed", "cleanup", "cleanup_unlink"}

\* Every variable has its type.
TypeOK ==
    /\ header \in {"absent", "blank", "valid"}
    /\ disk \in Seq(Record) /\ Len(disk) <= MaxRecords
    /\ tail \in Record \cup {None, Junk} /\ synced \in 0..Len(disk)
    /\ source \in Objects
    /\ candidate \in [Grants -> Objects \cup {None}]
    /\ content \in [Objects -> Trees \cup {None}]
    /\ \A past \in stale :
          past[1] \in Objects /\ past[2] \in [Grants -> Objects \cup {None}]
            /\ past[3] \in [Objects -> Trees \cup {None}]
    /\ open \in BOOLEAN
    /\ grants \in [Grants -> Record \cup {None}]
    /\ sweep \subseteq Grants
    /\ pc \in [Grants -> PCs]
    /\ observed \in [Grants -> Objects \cup {None}]
    /\ faults \in 0..MaxFaults /\ crashes \in 0..MaxCrashes
    /\ edits \in 0..MaxEdits
    /\ exchanges \in [Grants -> Nat]

\* What the journal says of a grant once it is opened again.
Outcome(g) ==
    LET r == Replay(Readable)[g] IN IF r = None THEN "none" ELSE r.state

\* change_apply_journal: the maps in memory are the ones a restart rebuilds,
\* after any failed or interrupted append.
MemoryIsJournal == open => grants = Replay(disk)

\* change_apply_journal::open: the whole records that are in the file, one left
\* by a failed rollback included, are never a replay or a bad transition. A torn
\* tail (Junk) is refused before they are looked at.
JournalReplays == Replayable(Readable)

\* Both: what the daemon believes, and what its successor will, is the journal.
LedgerIsTrue == TypeOK /\ MemoryIsJournal /\ JournalReplays

\* verify_and_reserve_change_apply: a grant is exchanged at most once, and
\* only one grant of a manifest is, over crashes and restarts.
SingleUse ==
    \A g, h \in Grants :
        /\ exchanges[g] <= 1
        /\ g # h /\ ManifestOf[g] = ManifestOf[h]
             => exchanges[g] + exchanges[h] <= 1

\* execute_change_apply_exchange: at every moment the live name has a whole
\* tree, whatever fails and wherever the daemon dies.
SourceIsWhole == content[source] \notin {"part", None}

\* finalize: a grant is recorded as applied only if its exchange was made.
AppliedIsInstalled ==
    \A g \in Grants : Outcome(g) = "applied" => exchanges[g] = 1

\* finalize_failed_observation: a grant is recorded as failed only if its copy
\* was not and will not be installed.
FailedIsUntouched ==
    \A g \in Grants : Outcome(g) = "failed" =>
        source # g /\ \A h \in Grants \ {g} : candidate[h] # g

\* Both: a terminal record says what happened to the entry.
OutcomeIsTrue == AppliedIsInstalled /\ FailedIsUntouched

\* cleanup_finalized_change_apply_baseline: the baseline is retained until the
\* journal says that a grant was applied, also after the daemon died.
BaselineSurvives ==
    content[Original] \in {"part", None}
        => \E g \in Grants : Outcome(g) = "applied"

\* Both: the live name always has a whole tree, and the one it had at first is
\* not lost before its replacement is recorded.
TreesSurvive == SourceIsWhole /\ BaselineSurvives

\* cleanup, discard and the unwinding of a failed exchange: what somebody
\* wrote into the live entry is never removed, whoever exchanged it away.
EditsSurvive ==
    [][\A o \in Objects : content[o] = "edited" => content'[o] = "edited"]_vars

\* cleanup_finalized_change_apply_baseline, which says the baseline is retained
\* until the outcome is durable: once it is being removed, no loss of power
\* takes the applied record or brings back the entry from before the exchange.
RemovedAfterDurable ==
    content[Original] \in {"part", None} =>
        \E n \in 1..synced :
            /\ disk[n].state = "applied"
            /\ \A past \in stale : past[2][disk[n].grant] # disk[n].grant

\* States in which the code waits for an operator: a torn journal, an
\* incomplete candidate, a tree that is neither baseline nor staged, and a
\* baseline under another identity, as the exchange of a tree for an equal one
\* leaves it.
Blocked(g) ==
    \/ tail = Junk \/ classify(g) = "ambiguous"
    \/ content[source] = "baseline" /\ source # Original

\* recover_record: as long as no call fails and nobody edits the entry, a
\* reservation becomes terminal wherever the daemon died, unless that left a
\* state in which the code waits for an operator.
ReservationsResolve ==
    []<>(faults + edits > 0
           \/ \A g \in Grants : Outcome(g) = "reserved" => Blocked(g))
============================================================================
