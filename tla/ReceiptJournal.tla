--------------------------- MODULE ReceiptJournal ---------------------------
(***************************************************************************)
(* The authenticated receipt journal (receipt_journal.cpp), the producer   *)
(* that reserves room in it before a child starts (receipt_producer.cpp),  *)
(* and the two control methods by which Sage pages and acknowledges it     *)
(* (receipt_handlers.cpp).                                                 *)
(*                                                                         *)
(* The HMAC of a record covers everything before it, so an anchor (a       *)
(* sequence number and a head HMAC) is the prefix of records it names.     *)
(* One server thread runs the control methods and reserve_terminal; one    *)
(* finalizer thread per execution commits its receipt.  The journal mutex  *)
(* makes each journal call one step; reserve_terminal and commit_terminal  *)
(* take the producer mutex around or after such a call and are two.        *)
(***************************************************************************)
EXTENDS Integers, Sequences, FiniteSets, SequencesExt

CONSTANTS
    Execs,           \* executions: a session, its plan and its profile
    Refinements,     \* the executions that end in a refinement receipt
    MaxRecord,       \* max_receipt_journal_record_bytes
    MaxSize,         \* max_size, less the header
    MaxPage,         \* max_envelopes_per_control_frame
    AckKeys,         \* idempotency keys of Sage's acknowledgements
    MaxAcks,         \* max_idempotency_records
    MaxCrashes,      \* bound: how often the daemon dies
    FileMayBeLost,   \* may the file be replaced by an older copy?
    None

ASSUME JournalAssumption ==
    /\ IsFiniteSet(Execs)
    /\ Refinements \subseteq Execs
    /\ MaxRecord \in Nat \ {0} /\ MaxSize \in Nat
    /\ MaxPage \in Nat \ {0}
    /\ MaxAcks \in Nat /\ MaxCrashes \in Nat
    /\ FileMayBeLost \in BOOLEAN
    /\ None \notin AckKeys

VARIABLES
    header,          \* "absent" | "blank" (created, no header) | "valid"
    disk,            \* the complete records of the file
    torn,            \* does the file end in a partial record?
    open,            \* has this daemon a producer?
    records,
    sequence,        \* the chain's sequence_
    durable_size,
    poisoned,
    bootstrap_reconciled,
    reserved_bytes,
    probe,           \* reserve_terminal between its two reads, or None
    phase,           \* where each execution is, in this daemon
    idempotency_records,
    started,         \* durable in the registry: executions past mark_starting
    exited,          \* durable in the registry: receipts of exited sessions
    sage,            \* the records Sage has verified
    crashes

file == <<header, disk, torn>>
memory == <<open, records, sequence, durable_size, poisoned,
            bootstrap_reconciled, reserved_bytes, probe, phase,
            idempotency_records>>
vars == <<file, memory, started, exited, sage, crashes>>

Kind(e) == IF e \in Refinements THEN "refinement" ELSE "resource"

\* receipt_journal_record: its place in the chain, its execution, and the
\* offset at which its frame ends.
Record ==
    [seq : Nat, exec : Execs, kind : {"resource", "refinement"}, end : Nat]

Phases == {"idle", "held", "launched", "appended", "failed", "exhausted",
           "committed", "closed"}

\* Executions that hold a terminal_reservation.
Holding == {e \in Execs : phase[e] \in
              {"held", "launched", "appended", "failed", "exhausted"}}
\* Those whose record is still to be written.
Pending == {e \in Execs : phase[e] \in {"held", "launched"}}

EndOf(s) == IF s = <<>> THEN 0 ELSE s[Len(s)].end

---------------------------------------------------------------------------
(* Opening the journal.                                                    *)

Init ==
    /\ header = "absent" /\ disk = <<>> /\ torn = FALSE
    /\ open = FALSE /\ records = <<>> /\ sequence = 0 /\ durable_size = 0
    /\ poisoned = FALSE /\ bootstrap_reconciled = FALSE
    /\ reserved_bytes = 0 /\ probe = None
    /\ phase = [e \in Execs |-> "idle"]
    /\ idempotency_records = [k \in AckKeys |-> None]
    /\ started = {} /\ exited = {}
    /\ sage = <<>> /\ crashes = 0

\* The state of a daemon without a producer.
Forget ==
    /\ open' = FALSE /\ records' = <<>> /\ sequence' = 0 /\ durable_size' = 0
    /\ poisoned' = FALSE /\ bootstrap_reconciled' = FALSE
    /\ reserved_bytes' = 0 /\ probe' = None
    /\ phase' = [e \in Execs |-> "idle"]
    /\ idempotency_records' = [k \in AckKeys |-> None]

\* create_new fails after the exclusive create and cannot remove the file
\* again, or the daemon dies in it.
create_new_interrupted ==
    /\ ~open /\ header = "absent"
    /\ header' \in {"blank", "valid"}
    /\ UNCHANGED <<disk, torn, memory, started, exited, sage, crashes>>

\* Without a file the anchor must be the genesis; the new file stays if it
\* is not.  A new journal waits for an acknowledgement.
initialize(anchor) ==
    /\ ~open /\ header = "absent"
    /\ header' = "valid" /\ disk' = <<>> /\ torn' = FALSE
    /\ open' = (anchor = <<>>)
    /\ UNCHANGED <<records, sequence, durable_size, bootstrap_reconciled>>

\* recover_records: every complete record verifies against the chain.
Chained(s) == \A i \in 1..Len(s) : s[i].seq = i

\* Mutant: the anchor is not compared with the recovered records.
recover_without_anchor(anchor) ==
    /\ ~open /\ header = "valid"
    /\ Chained(disk) /\ EndOf(disk) <= MaxSize
    /\ torn' = FALSE
    /\ open' = TRUE
    /\ records' = disk /\ sequence' = Len(disk) /\ durable_size' = EndOf(disk)
    /\ bootstrap_reconciled' = (anchor = disk)
    /\ UNCHANGED <<header, disk>>

\* Mutant: the file is cut back to the anchor, not to its last record.
recover_to_anchor(anchor) ==
    /\ ~open /\ header = "valid"
    /\ Chained(disk) /\ EndOf(disk) <= MaxSize
    /\ IsPrefix(anchor, disk)
    /\ disk' = anchor /\ torn' = FALSE
    /\ open' = TRUE
    /\ records' = anchor /\ sequence' = Len(anchor)
    /\ durable_size' = EndOf(anchor)
    /\ bootstrap_reconciled' = TRUE
    /\ UNCHANGED header

\* A torn tail is cut off only once the anchor has been found to be a prefix.
\* If the cut is made but its sync fails there is no producer.
recover(anchor) ==
    /\ ~open /\ header = "valid"
    /\ Chained(disk) /\ EndOf(disk) <= MaxSize
    /\ IsPrefix(anchor, disk)
    /\ torn' = FALSE
    /\ \/ /\ open' = TRUE
          /\ records' = disk /\ sequence' = Len(disk)
          /\ durable_size' = EndOf(disk)
          /\ bootstrap_reconciled' = (anchor = disk)
       \/ /\ torn
          /\ UNCHANGED <<open, records, sequence, durable_size,
                         bootstrap_reconciled>>
    /\ UNCHANGED <<header, disk>>

---------------------------------------------------------------------------
(* Paging and acknowledgement.  One thread serves them and reserve_terminal. *)

page_after(recs, n, limit) ==
    SubSeq(recs, n + 1, IF n + limit < Len(recs) THEN n + limit ELSE Len(recs))

\* The first page makes the producer.  A page is refused if the journal is
\* poisoned or Sage's anchor is not a prefix; a reply may be lost, and Sage
\* extends what it has verified by one that arrives.
handle_page(limit, delivered) ==
    /\ probe = None /\ ~poisoned
    /\ \/ open /\ UNCHANGED <<file, open, records, sequence, durable_size,
                              bootstrap_reconciled>>
       \/ initialize(sage)
       \/ recover(sage)
    /\ sage' = IF delivered /\ open' /\ IsPrefix(sage, records')
                 THEN sage \o page_after(records', Len(sage), limit)
                 ELSE sage
    /\ UNCHANGED <<poisoned, reserved_bytes, probe, phase,
                   idempotency_records, started, exited, crashes>>

Used == {k \in AckKeys : idempotency_records[k] # None}

\* Mutant: the key is spent before the anchor has been accepted.
handle_acknowledgement_early(key) ==
    /\ open /\ probe = None
    /\ idempotency_records[key] = None
    /\ Cardinality(Used) < MaxAcks
    /\ bootstrap_reconciled' = (bootstrap_reconciled \/ sage = records)
    /\ idempotency_records' = [idempotency_records EXCEPT ![key] = Len(sage)]
    /\ UNCHANGED <<file, open, records, sequence, durable_size, poisoned,
                   reserved_bytes, probe, phase, started, exited, sage,
                   crashes>>

\* A known key is a replay or a conflict and changes nothing.  The key is
\* recorded only if the runtime's reconciliation succeeds as well.
handle_acknowledgement(key) ==
    /\ open /\ probe = None
    /\ idempotency_records[key] = None
    /\ Cardinality(Used) < MaxAcks
    /\ Len(sage) = sequence /\ IsPrefix(sage, records)  \* acknowledge_bootstrap
    /\ bootstrap_reconciled' = TRUE
    /\ \/ idempotency_records' =
             [idempotency_records EXCEPT ![key] = Len(sage)]
       \/ UNCHANGED idempotency_records
    /\ UNCHANGED <<file, open, records, sequence, durable_size, poisoned,
                   reserved_bytes, probe, phase, started, exited, sage,
                   crashes>>

---------------------------------------------------------------------------
(* Reserving a record and committing it.                                   *)

\* reserve_terminal: the producer mutex is taken and the capacity read.
remaining_capacity(e) ==
    /\ open /\ probe = None
    /\ bootstrap_reconciled /\ ~poisoned
    /\ phase[e] = "idle" /\ e \notin started
    /\ probe' = [exec |-> e, remaining |-> MaxSize - durable_size]
    /\ UNCHANGED <<file, open, records, sequence, durable_size, poisoned,
                   bootstrap_reconciled, reserved_bytes, phase,
                   idempotency_records, started, exited, sage, crashes>>

\* Mutant: what others have reserved is not subtracted.
reserve_terminal_greedy ==
    /\ probe # None
    /\ IF MaxRecord <= probe.remaining
         THEN /\ reserved_bytes' = reserved_bytes + MaxRecord
              /\ phase' = [phase EXCEPT ![probe.exec] = "held"]
         ELSE UNCHANGED <<reserved_bytes, phase>>
    /\ probe' = None
    /\ UNCHANGED <<file, open, records, sequence, durable_size, poisoned,
                   bootstrap_reconciled, idempotency_records, started,
                   exited, sage, crashes>>

\* Still under the producer mutex: an append may have come in between.
reserve_terminal ==
    /\ probe # None
    /\ IF reserved_bytes <= probe.remaining
          /\ MaxRecord <= probe.remaining - reserved_bytes
         THEN /\ reserved_bytes' = reserved_bytes + MaxRecord
              /\ phase' = [phase EXCEPT ![probe.exec] = "held"]
         ELSE UNCHANGED <<reserved_bytes, phase>>
    /\ probe' = None
    /\ UNCHANGED <<file, open, records, sequence, durable_size, poisoned,
                   bootstrap_reconciled, idempotency_records, started,
                   exited, sage, crashes>>

\* The registry's starting record: only for a session that has none.
mark_starting(e) ==
    /\ phase[e] = "held" /\ e \notin started
    /\ phase' = [phase EXCEPT ![e] = "launched"]
    /\ started' = started \cup {e}
    /\ UNCHANGED <<file, open, records, sequence, durable_size, poisoned,
                   bootstrap_reconciled, reserved_bytes, probe,
                   idempotency_records, exited, sage, crashes>>

\* The record written for e, size bytes long.
Framed(e, size) ==
    [seq |-> sequence + 1, exec |-> e, kind |-> Kind(e),
     end |-> durable_size + size]

\* What a write that was not confirmed leaves in the file.
Residue(r) ==
    \/ UNCHANGED disk /\ torn' \in BOOLEAN
    \/ disk' = Append(records, r) /\ UNCHANGED torn

\* Mutant: a write that is rolled back leaves the chain advanced.
append_advanced(e, size) ==
    LET r == Framed(e, size) IN
    /\ phase[e] = "launched"
    /\ ~poisoned /\ size <= MaxSize - durable_size
    /\ sequence' = sequence + 1
    /\ \/ /\ disk' = Append(records, r)
          /\ records' = Append(records, r)
          /\ durable_size' = durable_size + size
          /\ phase' = [phase EXCEPT ![e] = "appended"]
       \/ /\ phase' = [phase EXCEPT ![e] = "failed"]
          /\ UNCHANGED <<disk, records, durable_size>>
    /\ UNCHANGED <<header, torn, open, poisoned, bootstrap_reconciled,
                   reserved_bytes, probe, idempotency_records, started,
                   exited, sage, crashes>>

\* The record is synced before it is counted; a failed write is rolled back,
\* and if that fails too the journal refuses everything from then on.
append(e, size) ==
    LET r == Framed(e, size) IN
    /\ phase[e] = "launched"
    /\ \/ /\ ~poisoned /\ size <= MaxSize - durable_size
          /\ disk' = Append(records, r)
          /\ records' = Append(records, r)
          /\ sequence' = sequence + 1
          /\ durable_size' = durable_size + size
          /\ phase' = [phase EXCEPT ![e] = "appended"]
          /\ UNCHANGED <<torn, poisoned>>
       \/ /\ ~poisoned /\ size > MaxSize - durable_size
          /\ phase' = [phase EXCEPT ![e] = "exhausted"]
          /\ UNCHANGED <<disk, torn, records, sequence, durable_size, poisoned>>
       \/ \* poisoned before, or the write failed and was rolled back
          /\ phase' = [phase EXCEPT ![e] = "failed"]
          /\ UNCHANGED <<disk, torn, records, sequence, durable_size, poisoned>>
       \/ \* the write failed, and so did the rollback
          /\ ~poisoned /\ size <= MaxSize - durable_size
          /\ Residue(r) /\ poisoned' = TRUE
          /\ phase' = [phase EXCEPT ![e] = "failed"]
          /\ UNCHANGED <<records, sequence, durable_size>>
    /\ UNCHANGED <<header, open, bootstrap_reconciled, reserved_bytes, probe,
                   idempotency_records, started, exited, sage, crashes>>

\* commit_terminal and commit_refinement_terminal release the reservation
\* after the append, whatever it answered; a start that fails or a child
\* without a receipt drops it.
release_reservation(e) ==
    /\ phase[e] \in {"held", "launched", "appended", "failed", "exhausted"}
    /\ probe = None
    /\ reserved_bytes' = reserved_bytes - MaxRecord
    /\ phase' = [phase EXCEPT ![e] = CASE phase[e] = "appended" -> "committed"
                                       [] phase[e] = "held" -> "idle"
                                       [] OTHER -> "closed"]
    /\ UNCHANGED <<file, open, records, sequence, durable_size, poisoned,
                   bootstrap_reconciled, probe, idempotency_records, started,
                   exited, sage, crashes>>

\* terminal_for_execution and refinement_terminal_for_execution.
TerminalsOf(recs, e) ==
    {i \in 1..Len(recs) : recs[i].exec = e /\ recs[i].kind = Kind(e)}

\* The registry closes a session on an envelope that contains_exact confirms:
\* the one its finalizer was given, or the one recovery looks up.
mark_exited(e) ==
    /\ open /\ ~poisoned
    /\ \/ phase[e] = "committed"
       \/ probe = None /\ bootstrap_reconciled /\ phase[e] = "idle"
          /\ e \in started
    /\ \E i \in TerminalsOf(records, e) :
          /\ TerminalsOf(records, e) = {i}
          /\ exited' = exited \cup {records[i]}
    /\ phase' = [phase EXCEPT ![e] = "closed"]
    /\ UNCHANGED <<file, open, records, sequence, durable_size, poisoned,
                   bootstrap_reconciled, reserved_bytes, probe,
                   idempotency_records, started, sage, crashes>>

---------------------------------------------------------------------------
(* Crashes and the loss of the file.                                       *)

\* The daemon dies, perhaps while it writes e's record.
Crash ==
    /\ open /\ crashes < MaxCrashes
    /\ crashes' = crashes + 1
    /\ \/ UNCHANGED <<disk, torn>>
       \/ \E e \in Execs, size \in 1..MaxRecord :
             /\ phase[e] = "launched" /\ ~poisoned
             /\ size <= MaxSize - durable_size
             /\ Residue(Framed(e, size))
    /\ Forget
    /\ UNCHANGED <<header, started, exited, sage>>

\* While no daemon has it open the file is removed or an older copy put back.
LoseFile ==
    /\ FileMayBeLost /\ ~open /\ header = "valid"
    /\ \/ header' = "absent" /\ disk' = <<>>
       \/ /\ UNCHANGED header
          /\ \E n \in 0..Len(disk) : disk' = SubSeq(disk, 1, n)
    /\ torn' = FALSE
    /\ UNCHANGED <<memory, started, exited, sage, crashes>>

Commit(e) ==
    \/ \E size \in 1..MaxRecord : append(e, size)
    \/ release_reservation(e)

Next ==
    \/ create_new_interrupted
    \/ \E limit \in 1..MaxPage, delivered \in BOOLEAN :
          handle_page(limit, delivered)
    \/ \E key \in AckKeys : handle_acknowledgement(key)
    \/ \E e \in Execs : remaining_capacity(e)
    \/ reserve_terminal
    \/ \E e \in Execs : mark_starting(e) \/ Commit(e) \/ mark_exited(e)
    \/ Crash
    \/ LoseFile

Spec == Init /\ [][Next]_vars

\* Sage keeps paging until a reply arrives and keeps acknowledging, and the
\* server takes connections in turn, so that other calls cannot hold its
\* requests off forever; a thread that holds a mutex goes on; a finalizer
\* runs to its end.
Fairness ==
    /\ SF_vars(\E limit \in 1..MaxPage : handle_page(limit, TRUE))
    /\ SF_vars(\E key \in AckKeys : handle_acknowledgement(key))
    /\ WF_vars(reserve_terminal)
    /\ \A e \in Execs : WF_vars(Commit(e))

FairSpec == Spec /\ Fairness

---------------------------------------------------------------------------
(* Properties.                                                             *)

\* Every variable has its type; in particular the unsigned reserved_bytes is
\* never taken below zero.
TypeOK ==
    /\ header \in {"absent", "blank", "valid"}
    /\ disk \in Seq(Record) /\ torn \in BOOLEAN
    /\ open \in BOOLEAN /\ records \in Seq(Record)
    /\ sequence \in Nat /\ durable_size \in Nat
    /\ poisoned \in BOOLEAN /\ bootstrap_reconciled \in BOOLEAN
    /\ reserved_bytes \in Nat
    /\ probe \in {None} \cup [exec : Execs, remaining : Int]
    /\ phase \in [Execs -> Phases]
    /\ idempotency_records \in [AckKeys -> Nat \cup {None}]
    /\ started \subseteq Execs /\ exited \subseteq Record
    /\ sage \in Seq(Record) /\ crashes \in 0..MaxCrashes

\* Room reserved before a child starts is there when its receipt comes: no
\* commit finds the journal full, however commits and reservations interleave
\* (receipt_producer.hpp: "journal capacity exhaustion is a pre-launch
\* failure").
ReservedRoomIsKept == \A e \in Execs : phase[e] # "exhausted"

\* reserved_bytes counts exactly the reservations that are alive, so that
\* release_reservation never reaches std::terminate.
ReservedIsExact == reserved_bytes = MaxRecord * Cardinality(Holding)

\* As long as a journal is not poisoned, its memory and its file agree: the
\* size check that every call makes (validate_file against durable_size) only
\* ever trips on a change from outside.
HealthyJournalIsIntact ==
    open /\ ~poisoned =>
       /\ disk = records /\ ~torn
       /\ sequence = Len(records) /\ durable_size = EndOf(records)

\* A daemon only ever works on a journal that extends what Sage verified,
\* also after the file was replaced by an older copy.
SageHistoryIsExtended == open => IsPrefix(sage, records)

\* A receipt that closed a session is in the file, at the sequence number
\* the registry keeps, for good.
ExitedReceiptsStay ==
    \A r \in exited : r.seq \in 1..Len(disk) /\ disk[r.seq] = r

\* An execution has at most one terminal receipt: the lookups of recovery
\* never have to choose.
OneTerminalPerExecution ==
    \A e \in Execs : Cardinality({i \in 1..Len(disk) : disk[i].exec = e}) <= 1

\* A file with a header can be opened again: its chain verifies and it is
\* within its bound, whatever writes failed.
FileReopens ==
    header = "valid" => Chained(disk) /\ EndOf(disk) <= MaxSize

\* Once a daemon may launch, the only receipts Sage has not verified are
\* those of executions this daemon ran itself.
UnverifiedAreOwn ==
    bootstrap_reconciled =>
       \A i \in (Len(sage) + 1)..Len(records) :
          phase[records[i].exec] \in {"appended", "committed", "closed"}

\* All four, at every moment: memory and file agree or the journal is
\* poisoned, the file reopens, lookups are unique and the gate is honest.
JournalIsSound ==
    HealthyJournalIsIntact /\ OneTerminalPerExecution /\ FileReopens /\ UnverifiedAreOwn

\* The file has no header, or is older than what Sage verified, and every
\* daemon refuses it; or the journal is poisoned.
Stuck == header = "blank" \/ poisoned \/ ~IsPrefix(sage, disk)

\* After every restart the gate opens again, unless the file cannot be used.
BootstrapCompletes == []<>(bootstrap_reconciled \/ Stuck)

\* Every receipt in the file reaches Sage, unless the file is replaced.
ReceiptsReachSage ==
    \A e \in Execs :
       (TerminalsOf(disk, e) # {}) ~>
          (TerminalsOf(sage, e) # {} \/ TerminalsOf(disk, e) = {} \/ Stuck)

\* Both: Sage and the daemon never wait for each other for ever.
SageCatchesUp == BootstrapCompletes /\ ReceiptsReachSage

---------------------------------------------------------------------------
(* The inductive invariant behind ReservedRoomIsKept.                      *)

Bytes(S) == MaxRecord * Cardinality(S)

\* A daemon without a producer has reserved and written nothing.
ClosedIsEmpty ==
    ~open => /\ phase = [e \in Execs |-> "idle"]
             /\ reserved_bytes = 0 /\ probe = None /\ durable_size = 0

\* There is room for every record that is still to be written.
RoomForPending == Bytes(Pending) + durable_size <= MaxSize

\* What was written since reserve_terminal read the capacity was reserved by
\* executions that still hold their reservation.
ProbeIsSafe ==
    probe # None =>
       /\ phase[probe.exec] = "idle"
       /\ Bytes(Pending) + durable_size
            <= (MaxSize - probe.remaining) + reserved_bytes

\* All of it: reserve_terminal may subtract a reservation count that it reads
\* after the capacity, because the producer mutex keeps every reservation
\* alive in between (receipt_producer.cpp).
CapacityInv ==
    /\ TypeOK /\ ReservedIsExact /\ ReservedRoomIsKept
    /\ ClosedIsEmpty /\ RoomForPending /\ ProbeIsSafe
====
