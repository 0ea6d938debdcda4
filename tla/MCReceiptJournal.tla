-------------------------- MODULE MCReceiptJournal --------------------------
(* The instance of ReceiptJournal that TLC checks, with a file that may be *)
(* removed or replaced between two daemons and with one that never is.     *)
EXTENDS ReceiptJournal

VARIABLE lossy   \* the file may be lost in this behaviour

MCInit == Init /\ lossy \in BOOLEAN
MCNext ==
    /\ Next /\ UNCHANGED lossy
    /\ lossy \/ open \/ open' \/ (IsPrefix(disk, disk') /\ header' # "absent")
MCSpec == MCInit /\ [][MCNext]_<<vars, lossy>> /\ Fairness

\* A receipt that closed a session is in the file, at the sequence number the
\* registry keeps, for good, whatever fails and dies, unless the file itself
\* is taken away between two daemons.
ClosedReceiptsStay == ~lossy => ExitedReceiptsStay
============================================================================
