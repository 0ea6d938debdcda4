------------------------------ MODULE AuditJournal ------------------------------
(* The capped journal of audit events (src/src/audit/jsonl_sink.cpp): one line *)
(* per event, the oldest lines cut off before a write that would not fit. Its  *)
(* writers share one mutex, so one call of record is in flight at a time; any  *)
(* of its system calls may fail, a write after some of its bytes, and the      *)
(* process may die between two of them.  One process at a time holds the       *)
(* journal; the next reads its size before it has the lock.                    *)
(*                                                                             *)
(* A byte is the number of the event it belongs to, or Newline.                *)
EXTENDS Integers, Sequences, FiniteSets, SequencesExt, FiniteSetsExt

CONSTANTS
    MaxFileBytes,    \* max_file_bytes, 0 for a journal without a bound
    EncodedSizes,    \* lengths of encoded events, their newlines included
    OldJournals,     \* what the file may hold before the first open
    MaxEvents,       \* bound: events recorded
    MaxIoFaults,     \* bound: system calls that fail
    MaxOpens         \* bound: times the journal is opened

Newline == 0

\* Lines in the order of their events, none of them blank, the last perhaps
\* unfinished: what earlier runs leave.
Lined(f) ==
    /\ \A p \in DOMAIN f : f[p] = Newline => p > 1 /\ f[p - 1] # Newline
    /\ \A p \in DOMAIN f : f[p] # Newline =>
         /\ \E i \in 1..p : (i = 1 \/ f[i - 1] = Newline) /\ \A k \in i..p : f[k] = f[p]
         /\ \E j \in (p + 1)..(Len(f) + 1) :
              (j = Len(f) + 1 \/ f[j] = Newline) /\ \A k \in p..(j - 1) : f[k] = f[p]
    /\ \A p, q \in DOMAIN f : p < q /\ f[q] # Newline => f[p] <= f[q]

ASSUME JournalAssumption ==
    /\ {MaxFileBytes, MaxEvents, MaxIoFaults, MaxOpens} \subseteq Nat
    /\ EncodedSizes \subseteq Nat \ {0, 1}
    /\ \A f \in OldJournals : f \in Seq(0..MaxEvents) /\ Lined(f)

VARIABLES
    bytes,      \* the file
    sink,       \* "closed", or what the call of record does next
    current,    \* current_bytes_
    pending,    \* the event of the call: its number and size, and what
                \* truncation keeps
    measured,   \* the size read by a process that is opening the journal
    events,     \* events handed to record
    acked,      \* the events whose record returned success, in order
    dropped,    \* of these, the ones too large for the journal
    torn,       \* history: a write stopped half way, or bytes were lost with it,
                \* or a sink counts from a size that was no longer the file's
    ioFaults, opens

journalVars == <<bytes, sink, current, pending, measured, events, acked, dropped, torn, ioFaults, opens>>

NoEvent == [event |-> 0, size |-> 0, keep |-> <<>>]

\* The JSON of one event and the newline behind it.
encoded(e, n) == [i \in 1..n |-> IF i = n THEN Newline ELSE e]

Bounded == MaxFileBytes # 0

--------------------------------------------------------------------------------
(* What truncation keeps. *)

\* A line of one byte, its newline, lies in tail[from..to].
HasBlank(tail, from, to) ==
    \E i \in from..to : tail[i] = Newline /\ (i = from \/ tail[i - 1] = Newline)

\* The room for the incoming event is set aside.
KeepBudget(incoming) == IF MaxFileBytes > incoming THEN MaxFileBytes - incoming ELSE 0

\* The longest run of complete lines, without a blank one and within the
\* budget, that ends with the last newline of the window: the last `physical'
\* bytes the caller knows of, the cap at most. A line that may begin before the
\* window is not complete.
retained(file, physical, incoming) ==
    LET offset == physical - Min({physical, MaxFileBytes})
        tail   == SubSeq(file, offset + 1, physical)
        last   == Max({0} \cup {i \in DOMAIN tail : tail[i] = Newline})
        starts == {s \in 1..last :
                     /\ IF s = 1 THEN offset = 0 ELSE tail[s - 1] = Newline
                     /\ ~HasBlank(tail, s, last)
                     /\ last - s + 1 <= KeepBudget(incoming)}
    IN  IF starts = {} THEN <<>> ELSE SubSeq(tail, Min(starts), last)

\* pread reads the window, or finds less than the caller counted.
readable(file, physical) == Len(file) >= physical

--------------------------------------------------------------------------------
(* The calls. *)

IoFails == ioFaults < MaxIoFaults /\ ioFaults' = ioFaults + 1
IoWorks == ioFaults' = ioFaults

\* record returns; an error tells its caller that the event is not recorded.
RecordReturns == sink' = "idle" /\ pending' = NoEvent

\* write_all: all of the bytes, or some of them and an error.
write_all(chunk) == bytes' = bytes \o chunk
write_some(chunk) == \E k \in 0..(Len(chunk) - 1) : bytes' = bytes \o SubSeq(chunk, 1, k)

\* record up to its first effect.
record(n) ==
    /\ sink = "idle" /\ events < MaxEvents /\ events' = events + 1
    /\ IF Bounded /\ n > MaxFileBytes
       THEN /\ acked' = Append(acked, events + 1) /\ dropped' = dropped \cup {events + 1}
            /\ UNCHANGED <<sink, pending>>
       ELSE /\ pending' = [event |-> events + 1, size |-> n, keep |-> <<>>]
            /\ sink' = IF Bounded /\ current + n > MaxFileBytes THEN "truncate" ELSE "write"
            /\ UNCHANGED <<acked, dropped>>
    /\ UNCHANGED <<bytes, current, measured, torn, ioFaults, opens>>

\* truncate_oldest up to its ftruncate.
truncate_oldest ==
    /\ sink = "truncate"
    /\ \/ /\ readable(bytes, current) /\ IoWorks
          /\ pending' = [pending EXCEPT !.keep = retained(bytes, current, pending.size)]
          /\ bytes' = <<>> /\ sink' = "rewrite"
       \/ /\ ~readable(bytes, current) /\ IoWorks /\ RecordReturns /\ UNCHANGED bytes
       \/ /\ IoFails /\ RecordReturns /\ UNCHANGED bytes
    /\ UNCHANGED <<current, measured, events, acked, dropped, torn, opens>>

\* The retained lines are written back, and counted.
rewrite ==
    /\ sink = "rewrite"
    /\ \/ /\ write_all(pending.keep) /\ IoWorks
          /\ current' = Len(pending.keep) /\ sink' = "write" /\ UNCHANGED <<pending, torn>>
       \/ /\ write_some(pending.keep) /\ IoFails
          /\ torn' = TRUE /\ RecordReturns /\ UNCHANGED current
    /\ UNCHANGED <<measured, events, acked, dropped, opens>>

write ==
    /\ sink = "write"
    /\ LET line == encoded(pending.event, pending.size) IN
       \/ /\ write_all(line) /\ IoWorks
          /\ current' = current + pending.size /\ sink' = "sync" /\ UNCHANGED <<pending, torn>>
       \/ /\ write_some(line) /\ IoFails
          /\ torn' = (torn \/ bytes' # bytes) /\ RecordReturns /\ UNCHANGED current
    /\ UNCHANGED <<measured, events, acked, dropped, opens>>

sync ==
    /\ sink = "sync" /\ RecordReturns
    /\ \/ IoWorks /\ acked' = Append(acked, pending.event)
       \/ IoFails /\ UNCHANGED acked
    /\ UNCHANGED <<bytes, current, measured, events, dropped, torn, opens>>

\* make_jsonl_sink up to its flock: it has the size of the file, which the
\* process that holds the journal may still change.
measure ==
    /\ measured = {} /\ opens < MaxOpens /\ measured' = {Len(bytes)}
    /\ UNCHANGED <<bytes, sink, current, pending, events, acked, dropped, torn, ioFaults, opens>>

\* The lock is taken: a file past the cap is cut before it is used.
opened(physical) ==
    /\ sink = "closed" /\ opens' = opens + 1
    /\ \/ /\ Bounded => physical <= MaxFileBytes
          /\ sink' = "idle" /\ current' = physical /\ UNCHANGED bytes /\ IoWorks
          /\ torn' = (torn \/ physical # Len(bytes))
       \/ /\ Bounded /\ physical > MaxFileBytes /\ readable(bytes, physical)
          /\ LET keep == retained(bytes, physical, 0) IN
             \/ /\ bytes' = keep /\ current' = Len(keep) /\ sink' = "idle" /\ IoWorks
                /\ torn' = (torn \/ physical # Len(bytes))
             \/ /\ IoFails /\ torn' = TRUE /\ UNCHANGED <<sink, current>>
                /\ \E k \in 0..(Len(keep) - 1) : bytes' = SubSeq(keep, 1, k)
             \/ IoFails /\ UNCHANGED <<bytes, sink, current, torn>>

\* It fails where another process holds the lock or has cut the file.
refused(physical) ==
    /\ sink # "closed" \/ (Bounded /\ physical > MaxFileBytes /\ ~readable(bytes, physical))
    /\ UNCHANGED <<bytes, sink, current, torn, ioFaults, opens>>

make_jsonl_sink ==
    /\ \E physical \in measured : opened(physical) \/ refused(physical)
    /\ measured' = {} /\ UNCHANGED <<pending, events, acked, dropped>>

\* The process dies; a write it was in may have stopped half way.
WriterDies ==
    /\ sink # "closed" /\ sink' = "closed" /\ pending' = NoEvent
    /\ \/ bytes' = bytes /\ torn' = (torn \/ sink = "rewrite")
       \/ sink = "rewrite" /\ write_some(pending.keep) /\ torn' = TRUE
       \/ /\ sink = "write" /\ write_some(encoded(pending.event, pending.size))
          /\ torn' = (torn \/ bytes' # bytes)
    /\ UNCHANGED <<current, measured, events, acked, dropped, ioFaults, opens>>

JournalInit ==
    /\ bytes \in OldJournals /\ sink = "closed" /\ current = 0 /\ pending = NoEvent
    /\ measured = {} /\ events = Max({0} \cup Range(bytes)) /\ acked = <<>> /\ dropped = {}
    /\ torn = (bytes # <<>> /\ Last(bytes) # Newline /\ (Bounded => Len(bytes) <= MaxFileBytes))
    /\ ioFaults = 0 /\ opens = 0

Call == truncate_oldest \/ rewrite \/ write \/ sync
JournalNext == measure \/ make_jsonl_sink \/ (\E n \in EncodedSizes : record(n)) \/ Call \/ WriterDies

--------------------------------------------------------------------------------
(* Properties. *)

\* The event's line, whole and on its own.
OnLine(e) ==
    \E i \in DOMAIN bytes :
      /\ bytes[i] = e /\ (i = 1 \/ bytes[i - 1] = Newline)
      /\ \E j \in (i + 1)..Len(bytes) :
           bytes[j] = Newline /\ \A k \in i..(j - 1) : bytes[k] = e

\* While no write stopped half way and no sink counts from a size another
\* process has changed since, an open journal keeps to its cap, holds nothing
\* but whole lines, and these are the newest ones: it never keeps an event and
\* loses a newer one that it acknowledged. After such a write or such an open
\* none of this holds (see README), but the first sink's last acknowledged
\* event still ends its file.
TrailIsKept ==
    LET Lines == {e \in Range(bytes) \ {Newline} : OnLine(e)}
        Taken == Range(acked) \ dropped
    IN  /\ sink = "idle" /\ ~torn =>
             /\ Bounded => Len(bytes) <= MaxFileBytes
             /\ bytes # <<>> => Last(bytes) = Newline /\ ~HasBlank(bytes, 1, Len(bytes))
             /\ Range(bytes) \ {Newline} = Lines
             /\ \A e \in Lines, a \in Taken : a > e => a \in Lines
        /\ sink = "idle" /\ events \in Taken /\ (torn => opens = 1) =>
             bytes # <<>> /\ Last(bytes) = Newline /\ bytes[Len(bytes) - 1] = events

\* A call of record returns, or dies with its process.
RecordIsOver == sink \in {"idle", "closed"}
================================================================================
