------------------------------ MODULE OutputPump ------------------------------
(***************************************************************************)
(* The worker that drains a child's output                                 *)
(* (src/src/container/output_pump.cpp), with its two users: the MCP        *)
(* transport, whose peer receives frames until it is told an error and     *)
(* which stops the pump when it is destroyed, and the one-shot supervisor, *)
(* which discards stdout and finishes draining once the child has exited.  *)
(*                                                                         *)
(* A byte of stdout is 0 for the newline and anything else for the rest;   *)
(* bytes of stderr are only counted.  What a thread does while it holds    *)
(* state_mutex_ is one step; a read is one step with the locked section    *)
(* that follows it, since only the worker reads and appends.               *)
(***************************************************************************)
EXTENDS Integers, Sequences, SequencesExt

CONSTANTS
    Outputs,         \* what a child may write to stdout before it exits
    max_frame_bytes,
    max_queued_bytes,
    ChunkBytes,      \* read_chunk_bytes
    PipeBytes,       \* room in the pipe of the kernel
    OutputLimit,     \* terminal_output_limit_bytes
    MaxErrBytes,     \* bound: what a child writes to stderr
    PumpFaults       \* bound: failing polls, reads and sinks

ASSUME PumpAssumption ==
    /\ {max_frame_bytes, max_queued_bytes, ChunkBytes, PipeBytes} \subseteq Nat \ {0}
    /\ {OutputLimit, MaxErrBytes, PumpFaults} \subseteq Nat
    /\ Outputs \subseteq Seq(Nat)

VARIABLES
    use,       \* "mcp" or "discard"
    script,    \* what the child will have written to stdout, if it gets there
    written,   \* what it has written
    outPipe, errPipe, outOpen, errOpen, errWritten,
    frames, stdout_buffer, error, stop_requested, stdout_eof, stderr_eof,
    worker,    \* where the worker is
    poll_stdout, poll_stderr, ready,
    woken,     \* a byte is in the wake pipe
    accounted, \* terminal_output_bytes
    receiver,  \* "idle", "waiting" in recv_frame, or the error it was told
    received,  \* the frames it was given
    owner,     \* "running", "stop", "finish" or "joined"
    pumpFaults

child_ == <<use, script>>
pipes == <<written, outPipe, errPipe, outOpen, errOpen, errWritten>>
locked == <<frames, stdout_buffer, error, stop_requested, stdout_eof, stderr_eof>>
polled == <<poll_stdout, poll_stderr, ready>>
threads == <<receiver, received, owner>>
pumpVars == <<child_, pipes, locked, worker, polled, woken, accounted, threads, pumpFaults>>

Newline == 0

\* Frames as they were on the wire, and the bytes they took there.
Flat(fs) ==
    LET upTo[i \in 0 .. Len(fs)] == IF i = 0 THEN <<>> ELSE upTo[i - 1] \o Append(fs[i], Newline)
    IN  upTo[Len(fs)]
queued_bytes(fs) == Len(Flat(fs))
discard_stdout == use = "discard"

-----------------------------------------------------------------------------
(* What happens under state_mutex_.                                        *)

\* set_error_locked: the first error is the one that is reported.
set_error_locked(e) == error' = IF error = "none" THEN e ELSE error

\* One frame is always taken, so a frame longer than the queue passes too.
Backpressured(q, bytes) ==
    q.frames # <<>> /\ queued_bytes(q.frames) + bytes > max_queued_bytes

\* The place of the first newline, or 0.
find(buffer) ==
    IF Contains(buffer, Newline)
    THEN CHOOSE i \in 1 .. Len(buffer) :
            buffer[i] = Newline /\ \A j \in 1 .. i - 1 : buffer[j] # Newline
    ELSE 0

\* One turn of the loop of queue_buffered_frames_locked.
QueueOne(q) ==
    LET newline == find(q.buffer)
        frame == IF newline = 0 THEN Len(q.buffer) ELSE newline - 1
    IN  IF q.error # "none" THEN q
        ELSE IF frame > max_frame_bytes
        THEN [frames |-> q.frames, buffer |-> q.buffer, error |-> "frame_limit"]
        ELSE IF newline = 0 \/ Backpressured(q, newline) THEN q
        ELSE [frames |-> Append(q.frames, SubSeq(q.buffer, 1, frame)),
              buffer |-> SubSeq(q.buffer, newline + 1, Len(q.buffer)), error |-> "none"]

\* A turn takes a newline, or changes nothing as all after it do.
queue_buffered_frames_locked(fs, buffer) ==
    LET turn[i \in 0 .. Len(buffer) + 1] ==
          IF i = 0 THEN [frames |-> fs, buffer |-> buffer, error |-> "none"]
          ELSE QueueOne(turn[i - 1])
    IN  turn[Len(buffer) + 1]

\* The queue once stdout_buffer_ is buffer; after the end of stdout nothing
\* is queued, and a pump that discards stdout keeps none of it.
Buffered(buffer) ==
    IF discard_stdout \/ stdout_eof
    THEN [frames |-> frames, buffer |-> stdout_buffer, error |-> "none"]
    ELSE queue_buffered_frames_locked(frames, buffer)

-----------------------------------------------------------------------------
(* The worker.                                                             *)

Exit == worker' = "done"
KeepOthers == UNCHANGED <<child_, threads>>

\* Mutant: stdout is read on while a whole frame waits for room.
stdout_poll_enabled_locked_Eager(q) ==
    discard_stdout \/ (/\ q.error = "none"
                       /\ \/ q.buffer # <<>> \/ q.frames = <<>>
                          \/ queued_bytes(q.frames) < max_queued_bytes)

stdout_poll_enabled_locked(q) ==
    discard_stdout \/ (/\ q.error = "none" /\ ~Contains(q.buffer, Newline)
                       /\ \/ q.buffer # <<>> \/ q.frames = <<>>
                          \/ queued_bytes(q.frames) < max_queued_bytes)

\* drain_loop looks at the state and decides what to poll.
drain_loop ==
    /\ worker = "decide"
    /\ IF stop_requested \/ error # "none"
       THEN Exit /\ UNCHANGED <<locked, polled>>
       ELSE \E q \in {Buffered(stdout_buffer)} :
            /\ frames' = q.frames /\ stdout_buffer' = q.buffer /\ set_error_locked(q.error)
            /\ poll_stdout' = (~stdout_eof /\ stdout_poll_enabled_locked(q))
            /\ poll_stderr' = ~stderr_eof
            /\ worker' = IF error' # "none" \/ (stdout_eof /\ stderr_eof) THEN "done" ELSE "poll"
            /\ UNCHANGED <<stop_requested, stdout_eof, stderr_eof, ready>>
    /\ UNCHANGED <<pipes, woken, accounted, pumpFaults>> /\ KeepOthers

\* What poll reports; a descriptor whose writers are gone is ready.
Ready ==
    (IF poll_stdout /\ (outPipe # <<>> \/ ~outOpen) THEN {"out"} ELSE {})
        \cup (IF poll_stderr /\ (errPipe > 0 \/ ~errOpen) THEN {"err"} ELSE {})

\* poll returns, the wake pipe is emptied, then stop_requested_ looked at.
poll ==
    /\ worker = "poll" /\ (woken \/ Ready # {})
    /\ ready' = Ready /\ woken' = FALSE
    /\ worker' = IF stop_requested THEN "done" ELSE "out"
    /\ UNCHANGED <<locked, pipes, accounted, poll_stdout, poll_stderr, pumpFaults>> /\ KeepOthers

\* account_output: only the one-shot supervisor has a monitor.
account_output(bytes) == ~discard_stdout \/ accounted + bytes <= OutputLimit
Account(bytes) == accounted' = accounted + (IF discard_stdout THEN bytes ELSE 0)

ReadEof ==
    /\ outPipe = <<>> /\ ~outOpen /\ stdout_eof' = TRUE
    /\ \E q \in {Buffered(stdout_buffer)} :
          /\ frames' = q.frames /\ stdout_buffer' = q.buffer
          /\ set_error_locked(IF discard_stdout \/ q.error # "none" THEN q.error
                              ELSE IF q.buffer # <<>> THEN "unterminated_frame"
                              ELSE IF q.frames = <<>> THEN "stdout_eof" ELSE "none")
    /\ worker' = IF error' = "none" \/ discard_stdout THEN "err" ELSE "done"
    /\ UNCHANGED <<outPipe, accounted>>

ReadBytes(n) ==
    /\ outPipe' = SubSeq(outPipe, n + 1, Len(outPipe)) /\ Account(n)
    /\ IF account_output(n)
       THEN \E q \in {Buffered(stdout_buffer \o SubSeq(outPipe, 1, n))} :
              frames' = q.frames /\ stdout_buffer' = q.buffer /\ set_error_locked(q.error)
       ELSE UNCHANGED <<frames, stdout_buffer>> /\ set_error_locked("output_limit")
    /\ worker' = IF account_output(n) /\ (discard_stdout \/ error' = "none") THEN "err" ELSE "done"
    /\ UNCHANGED stdout_eof

read_stdout_once ==
    /\ worker = "out" /\ UNCHANGED <<written, errPipe, outOpen, errOpen, errWritten, polled, woken>>
    /\ KeepOthers
    /\ \/ /\ "out" \notin ready /\ worker' = "err"
          /\ UNCHANGED <<locked, outPipe, accounted, pumpFaults>>
       \/ /\ "out" \in ready /\ UNCHANGED <<stop_requested, stderr_eof, pumpFaults>>
          /\ \/ ReadEof
             \/ \E n \in 1 .. ChunkBytes : n <= Len(outPipe) /\ ReadBytes(n)

read_stderr_once ==
    /\ worker = "err" /\ UNCHANGED <<written, outPipe, outOpen, errOpen, errWritten, polled, woken>>
    /\ KeepOthers
    /\ \/ /\ "err" \notin ready /\ worker' = "decide"
          /\ UNCHANGED <<locked, errPipe, accounted, pumpFaults>>
       \/ /\ "err" \in ready /\ errPipe = 0 /\ ~errOpen
          /\ stderr_eof' = TRUE /\ worker' = "decide"
          /\ UNCHANGED <<frames, stdout_buffer, error, stop_requested, stdout_eof,
                         errPipe, accounted, pumpFaults>>
       \/ \E n \in 1 .. ChunkBytes :
             /\ "err" \in ready /\ n <= errPipe /\ errPipe' = errPipe - n /\ Account(n)
             /\ set_error_locked(IF account_output(n) THEN "none" ELSE "output_limit")
             /\ worker' = IF account_output(n) THEN "decide" ELSE "done"
             /\ UNCHANGED <<frames, stdout_buffer, stop_requested, stdout_eof, stderr_eof,
                            pumpFaults>>

\* A system call of the worker fails, or the sink throws.
WorkerFails ==
    /\ pumpFaults < PumpFaults /\ pumpFaults' = pumpFaults + 1
    /\ \/ worker = "poll" /\ set_error_locked("poll_failed")
       \/ worker = "out" /\ "out" \in ready /\ set_error_locked("stdout_read_failed")
       \/ /\ worker = "err" /\ "err" \in ready
          /\ \E e \in {"stderr_read_failed", "stderr_callback_failed"} : set_error_locked(e)
    /\ Exit
    /\ UNCHANGED <<frames, stdout_buffer, stop_requested, stdout_eof, stderr_eof,
                   pipes, polled, woken, accounted>> /\ KeepOthers

Worker == drain_loop \/ poll \/ read_stdout_once \/ read_stderr_once

-----------------------------------------------------------------------------
(* The threads that use the pump.                                          *)

KeepWorker == UNCHANGED <<child_, pipes, worker, polled, accounted, pumpFaults>>

Receive ==
    /\ use = "mcp" /\ receiver = "idle" /\ owner = "running"
    /\ receiver' = "waiting"
    /\ UNCHANGED <<locked, woken, received, owner>> /\ KeepWorker

\* The byte written to a pipe that has one already makes no difference.
signal_worker == woken' = TRUE

\* The rest of recv_frame: frames go before the error, a stop before both.
recv_frame ==
    /\ receiver = "waiting"
    /\ frames # <<>> \/ error # "none" \/ stop_requested \/ worker = "done"
    /\ IF frames # <<>> /\ ~stop_requested
       THEN /\ received' = Append(received, Head(frames)) /\ frames' = Tail(frames)
            /\ receiver' = "idle" /\ signal_worker
            /\ UNCHANGED <<stdout_buffer, error, stop_requested, stdout_eof, stderr_eof>>
       ELSE /\ receiver' = IF error = "none" THEN "stdout_eof" ELSE error
            /\ UNCHANGED <<received, locked, woken>>
    /\ UNCHANGED owner /\ KeepWorker

stop ==
    /\ use = "mcp" /\ owner = "running" /\ owner' = "stop"
    /\ stop_requested' = TRUE /\ set_error_locked("stopped") /\ signal_worker
    /\ UNCHANGED <<frames, stdout_buffer, stdout_eof, stderr_eof, receiver, received>>
    /\ KeepWorker

\* The child has been waited for: its ends of the pipes are closed.
finish_draining ==
    /\ use = "discard" /\ owner = "running" /\ ~outOpen /\ ~errOpen
    /\ owner' = "finish"
    /\ UNCHANGED <<locked, woken, receiver, received>> /\ KeepWorker

Join ==
    /\ owner \in {"stop", "finish"} /\ worker = "done" /\ owner' = "joined"
    /\ UNCHANGED <<locked, woken, receiver, received>> /\ KeepWorker

-----------------------------------------------------------------------------
(* The child.                                                              *)

KeepPump == UNCHANGED <<child_, locked, worker, polled, woken, accounted, threads, pumpFaults>>

WriteStdout ==
    /\ outOpen /\ Len(written) < Len(script) /\ Len(outPipe) < PipeBytes
    /\ LET b == script[Len(written) + 1]
       IN  written' = Append(written, b) /\ outPipe' = Append(outPipe, b)
    /\ UNCHANGED <<errPipe, outOpen, errOpen, errWritten>> /\ KeepPump

WriteStderr ==
    /\ errOpen /\ errWritten < MaxErrBytes /\ errPipe < PipeBytes
    /\ errPipe' = errPipe + 1 /\ errWritten' = errWritten + 1
    /\ UNCHANGED <<written, outPipe, outOpen, errOpen>> /\ KeepPump

\* It closes one of its outputs, or both when it exits.
CloseOutput ==
    /\ outOpen \/ errOpen
    /\ \E o, e \in BOOLEAN :
          /\ (o => outOpen) /\ (e => errOpen) /\ (o # outOpen \/ e # errOpen)
          /\ outOpen' = o /\ errOpen' = e
    /\ UNCHANGED <<written, outPipe, errPipe, errWritten>> /\ KeepPump

PumpInit ==
    /\ use \in {"mcp", "discard"} /\ script \in Outputs
    /\ written = <<>> /\ outPipe = <<>> /\ errPipe = 0 /\ errWritten = 0
    /\ outOpen = TRUE /\ errOpen = TRUE
    /\ frames = <<>> /\ stdout_buffer = <<>> /\ error = "none"
    /\ stop_requested = FALSE /\ stdout_eof = FALSE /\ stderr_eof = FALSE
    /\ worker = "decide" /\ poll_stdout = FALSE /\ poll_stderr = FALSE /\ ready = {}
    /\ woken = FALSE /\ accounted = 0
    /\ receiver = "idle" /\ received = <<>> /\ owner = "running" /\ pumpFaults = 0

\* What the receiver and the owner do without being asked.
Users == Receive \/ recv_frame \/ finish_draining \/ Join

PumpNext == Worker \/ WorkerFails \/ Users \/ stop \/ WriteStdout \/ WriteStderr \/ CloseOutput
PumpSpec == PumpInit /\ [][PumpNext]_pumpVars

-----------------------------------------------------------------------------
(* Properties.                                                             *)

\* The receiver is given the lines the child wrote, in order and unbroken,
\* however reads split them; no byte is in two places or in none, whatever
\* fails.  An end of file is told only when every line was given, an
\* unterminated frame only when the child really left one.
FramesAreFaithful ==
    /\ IsPrefix(Flat(received), written)
    /\ use = "mcp" =>
          Flat(received) \o Flat(frames) \o stdout_buffer \o outPipe = written
    /\ receiver = "stdout_eof" => ~outOpen /\ Flat(received) = written
    /\ receiver = "unterminated_frame" =>
          ~outOpen /\ written # <<>> /\ Last(written) # Newline

\* A child that nobody receives from costs a bounded amount of memory: the
\* queue, one frame over it, and what one read can bring.
QueueIsBounded ==
    /\ Len(frames) > 1 => queued_bytes(frames) <= max_queued_bytes
    /\ error = "none" => Len(stdout_buffer) <= max_frame_bytes + ChunkBytes

\* Both: what is received is what was written, at a bounded cost.
PumpIsFaithful == FramesAreFaithful /\ QueueIsBounded

\* The worker of a child that is gone, or of a pump that was stopped, has
\* ended; nobody waits for it or for a frame that will not come.
PumpSettled ==
    /\ (~outOpen /\ ~errOpen) \/ owner = "stop" => worker = "done"
    /\ owner \notin {"stop", "finish"}
    /\ ~(receiver = "waiting" /\ ~outOpen /\ ~errOpen)

\* Whatever the child and the users do, the pump comes to that.
PumpSettles == []<>PumpSettled
===============================================================================
