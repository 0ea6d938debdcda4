------------------------ MODULE SessionReceiptsProofs ------------------------
(***************************************************************************)
(* What a managed session reports, and what the journal keeps of it, for   *)
(* every number of callers and executions, every limit, ring and capacity: *)
(* the receipt and the transcript are true, a stop that was answered has   *)
(* its effect, and a receipt that closed a session stays in the file.      *)
(***************************************************************************)
EXTENDS ManagedSession, MCReceiptJournal, WellFoundedInduction, FiniteSetTheorems,
        SequenceTheorems, TLAPS

-----------------------------------------------------------------------------
(* The managed session.                                                    *)

-----------------------------------------------------------------------------
(* The inductive invariant.                                                *)

Early == {"inputs", "services", "egress", "refinement", "filesystem", "cgroup", "lifecycle"}
Unborn == Early \cup {"lease", "streams", "bind", "clone"}
Attached == {"channel", "release", "waiter", "serving"}
Stages == Unborn \cup {"attach", "gone"} \cup Attached
Dead == {"exited", "signaled"}

WatchdogSteps == {"none", "wait", "kill", "done"}
PollerSteps == {"none", "poll", "disk", "kill", "done"} \cup PollCauses
DrainerSteps == {"none", "poll", "consume", "account", "store", "ask", "worker_failure",
                 "exit", "kill", "done"}
WaiterSteps == {"none", "stop", "wait", "drain", "finish", "monitor", "watchdog", "observe",
                "cleanup", "publish", "error", "kill", "done"}
StopperSteps == {"idle", "gate", "request", "done"}
Forced == PollCauses \cup {"wall_time_limit", "terminal_output_limit"}

Rings == [buf : [0 .. RingBytes - 1 -> Nat], head : 0 .. RingBytes - 1,
          size : 0 .. RingBytes, oldest : Nat, next : Nat]

Causes == {Nothing} \cup Forced \cup Dead
Errors == {Nothing, "read_failed", "worker_failure", "transcript_digest", "output_limit"}
Holders == Threads \cup {Nothing}
Monitors == [forced : {Nothing} \cup Forced, finished : BOOLEAN, bytes : Nat,
             failed : BOOLEAN, lock : Holders]
Lives == [attached : BOOLEAN, started : BOOLEAN, pollStop : BOOLEAN, finishing : BOOLEAN,
          terminal : Causes]
Channels == [chunk : Nat, within : BOOLEAN, ring : Rings, hashed : Nat, eof : BOOLEAN,
             err : Errors, done : BOOLEAN]
Sessions == [lock : Holders, finished : BOOLEAN, waits : BOOLEAN,
             receipt : [cause : Causes, bytes : Nat, complete : BOOLEAN]]
Guests == [st : {Nothing, "held", "running"} \cup Dead, grouped : BOOLEAN]
Cgroups == [open : BOOLEAN, killed : BOOLEAN, hit : SUBSET Hits]

StepsOK ==
    /\ pc["watchdog"] \in WatchdogSteps /\ pc["poller"] \in PollerSteps
    /\ pc["drainer"] \in DrainerSteps /\ pc["waiter"] \in WaiterSteps
    /\ \A p \in Stoppers : pc[p] \in StopperSteps

Shapes ==
    /\ stage \in Stages /\ quotaHit \in BOOLEAN /\ acked \in BOOLEAN /\ faults \in Int
    /\ guest \in Guests /\ cg \in Cgroups /\ pty \in [produced : Nat, open : BOOLEAN]
    /\ life \in Lives /\ mon \in Monitors /\ ch \in Channels /\ sess \in Sessions
    /\ pc = [t \in Threads |-> pc[t]] /\ ret = [t \in Threads |-> ret[t]]
    /\ StepsOK

\* Who holds the monitor's mutex is in the callback, and knows where to return.
MonitorInv ==
    /\ \A t \in Threads : pc[t] = "kill" <=> mon.lock = t
    /\ mon.lock # Nothing => life.started
    /\ pc["watchdog"] = "kill" => ret["watchdog"] = "done"
    /\ pc["poller"] = "kill" => ret["poller"] = "done"
    /\ pc["drainer"] = "kill" => ret["drainer"] \in {"worker_failure", "store"}
    /\ pc["waiter"] = "kill" => ret["waiter"] = "finish"
    /\ mon.finished => mon.lock = Nothing /\ pc["drainer"] = "done"
    /\ mon.bytes > OutputLimit => mon.forced # Nothing

\* How far the owner has come says which threads run and what the guest is.
StageInv ==
    /\ stage \in Early => pc["watchdog"] = "none" /\ pc["poller"] = "none"
    /\ stage \in Unborn => guest.st = Nothing /\ ~pty.open /\ pty.produced = 0
    /\ stage \in Unborn \cup {"attach", "channel"} => pc["drainer"] = "none"
    /\ stage \in Unborn \cup {"attach", "channel", "release", "waiter"} =>
          pc["waiter"] = "none" /\ ~sess.finished /\ ~acked /\ life.terminal = Nothing
    /\ stage \in {"attach", "channel", "release"} => guest.st \in {"held", "signaled"}
    /\ stage \in {"waiter", "serving"} => guest.st \in {"running"} \cup Dead
    /\ stage \in Attached => guest.grouped
    /\ stage = "gone" => ~Alive /\ pc["drainer"] = "done" /\ pc["waiter"] = "done"
    /\ pc["drainer"] = "none" => ch.err = Nothing /\ ~ch.eof /\ ch.chunk = 0
    /\ \A p \in Stoppers : pc[p] \in {"gate", "request"} => stage = "serving"

\* A termination that was begun reaches an attached guest, or failed; so does
\* one a caller was promised.
KillInv ==
    /\ cg.killed => life.started
    /\ cg.killed /\ stage \in Attached => ~Alive
    /\ life.started /\ stage \in Attached => ~Alive \/ mon.lock # Nothing \/ mon.failed
    /\ acked => ~Alive \/ mon.lock # Nothing \/ mon.failed

\* Past waitpid the guest is dead, and past finish_draining the drainer is done.
WaiterInv ==
    /\ stage = "serving" /\ pc["waiter"] \notin {"none", "stop", "wait"} => guest.st \in Dead
    /\ stage = "serving" => pc["waiter"] # "none"
    /\ pc["waiter"] \in {"finish", "monitor", "watchdog", "observe", "cleanup", "publish",
                         "error", "kill"} => pc["drainer"] = "done"
    /\ pc["waiter"] \in {"watchdog", "observe", "cleanup", "publish"} => mon.finished
    /\ pc["waiter"] \in {"cleanup", "publish"} => life.terminal = terminal_cause
    /\ life.terminal # Nothing => guest.st \in Dead
    /\ sess.finished => pc["waiter"] = "done"
    /\ pc["waiter"] = "done" => sess.finished \/ stage = "gone"

\* What was read, hashed, counted and stored agree as far as the drainer has
\* come; the end of the terminal is seen after its last byte.
DrainInv ==
    LET d == IF pc["drainer"] = "kill" THEN ret["drainer"] ELSE pc["drainer"]
    IN  /\ Taken <= pty.produced
        /\ d \in {"poll", "consume", "account", "store"} => ch.err = Nothing /\ ~ch.eof
        /\ d = "poll" => ch.chunk = 0
        /\ d \in {"none", "poll", "consume", "account"} \/ (d = "exit" /\ ch.err = Nothing)
              \/ (ch.done /\ ch.err = Nothing) => mon.bytes = ch.hashed
        /\ d = "store" => /\ mon.bytes = ch.hashed + ch.chunk
                          /\ ch.within => mon.bytes <= OutputLimit
        /\ ch.eof => ~pty.open /\ pty.produced = ch.hashed /\ ch.chunk = 0 /\ stage \notin Unborn
        /\ ch.done => d = "done"
        /\ ch.err = Nothing => ch.ring.next = ch.hashed /\ ch.hashed <= OutputLimit

\* The ring holds the last bytes that were stored, in order from its head.
RingInv(r) ==
    /\ r \in Rings
    /\ r.next = r.oldest + r.size
    /\ \A k \in 0 .. r.size - 1 : r.buf[(r.head + k) % RingBytes] = r.oldest + k + 1

\* What is published does not become untrue.
ReceiptInv ==
    sess.receipt # NoReceipt =>
        /\ guest.st \in Dead /\ mon.finished
        /\ sess.receipt.cause = terminal_cause
        /\ sess.receipt.bytes = mon.bytes
        /\ sess.receipt.complete = transcript_complete

ManagedInv ==
    /\ Shapes /\ MonitorInv /\ StageInv /\ KillInv /\ WaiterInv /\ DrainInv
    /\ RingInv(ch.ring) /\ ReceiptInv
-----------------------------------------------------------------------------
(* The threads, and the helpers of their steps.                            *)

LEMMA Names ==
    /\ "watchdog" \in Threads /\ "poller" \in Threads
    /\ "drainer" \in Threads /\ "waiter" \in Threads
    /\ \A p \in Stoppers : p \in Threads /\ p \notin {"watchdog", "poller", "drainer", "waiter"}
    /\ Nothing \notin Threads
BY ManagedAssumption DEF Threads, Nothing

\* What a request for termination does to the monitor, the flag and its caller.
LEMMA RequestEffect ==
    ASSUME NEW t \in Threads, NEW cause \in Forced, NEW next, NEW m \in Monitors,
           life \in Lives,
           pc = [u \in Threads |-> pc[u]], ret = [u \in Threads |-> ret[u]],
           request_termination_locked(t, cause, next, m)
    PROVE  /\ mon' \in Monitors /\ life' \in Lives
           /\ pc' = [u \in Threads |-> pc'[u]] /\ ret' = [u \in Threads |-> ret'[u]]
           /\ mon'.finished = m.finished /\ mon'.bytes = m.bytes /\ mon'.failed = m.failed
           /\ life'.terminal = life.terminal /\ life'.finishing = life.finishing
           /\ \A u \in Threads : u # t => pc'[u] = pc[u] /\ ret'[u] = ret[u]
           /\ \/ /\ m.finished \/ m.forced # Nothing
                 /\ mon' = m /\ life' = life /\ ret' = ret /\ pc'[t] = next
              \/ /\ ~m.finished /\ m.forced = Nothing
                 /\ mon'.forced = cause /\ mon'.lock = t /\ life'.started
                 /\ pc'[t] = "kill" /\ ret'[t] = next
<1>1. CASE m.finished \/ m.forced # Nothing
  BY <1>1 DEF request_termination_locked, Goto
<1>2. CASE ~(m.finished \/ m.forced # Nothing)
  <2>1. mon' = [m EXCEPT !.forced = cause, !.lock = t]
    BY <1>2 DEF request_termination_locked
  <2>2. life' = [life EXCEPT !.started = TRUE]
    BY <1>2 DEF request_termination_locked
  <2>3. /\ pc' = [pc EXCEPT ![t] = "kill"]
        /\ ret' = [ret EXCEPT ![t] = next]
    BY <1>2 DEF request_termination_locked
  <2>4. /\ mon' \in Monitors /\ mon'.forced = cause /\ mon'.lock = t
        /\ mon'.finished = m.finished /\ mon'.bytes = m.bytes /\ mon'.failed = m.failed
    BY <2>1 DEF Monitors, Holders
  <2>5. /\ life' \in Lives /\ life'.started
        /\ life'.terminal = life.terminal /\ life'.finishing = life.finishing
    BY <2>2 DEF Lives
  <2>6. /\ pc' = [u \in Threads |-> pc'[u]] /\ ret' = [u \in Threads |-> ret'[u]]
        /\ pc'[t] = "kill" /\ ret'[t] = next
        /\ \A u \in Threads : u # t => pc'[u] = pc[u] /\ ret'[u] = ret[u]
    BY <2>3
  <2>7. ~m.finished /\ m.forced = Nothing
    BY <1>2
  <2> QED
    BY <2>4, <2>5, <2>6, <2>7
<1> QED
  BY <1>1, <1>2
-----------------------------------------------------------------------------
(* The ring.                                                               *)

LEMMA LeastOf ==
    ASSUME NEW T \in SUBSET Nat, T # {}
    PROVE  \E x \in T : \A y \in T : x <= y
<1>1. PICK x \in T : \A y \in T : ~(<<y, x>> \in OpToRel(<, Nat))
  BY NatLessThanWellFounded, WFMin
<1>2. \A y \in T : ~(y < x)
  BY <1>1 DEF OpToRel
<1>3. x \in Nat /\ \A y \in T : y \in Nat
  OBVIOUS
<1> QED
  BY <1>2, <1>3

\* An index passes the end of the ring at most once.
LEMMA Wraps ==
    ASSUME NEW a \in 0 .. 2 * RingBytes - 1
    PROVE  a % RingBytes = IF a < RingBytes THEN a ELSE a - RingBytes
<1>1. RingBytes \in Nat \ {0} /\ a \in Nat
  BY ManagedAssumption
<1> QED
  BY <1>1

LEMMA Slots ==
    ASSUME NEW h \in 0 .. RingBytes - 1, NEW k \in 0 .. RingBytes
    PROVE  /\ (h + k) % RingBytes = IF h + k < RingBytes THEN h + k ELSE h + k - RingBytes
           /\ (h + k) % RingBytes \in 0 .. RingBytes - 1
<1>1. RingBytes \in Nat \ {0}
  BY ManagedAssumption
<1>2. h + k \in 0 .. 2 * RingBytes - 1
  BY <1>1
<1> DEFINE a == h + k
           w == a % RingBytes
<1> HIDE DEF a
<1>3. w = IF a < RingBytes THEN a ELSE a - RingBytes
  BY <1>2, Wraps DEF a
<1> HIDE DEF w
<1>4. w \in 0 .. RingBytes - 1
  BY <1>1, <1>2, <1>3 DEF a
<1>5. w = (h + k) % RingBytes
  BY DEF w, a
<1>6. a = h + k
  BY DEF a
<1>7. (h + k) % RingBytes = IF h + k < RingBytes THEN h + k ELSE h + k - RingBytes
  <2>1. CASE h + k < RingBytes
    BY <1>3, <1>5, <1>6, <2>1, Zenon
  <2>2. CASE ~(h + k < RingBytes)
    <3>1. w = a - RingBytes
      BY <1>3, <1>6, <2>2, Zenon
    <3>2. a - RingBytes = h + k - RingBytes
      BY <1>1, <1>2, <1>6
    <3> QED
      BY <1>5, <2>2, <3>1, <3>2, Zenon
  <2> QED
    BY <2>1, <2>2
<1>8. (h + k) % RingBytes \in 0 .. RingBytes - 1
  BY <1>4, <1>5
<1> QED
  BY <1>7, <1>8

Holds(buf, head, size, oldest) ==
    \A k \in 0 .. size - 1 : buf[(head + k) % RingBytes] = oldest + k + 1

\* A byte stored behind the last one overwrites none that is held.
LEMMA StoreByte ==
    ASSUME NEW buf \in [0 .. RingBytes - 1 -> Nat], NEW h \in 0 .. RingBytes - 1,
           NEW s \in 0 .. RingBytes - 1, NEW o \in Nat, Holds(buf, h, s, o)
    PROVE  LET b == [buf EXCEPT ![(h + s) % RingBytes] = o + s + 1]
           IN  b \in [0 .. RingBytes - 1 -> Nat] /\ Holds(b, h, s + 1, o)
<1> DEFINE w(k) == (h + k) % RingBytes
           b == [buf EXCEPT ![w(s)] = o + s + 1]
<1>1. RingBytes \in Nat \ {0}
  BY ManagedAssumption
<1>2. \A k \in 0 .. s : /\ w(k) = IF h + k < RingBytes THEN h + k ELSE h + k - RingBytes
                        /\ w(k) \in 0 .. RingBytes - 1
  <2>1. 0 .. s \subseteq 0 .. RingBytes
    BY <1>1
  <2> QED
    BY <2>1, Slots
<1>3. \A k \in 0 .. s - 1 : buf[w(k)] = o + k + 1
  BY DEF Holds
<1> HIDE DEF w
<1>4. w(s) \in 0 .. RingBytes - 1
  BY <1>1, <1>2
<1>5. b \in [0 .. RingBytes - 1 -> Nat]
  BY <1>4
<1>6. \A k \in 0 .. (s + 1) - 1 : b[w(k)] = o + k + 1
  <2> SUFFICES ASSUME NEW k \in 0 .. s
               PROVE  b[w(k)] = o + k + 1
    OBVIOUS
  <2>1. w(k) \in 0 .. RingBytes - 1
    BY <1>2
  <2>2. CASE k = s
    BY <1>4, <2>2
  <2>3. CASE k # s
    <3>1. k \in 0 .. s - 1
      BY <2>3
    <3>2. /\ w(k) = IF h + k < RingBytes THEN h + k ELSE h + k - RingBytes
          /\ w(s) = IF h + s < RingBytes THEN h + s ELSE h + s - RingBytes
      BY <1>2
    <3>3. w(k) # w(s)
      BY <1>1, <3>1, <3>2
    <3> QED
      BY <1>3, <1>4, <2>1, <3>1, <3>3
  <2> QED
    BY <2>2, <2>3
<1> QED
  BY <1>5, <1>6 DEF Holds, w

\* Without its oldest byte the ring begins one slot further.
LEMMA DropByte ==
    ASSUME NEW buf \in [0 .. RingBytes - 1 -> Nat], NEW h \in 0 .. RingBytes - 1,
           NEW o \in Nat, Holds(buf, h, RingBytes, o)
    PROVE  /\ (h + 1) % RingBytes \in 0 .. RingBytes - 1
           /\ Holds(buf, (h + 1) % RingBytes, RingBytes - 1, o + 1)
<1> DEFINE w(g, k) == (g + k) % RingBytes
<1>1. RingBytes \in Nat \ {0}
  BY ManagedAssumption
<1>2. \A g \in 0 .. RingBytes - 1 : \A k \in 0 .. RingBytes :
         /\ w(g, k) = IF g + k < RingBytes THEN g + k ELSE g + k - RingBytes
         /\ w(g, k) \in 0 .. RingBytes - 1
  BY Slots
<1>3. \A k \in 0 .. RingBytes - 1 : buf[w(h, k)] = o + k + 1
  BY DEF Holds
<1> HIDE DEF w
<1>4. /\ w(h, 1) = IF h + 1 < RingBytes THEN h + 1 ELSE h + 1 - RingBytes
      /\ w(h, 1) \in 0 .. RingBytes - 1
  <2>1. 1 \in 0 .. RingBytes
    BY <1>1
  <2> QED
    BY <1>2, <2>1
<1>5. \A k \in 0 .. RingBytes - 1 - 1 : buf[w(w(h, 1), k)] = o + 1 + k + 1
  <2> SUFFICES ASSUME NEW k \in 0 .. RingBytes - 1 - 1
               PROVE  buf[w(w(h, 1), k)] = o + 1 + k + 1
    OBVIOUS
  <2>1. k + 1 \in 0 .. RingBytes - 1
    BY <1>1
  <2>2. buf[w(h, k + 1)] = o + (k + 1) + 1
    BY <1>3, <2>1
  <2>3. k \in 0 .. RingBytes /\ k + 1 \in 0 .. RingBytes
    BY <1>1
  <2> DEFINE g == w(h, 1)
  <2>4. w(g, k) = IF g + k < RingBytes THEN g + k ELSE g + k - RingBytes
    BY <1>2, <1>4, <2>3
  <2>5. w(h, k + 1) = IF h + (k + 1) < RingBytes THEN h + (k + 1) ELSE h + (k + 1) - RingBytes
    BY <1>2, <2>3
  <2>6. g = IF h + 1 < RingBytes THEN h + 1 ELSE h + 1 - RingBytes
    BY <1>4
  <2> HIDE DEF g
  <2>7. w(g, k) = w(h, k + 1)
    BY <1>1, <2>1, <2>4, <2>5, <2>6
  <2> QED
    BY <1>1, <2>1, <2>2, <2>7 DEF g
<1> QED
  BY <1>4, <1>5 DEF Holds, w

LEMMA PushKeeps ==
    ASSUME NEW r, RingInv(r)
    PROVE  RingInv(PushByte(r, r.next + 1)) /\ PushByte(r, r.next + 1).next = r.next + 1
<1>1. /\ RingBytes \in Nat \ {0} /\ r.head \in 0 .. RingBytes - 1 /\ r.size \in 0 .. RingBytes
      /\ r.oldest \in Nat /\ r.next \in Nat /\ r.buf \in [0 .. RingBytes - 1 -> Nat]
      /\ r.next = r.oldest + r.size /\ r \in Rings
      /\ Holds(r.buf, r.head, r.size, r.oldest)
  BY ManagedAssumption DEF RingInv, Rings, Holds
<1> DEFINE q == PushByte(r, r.next + 1)
<1>2. PICK h, s, o :
         /\ IF r.size = RingBytes
              THEN h = (r.head + 1) % RingBytes /\ s = RingBytes - 1 /\ o = r.oldest + 1
              ELSE h = r.head /\ s = r.size /\ o = r.oldest
         /\ q = [buf |-> [r.buf EXCEPT ![(h + s) % RingBytes] = r.next + 1], head |-> h,
                 size |-> s + 1, oldest |-> o, next |-> r.next + 1]
  BY <1>1 DEF PushByte
<1> HIDE DEF q
<1>3. /\ h \in 0 .. RingBytes - 1 /\ s \in 0 .. RingBytes - 1 /\ o \in Nat /\ r.next = o + s
      /\ Holds(r.buf, h, s, o)
  <2>1. CASE r.size = RingBytes
    <3>1. Holds(r.buf, r.head, RingBytes, r.oldest)
      BY <1>1, <2>1
    <3>2. h \in 0 .. RingBytes - 1 /\ Holds(r.buf, h, s, o)
      BY <1>1, <1>2, <2>1, <3>1, DropByte
    <3>3. s = RingBytes - 1 /\ o = r.oldest + 1
      BY <1>2, <2>1
    <3>4. s \in 0 .. RingBytes - 1 /\ o \in Nat /\ r.next = o + s
      BY <1>1, <2>1, <3>3
    <3> QED
      BY <3>2, <3>4
  <2>2. CASE r.size # RingBytes
    BY <1>1, <1>2, <2>2
  <2> QED
    BY <2>1, <2>2
<1> DEFINE b == [r.buf EXCEPT ![(h + s) % RingBytes] = r.next + 1]
<1>4. b \in [0 .. RingBytes - 1 -> Nat] /\ Holds(b, h, s + 1, o)
  BY <1>1, <1>3, StoreByte
<1>5. q = [buf |-> b, head |-> h, size |-> s + 1, oldest |-> o, next |-> r.next + 1]
  BY <1>2
<1> HIDE DEF b
<1>6. s + 1 \in 0 .. RingBytes /\ r.next + 1 \in Nat /\ r.next + 1 = o + (s + 1)
  <2>1. RingBytes \in Nat /\ s \in 0 .. RingBytes - 1 /\ o \in Nat /\ r.next = o + s
    BY <1>1, <1>3
  <2> QED
    BY <2>1
<1>8. q \in Rings /\ q.next = q.oldest + q.size /\ q.next = r.next + 1
  BY <1>3, <1>4, <1>5, <1>6 DEF Rings
<1>7. Holds(q.buf, q.head, q.size, q.oldest)
  BY <1>4, <1>5
<1> QED
  BY <1>7, <1>8 DEF RingInv, Holds, q

\* The loop over the bytes of a chunk: the function that runs it exists, so
\* append_output is its value at n.
LEMMA PushedExists ==
    ASSUME NEW r, NEW seen \in Nat, NEW n \in Nat
    PROVE  \E f : f = [i \in 0 .. n |-> IF i = 0 THEN r ELSE PushByte(f[i - 1], seen + i)]
<1> DEFINE Runs(m, f) ==
             f = [i \in 0 .. m |-> IF i = 0 THEN r ELSE PushByte(f[i - 1], seen + i)]
           Bad == {m \in Nat : ~\E f : Runs(m, f)}
<1> SUFFICES ASSUME Bad # {}
             PROVE  FALSE
  OBVIOUS
<1>1. PICK m \in Bad : \A k \in Bad : m <= k
  BY LeastOf
<1>2. m \in Nat /\ ~\E f : Runs(m, f)
  OBVIOUS
<1>3. m # 0
  <2> SUFFICES ASSUME m = 0
               PROVE  FALSE
    OBVIOUS
  <2> DEFINE f == [i \in 0 .. 0 |-> r]
  <2>1. Runs(0, f)
    OBVIOUS
  <2> QED
    BY <1>2, <2>1
<1>4. m - 1 \in Nat /\ m - 1 \notin Bad
  <2>1. m - 1 \in Nat /\ ~(m <= m - 1)
    BY <1>2, <1>3
  <2> HIDE DEF Bad
  <2> QED
    BY <1>1, <2>1
<1>5. PICK f : Runs(m - 1, f)
  BY <1>4
<1> DEFINE g == [i \in 0 .. m |-> IF i < m THEN f[i] ELSE PushByte(f[m - 1], seen + m)]
<1>6. Runs(m, g)
  <2>1. \A i \in 0 .. m : g[i] = IF i = 0 THEN r ELSE PushByte(g[i - 1], seen + i)
    <3> SUFFICES ASSUME NEW i \in 0 .. m
                 PROVE  g[i] = IF i = 0 THEN r ELSE PushByte(g[i - 1], seen + i)
      OBVIOUS
    <3>1. CASE i < m
      <4>1. i \in 0 .. m - 1 /\ (i # 0 => i - 1 \in 0 .. m /\ i - 1 < m)
        BY <1>2, <3>1
      <4>2. f[i] = IF i = 0 THEN r ELSE PushByte(f[i - 1], seen + i)
        BY <1>5, <4>1
      <4>3. g[i] = f[i] /\ (i # 0 => g[i - 1] = f[i - 1])
        BY <3>1, <4>1
      <4> QED
        BY <4>2, <4>3
    <3>2. CASE i = m
      <4>1. m - 1 \in 0 .. m /\ m - 1 < m /\ m # 0 /\ ~(m < m)
        BY <1>2, <1>3
      <4>2. g[m] = PushByte(f[m - 1], seen + m) /\ g[m - 1] = f[m - 1]
        BY <3>2, <4>1
      <4> QED
        BY <3>2, <4>1, <4>2
    <3> QED
      BY <1>2, <3>1, <3>2
  <2> QED
    BY <2>1
<1> QED
  BY <1>2, <1>6

LEMMA AppendKeeps ==
    ASSUME NEW r, RingInv(r), NEW n \in Nat
    PROVE  /\ RingInv(append_output(r, r.next, n))
           /\ append_output(r, r.next, n).next = r.next + n
<1> DEFINE Runs(f) ==
             f = [i \in 0 .. n |-> IF i = 0 THEN r ELSE PushByte(f[i - 1], r.next + i)]
           p == CHOOSE f : Runs(f)
           Good(i) == RingInv(p[i]) /\ p[i].next = r.next + i
           Bad == {i \in 0 .. n : ~Good(i)}
<1>1. r.next \in Nat
  BY DEF RingInv, Rings
<1>2. Runs(p)
  BY <1>1, PushedExists
<1>3. append_output(r, r.next, n) = p[n]
  BY DEF append_output
<1>4. p[0] = r /\ \A i \in 1 .. n : p[i] = PushByte(p[i - 1], r.next + i)
  <2> HIDE DEF p
  <2>1. \A i \in 0 .. n : p[i] = IF i = 0 THEN r ELSE PushByte(p[i - 1], r.next + i)
    BY <1>2
  <2>2. 0 \in 0 .. n /\ \A i \in 1 .. n : i \in 0 .. n /\ i # 0
    OBVIOUS
  <2> QED
    BY <2>1, <2>2
<1> HIDE DEF p
<1>5. Bad = {}
  <2> SUFFICES ASSUME Bad # {}
               PROVE  FALSE
    OBVIOUS
  <2>1. Bad \in SUBSET Nat
    OBVIOUS
  <2>2. PICK m \in Bad : \A k \in Bad : m <= k
    BY <2>1, LeastOf
  <2>3. m \in 0 .. n /\ ~Good(m)
    OBVIOUS
  <2>4. m # 0
    BY <1>1, <1>4, <2>3
  <2>5. m \in 1 .. n /\ m - 1 \in 0 .. n /\ m - 1 < m
    BY <2>3, <2>4
  <2>6. Good(m - 1)
    BY <2>2, <2>5
  <2>7. r.next + (m - 1) + 1 = r.next + m
    BY <1>1, <2>5
  <2>8. p[m] = PushByte(p[m - 1], p[m - 1].next + 1)
    BY <1>4, <2>5, <2>6, <2>7
  <2>9. RingInv(p[m]) /\ p[m].next = p[m - 1].next + 1
    BY <2>6, <2>8, PushKeeps
  <2>10. p[m].next = r.next + m
    BY <2>6, <2>7, <2>9
  <2> QED
    BY <2>3, <2>9, <2>10
<1>6. Good(n)
  BY <1>5
<1> QED
  BY <1>3, <1>6
-----------------------------------------------------------------------------
(* Every step keeps the invariant.                                         *)

LEMMA WatchdogKeeps ==
    ASSUME ManagedInv, watchdog_loop
    PROVE  ManagedInv'
<1>1. /\ pc["watchdog"] = "wait" /\ mon.lock = Nothing
      /\ UNCHANGED <<stage, held, guest, cg, quotaHit, pty, ch, sess, acked, faults>>
      /\ \/ request_termination_locked("watchdog", "wall_time_limit", "done", mon)
         \/ Goto("watchdog", "done") /\ UNCHANGED <<life, mon, ret>>
  BY DEF watchdog_loop, request_termination, GuestUnchanged, ChannelUnchanged, At
<1>2. /\ mon' \in Monitors /\ life' \in Lives
      /\ pc' = [u \in Threads |-> pc'[u]] /\ ret' = [u \in Threads |-> ret'[u]]
      /\ mon'.finished = mon.finished /\ mon'.bytes = mon.bytes /\ mon'.failed = mon.failed
      /\ life'.terminal = life.terminal
      /\ \A u \in Threads : u # "watchdog" => pc'[u] = pc[u] /\ ret'[u] = ret[u]
      /\ \/ mon' = mon /\ life' = life /\ pc'["watchdog"] = "done"
         \/ /\ ~mon.finished /\ mon.forced = Nothing
            /\ mon'.lock = "watchdog" /\ mon'.forced # Nothing
            /\ life'.started /\ pc'["watchdog"] = "kill" /\ ret'["watchdog"] = "done"
  <2>1. CASE request_termination_locked("watchdog", "wall_time_limit", "done", mon)
    <3>1. "wall_time_limit" \in Forced /\ "wall_time_limit" # Nothing
      BY DEF Forced, Nothing
    <3> QED
      BY <2>1, <3>1, RequestEffect, Names DEF ManagedInv, Shapes, Forced, Nothing
  <2>2. CASE Goto("watchdog", "done") /\ UNCHANGED <<life, mon, ret>>
    BY <2>2, Names DEF ManagedInv, Shapes, Goto
  <2> QED
    BY <1>1, <2>1, <2>2
<1>3. Shapes'
  BY <1>1, <1>2, Names DEF ManagedInv, Shapes, StepsOK, WatchdogSteps
<1>4. MonitorInv'
  BY <1>1, <1>2, Names DEF ManagedInv, Shapes, MonitorInv
<1>5. StageInv'
  BY <1>1, <1>2, Names DEF ManagedInv, StageInv, Alive
<1>6. KillInv'
  BY <1>1, <1>2, Names DEF ManagedInv, KillInv, Alive
<1>7. WaiterInv'
  BY <1>1, <1>2, Names DEF ManagedInv, WaiterInv, terminal_cause, triggered_limit
<1>8. DrainInv'
  BY <1>1, <1>2, Names DEF ManagedInv, DrainInv, Taken
<1>9. RingInv(ch.ring)' /\ ReceiptInv'
  BY <1>1, <1>2 DEF ManagedInv, ReceiptInv, terminal_cause, triggered_limit,
     transcript_complete
<1> QED
  BY <1>3, <1>4, <1>5, <1>6, <1>7, <1>8, <1>9 DEF ManagedInv
LEMMA PollKeeps ==
    ASSUME ManagedInv, poll_cgroup
    PROVE  ManagedInv'
<1>1. /\ pc["poller"] = "poll" /\ UNCHANGED <<stage, held, guest, cg, quotaHit, life, mon, pty, ch, sess, ret, acked>>
      /\ faults' \in {faults, faults - 1}
      /\ \E l \in {"done", "supervisor_error", "memory_limit", "pid_limit", "cpu_time_limit", "disk"} :
            pc' = [pc EXCEPT !["poller"] = l]
  BY DEF poll_cgroup, triggered_limit, At, Goto, Fails, GuestUnchanged, ChannelUnchanged
<1>2. Shapes'
  BY <1>1, Names DEF ManagedInv, Shapes, StepsOK, PollerSteps, PollCauses
<1>3. MonitorInv'
  BY <1>1, Names DEF ManagedInv, Shapes, StepsOK, MonitorInv, Monitors, Lives
<1>4. StageInv'
  BY <1>1, Names DEF ManagedInv, Shapes, StageInv, Alive
<1>5. KillInv'
  BY <1>1, Names DEF ManagedInv, Shapes, KillInv, Alive, Monitors, Lives, Cgroups
<1>6. WaiterInv'
  BY <1>1, Names DEF ManagedInv, Shapes, StageInv, WaiterInv, terminal_cause,
     triggered_limit
<1>7. DrainInv'
  BY <1>1, Names DEF ManagedInv, Shapes, StageInv, MonitorInv, DrainInv, Taken
<1>8. RingInv(ch.ring)'
  BY <1>1 DEF ManagedInv
<1>9. ReceiptInv'
  BY <1>1, Names DEF ManagedInv, Shapes, StageInv, MonitorInv, WaiterInv, ReceiptInv,
     terminal_cause, triggered_limit, transcript_complete
<1> QED
  BY <1>2, <1>3, <1>4, <1>5, <1>6, <1>7, <1>8, <1>9 DEF ManagedInv

LEMMA PollFilesystemKeeps ==
    ASSUME ManagedInv, poll_filesystem
    PROVE  ManagedInv'
<1>1. /\ pc["poller"] = "disk" /\ UNCHANGED <<stage, held, guest, cg, quotaHit, life, mon, pty, ch, sess, ret, acked>>
      /\ faults' \in {faults, faults - 1}
      /\ \E l \in {"done", "supervisor_error", "disk_limit", "poll"} :
            pc' = [pc EXCEPT !["poller"] = l]
  BY DEF poll_filesystem, At, Goto, Fails, GuestUnchanged, ChannelUnchanged
<1>2. Shapes'
  BY <1>1, Names DEF ManagedInv, Shapes, StepsOK, PollerSteps, PollCauses
<1>3. MonitorInv'
  BY <1>1, Names DEF ManagedInv, Shapes, StepsOK, MonitorInv, Monitors, Lives
<1>4. StageInv'
  BY <1>1, Names DEF ManagedInv, Shapes, StageInv, Alive
<1>5. KillInv'
  BY <1>1, Names DEF ManagedInv, Shapes, KillInv, Alive, Monitors, Lives, Cgroups
<1>6. WaiterInv'
  BY <1>1, Names DEF ManagedInv, Shapes, StageInv, WaiterInv, terminal_cause,
     triggered_limit
<1>7. DrainInv'
  BY <1>1, Names DEF ManagedInv, Shapes, StageInv, MonitorInv, DrainInv, Taken
<1>8. RingInv(ch.ring)'
  BY <1>1 DEF ManagedInv
<1>9. ReceiptInv'
  BY <1>1, Names DEF ManagedInv, Shapes, StageInv, MonitorInv, WaiterInv, ReceiptInv,
     terminal_cause, triggered_limit, transcript_complete
<1> QED
  BY <1>2, <1>3, <1>4, <1>5, <1>6, <1>7, <1>8, <1>9 DEF ManagedInv

LEMMA ConsumeKeeps ==
    ASSUME ManagedInv, consume
    PROVE  ManagedInv'
<1>1. /\ pc["drainer"] = "consume" /\ UNCHANGED <<stage, held, guest, cg, quotaHit, life, mon, pty, ch, sess, ret, acked>>
      /\ faults' \in {faults, faults - 1}
      /\ \E l \in {"account", "ask"} : pc' = [pc EXCEPT !["drainer"] = l]
  BY DEF consume, At, Goto, Fails, GuestUnchanged
<1>2. Shapes'
  BY <1>1, Names DEF ManagedInv, Shapes, StepsOK, DrainerSteps
<1>3. MonitorInv'
  BY <1>1, Names DEF ManagedInv, Shapes, StepsOK, MonitorInv, Monitors, Lives
<1>4. StageInv'
  BY <1>1, Names DEF ManagedInv, Shapes, StageInv, Alive
<1>5. KillInv'
  BY <1>1, Names DEF ManagedInv, Shapes, KillInv, Alive, Monitors, Lives, Cgroups
<1>6. WaiterInv'
  BY <1>1, Names DEF ManagedInv, Shapes, StageInv, WaiterInv, terminal_cause,
     triggered_limit
<1>7. DrainInv'
  BY <1>1, Names DEF ManagedInv, Shapes, StageInv, MonitorInv, DrainInv, Taken
<1>8. RingInv(ch.ring)'
  BY <1>1 DEF ManagedInv
<1>9. ReceiptInv'
  BY <1>1, Names DEF ManagedInv, Shapes, StageInv, MonitorInv, WaiterInv, ReceiptInv,
     terminal_cause, triggered_limit, transcript_complete
<1> QED
  BY <1>2, <1>3, <1>4, <1>5, <1>6, <1>7, <1>8, <1>9 DEF ManagedInv

LEMMA WorkerFailureKeeps ==
    ASSUME ManagedInv, worker_failure
    PROVE  ManagedInv'
<1>1. /\ pc["drainer"] = "worker_failure" /\ pc' = [pc EXCEPT !["drainer"] = "exit"]
      /\ UNCHANGED <<stage, held, guest, cg, quotaHit, life, mon, pty, sess, ret, acked, faults>>
      /\ ch' = [ch EXCEPT !.err = IF @ = Nothing THEN "worker_failure" ELSE @]
  BY DEF worker_failure, set_error, At, Goto, GuestUnchanged
<1>2. Shapes'
  BY <1>1, Names DEF ManagedInv, Shapes, StepsOK, Channels, Errors, DrainerSteps
<1>3. MonitorInv'
  BY <1>1, Names DEF ManagedInv, Shapes, StepsOK, MonitorInv, Monitors, Lives
<1>4. StageInv'
  BY <1>1, Names DEF ManagedInv, Shapes, StageInv, Alive
<1>5. KillInv'
  BY <1>1, Names DEF ManagedInv, Shapes, KillInv, Alive, Monitors, Lives, Cgroups
<1>6. WaiterInv'
  BY <1>1, Names DEF ManagedInv, Shapes, StageInv, WaiterInv, terminal_cause,
     triggered_limit
<1>7. DrainInv'
  BY <1>1, Names DEF ManagedInv, Shapes, StageInv, MonitorInv, DrainInv, Taken, Channels,
     Errors, Nothing
<1>8. RingInv(ch.ring)'
  BY <1>1 DEF ManagedInv
<1>9. ReceiptInv'
  BY <1>1, Names DEF ManagedInv, Shapes, StageInv, MonitorInv, WaiterInv, ReceiptInv,
     terminal_cause, triggered_limit, transcript_complete
<1> QED
  BY <1>2, <1>3, <1>4, <1>5, <1>6, <1>7, <1>8, <1>9 DEF ManagedInv

LEMMA WorkerExitKeeps ==
    ASSUME ManagedInv, worker_exit
    PROVE  ManagedInv'
<1>1. /\ pc["drainer"] = "exit" /\ pc' = [pc EXCEPT !["drainer"] = "done"]
      /\ UNCHANGED <<stage, held, guest, cg, quotaHit, life, mon, pty, sess, ret, acked, faults>>
      /\ ch' = [ch EXCEPT !.done = TRUE]
  BY DEF worker_exit, At, Goto, GuestUnchanged
<1>2. Shapes'
  BY <1>1, Names DEF ManagedInv, Shapes, StepsOK, Channels, DrainerSteps
<1>3. MonitorInv'
  BY <1>1, Names DEF ManagedInv, Shapes, StepsOK, MonitorInv, Monitors, Lives
<1>4. StageInv'
  BY <1>1, Names DEF ManagedInv, Shapes, StageInv, Alive
<1>5. KillInv'
  BY <1>1, Names DEF ManagedInv, Shapes, KillInv, Alive, Monitors, Lives, Cgroups
<1>6. WaiterInv'
  BY <1>1, Names DEF ManagedInv, Shapes, StageInv, WaiterInv, terminal_cause,
     triggered_limit
<1>7. DrainInv'
  BY <1>1, Names DEF ManagedInv, Shapes, StageInv, MonitorInv, DrainInv, Taken
<1>8. RingInv(ch.ring)'
  BY <1>1 DEF ManagedInv
<1>9. ReceiptInv'
  BY <1>1, Names DEF ManagedInv, Shapes, StageInv, MonitorInv, WaiterInv, ReceiptInv,
     terminal_cause, triggered_limit, transcript_complete
<1> QED
  BY <1>2, <1>3, <1>4, <1>5, <1>6, <1>7, <1>8, <1>9 DEF ManagedInv

LEMMA CreateChannelKeeps ==
    ASSUME ManagedInv, create_channel
    PROVE  ManagedInv'
<1>1. /\ stage = "channel" /\ stage' = "release" /\ pc' = [pc EXCEPT !["drainer"] = "poll"]
      /\ UNCHANGED <<held, guest, cg, quotaHit, life, mon, pty, ch, sess, ret, acked, faults>>
  BY DEF create_channel, Goto, GuestUnchanged, ChannelUnchanged
<1>2. Shapes'
  BY <1>1, Names DEF ManagedInv, Shapes, StepsOK, Stages, Attached, Unborn, Early,
     DrainerSteps
<1>3. MonitorInv'
  BY <1>1, Names, ManagedAssumption DEF ManagedInv, Shapes, StepsOK, MonitorInv, Monitors,
     Lives, StageInv
<1>4. StageInv'
  BY <1>1, Names DEF ManagedInv, Shapes, StageInv, Alive, Stages, Attached, Unborn, Early
<1>5. KillInv'
  BY <1>1, Names DEF ManagedInv, Shapes, KillInv, Alive, Monitors, Lives, Cgroups, Stages,
     Attached, Unborn, Early
<1>6. WaiterInv'
  BY <1>1, Names DEF ManagedInv, Shapes, StageInv, WaiterInv, terminal_cause,
     triggered_limit
<1>7. DrainInv'
  BY <1>1, Names DEF ManagedInv, Shapes, StageInv, MonitorInv, DrainInv, Taken
<1>8. RingInv(ch.ring)'
  BY <1>1 DEF ManagedInv
<1>9. ReceiptInv'
  BY <1>1, Names DEF ManagedInv, Shapes, StageInv, MonitorInv, WaiterInv, ReceiptInv,
     terminal_cause, triggered_limit, transcript_complete
<1> QED
  BY <1>2, <1>3, <1>4, <1>5, <1>6, <1>7, <1>8, <1>9 DEF ManagedInv

LEMMA JoinWatchdogKeeps ==
    ASSUME ManagedInv, join_watchdog
    PROVE  ManagedInv'
<1>1. /\ pc["waiter"] = "watchdog" /\ pc' = [pc EXCEPT !["waiter"] = "observe"]
      /\ UNCHANGED <<stage, held, guest, cg, quotaHit, life, mon, pty, ch, sess, ret, acked, faults>>
  BY DEF join_watchdog, At, Goto, WaiterUnchanged
<1>2. Shapes'
  BY <1>1, Names DEF ManagedInv, Shapes, StepsOK, WaiterSteps
<1>3. MonitorInv'
  BY <1>1, Names DEF ManagedInv, Shapes, StepsOK, MonitorInv, Monitors, Lives
<1>4. StageInv'
  BY <1>1, Names DEF ManagedInv, Shapes, StageInv, Alive
<1>5. KillInv'
  BY <1>1, Names DEF ManagedInv, Shapes, KillInv, Alive, Monitors, Lives, Cgroups
<1>6. WaiterInv'
  BY <1>1, Names DEF ManagedInv, Shapes, StageInv, WaiterInv, terminal_cause,
     triggered_limit
<1>7. DrainInv'
  BY <1>1, Names DEF ManagedInv, Shapes, StageInv, MonitorInv, DrainInv, Taken
<1>8. RingInv(ch.ring)'
  BY <1>1 DEF ManagedInv
<1>9. ReceiptInv'
  BY <1>1, Names DEF ManagedInv, Shapes, StageInv, MonitorInv, WaiterInv, ReceiptInv,
     terminal_cause, triggered_limit, transcript_complete
<1> QED
  BY <1>2, <1>3, <1>4, <1>5, <1>6, <1>7, <1>8, <1>9 DEF ManagedInv

LEMMA WaitKeeps ==
    ASSUME ManagedInv, wait_for_child
    PROVE  ManagedInv'
<1>1. /\ pc["waiter"] = "wait" /\ guest.st \in Dead /\ pc' = [pc EXCEPT !["waiter"] = "drain"]
      /\ sess' = [sess EXCEPT !.lock = "waiter"]
      /\ UNCHANGED <<stage, held, guest, cg, quotaHit, life, mon, pty, ch, ret, acked, faults>>
  BY DEF wait_for_child, At, Goto, WaiterUnchanged, Dead
<1>2. Shapes'
  BY <1>1, Names DEF ManagedInv, Shapes, StepsOK, Sessions, Holders, WaiterSteps
<1>3. MonitorInv'
  BY <1>1, Names DEF ManagedInv, Shapes, StepsOK, MonitorInv, Monitors, Lives
<1>4. StageInv'
  BY <1>1, Names DEF ManagedInv, Shapes, StageInv, Alive
<1>5. KillInv'
  BY <1>1, Names DEF ManagedInv, Shapes, KillInv, Alive, Monitors, Lives, Cgroups
<1>6. WaiterInv'
  BY <1>1, Names DEF ManagedInv, Shapes, StageInv, WaiterInv, terminal_cause,
     triggered_limit
<1>7. DrainInv'
  BY <1>1, Names DEF ManagedInv, Shapes, StageInv, MonitorInv, DrainInv, Taken
<1>8. RingInv(ch.ring)'
  BY <1>1 DEF ManagedInv
<1>9. ReceiptInv'
  BY <1>1, Names DEF ManagedInv, Shapes, StageInv, MonitorInv, WaiterInv, ReceiptInv,
     terminal_cause, triggered_limit, transcript_complete
<1> QED
  BY <1>2, <1>3, <1>4, <1>5, <1>6, <1>7, <1>8, <1>9 DEF ManagedInv

LEMMA MonitorFinishKeeps ==
    ASSUME ManagedInv, monitor_finish
    PROVE  ManagedInv'
<1>1. /\ pc["waiter"] = "monitor" /\ mon.lock = Nothing /\ pc' = [pc EXCEPT !["waiter"] = "watchdog"]
      /\ mon' = [mon EXCEPT !.finished = TRUE]
      /\ UNCHANGED <<stage, held, guest, cg, quotaHit, life, pty, ch, sess, ret, acked, faults>>
  BY DEF monitor_finish, At, Goto, WaiterUnchanged
<1>2. Shapes'
  BY <1>1, Names DEF ManagedInv, Shapes, StepsOK, Monitors, WaiterSteps
<1>3. MonitorInv'
  BY <1>1, Names, ManagedAssumption DEF ManagedInv, Shapes, StepsOK, MonitorInv, Monitors,
     Lives, WaiterInv
<1>4. StageInv'
  BY <1>1, Names DEF ManagedInv, Shapes, StageInv, Alive
<1>5. KillInv'
  BY <1>1, Names DEF ManagedInv, Shapes, KillInv, Alive, Monitors, Lives, Cgroups
<1>6. WaiterInv'
  BY <1>1, Names DEF ManagedInv, Shapes, StageInv, WaiterInv, terminal_cause,
     triggered_limit
<1>7. DrainInv'
  BY <1>1, Names DEF ManagedInv, Shapes, StageInv, MonitorInv, DrainInv, Taken
<1>8. RingInv(ch.ring)'
  BY <1>1 DEF ManagedInv
<1>9. ReceiptInv'
  BY <1>1, Names DEF ManagedInv, Shapes, StageInv, MonitorInv, WaiterInv, ReceiptInv,
     terminal_cause, triggered_limit, transcript_complete
<1> QED
  BY <1>2, <1>3, <1>4, <1>5, <1>6, <1>7, <1>8, <1>9 DEF ManagedInv

LEMMA AttachKeeps ==
    ASSUME ManagedInv, attach
    PROVE  ManagedInv'
<1>1. /\ stage = "attach" /\ ~life.started /\ stage' = "channel"
      /\ life' = [life EXCEPT !.attached = TRUE] /\ guest' = [guest EXCEPT !.grouped = TRUE]
      /\ UNCHANGED <<held, cg, quotaHit, mon, pty, ch, sess, pc, ret, acked, faults>>
  BY DEF attach, ChannelUnchanged
<1>2. Shapes'
  <2>1. stage' \in Stages
    BY <1>1 DEF ManagedInv, Shapes, Stages, Attached, Unborn
  <2>2. guest' \in Guests /\ life' \in Lives
    BY <1>1 DEF ManagedInv, Shapes, Guests, Lives
  <2> QED
    BY <1>1, Names, <2>1, <2>2 DEF ManagedInv, Shapes, StepsOK
<1>3. MonitorInv'
  BY <1>1, Names DEF ManagedInv, Shapes, StepsOK, MonitorInv, Monitors, Lives
<1>4. StageInv'
  BY <1>1, Names DEF ManagedInv, Shapes, StageInv, Alive, Stages, Attached, Unborn, Early,
     Guests, Lives
<1>5. KillInv'
  BY <1>1, Names DEF ManagedInv, Shapes, KillInv, Alive, Monitors, Lives, Cgroups, Stages,
     Attached, Unborn, Early, Guests
<1>6. WaiterInv'
  BY <1>1, Names DEF ManagedInv, Shapes, StageInv, WaiterInv, terminal_cause,
     triggered_limit, Guests, Lives
<1>7. DrainInv'
  BY <1>1, Names DEF ManagedInv, Shapes, StageInv, MonitorInv, DrainInv, Taken, Stages,
     Attached, Unborn, Early
<1>8. RingInv(ch.ring)'
  BY <1>1 DEF ManagedInv
<1>9. ReceiptInv'
  BY <1>1, Names DEF ManagedInv, Shapes, StageInv, MonitorInv, WaiterInv, ReceiptInv,
     terminal_cause, triggered_limit, transcript_complete
<1> QED
  BY <1>2, <1>3, <1>4, <1>5, <1>6, <1>7, <1>8, <1>9 DEF ManagedInv

LEMMA ReleaseKeeps ==
    ASSUME ManagedInv, release
    PROVE  ManagedInv'
<1>1. /\ stage = "release" /\ stage' = "waiter"
      /\ guest' = [guest EXCEPT !.st = IF @ = "held" THEN "running" ELSE @]
      /\ UNCHANGED <<held, cg, quotaHit, life, mon, pty, ch, sess, pc, ret, acked, faults>>
  BY DEF release, ChannelUnchanged
<1>2. Shapes'
  <2>1. stage' \in Stages
    BY <1>1 DEF ManagedInv, Shapes, Stages, Attached, Unborn
  <2>2. guest' \in Guests
    BY <1>1 DEF ManagedInv, Shapes, Guests, Dead
  <2> QED
    BY <1>1, Names, <2>1, <2>2 DEF ManagedInv, Shapes, StepsOK
<1>3. MonitorInv'
  BY <1>1, Names DEF ManagedInv, Shapes, StepsOK, MonitorInv, Monitors, Lives
<1>4. StageInv'
  BY <1>1, Names DEF ManagedInv, Shapes, StageInv, Alive, Stages, Attached, Unborn, Early,
     Guests, Dead
<1>5. KillInv'
  BY <1>1, Names DEF ManagedInv, Shapes, KillInv, Alive, Monitors, Lives, Cgroups, Stages,
     Attached, Unborn, Early, Guests, StageInv
<1>6. WaiterInv'
  BY <1>1, Names DEF ManagedInv, Shapes, StageInv, WaiterInv, terminal_cause,
     triggered_limit, Guests, Dead
<1>7. DrainInv'
  BY <1>1, Names DEF ManagedInv, Shapes, StageInv, MonitorInv, DrainInv, Taken, Stages,
     Attached, Unborn, Early
<1>8. RingInv(ch.ring)'
  BY <1>1 DEF ManagedInv
<1>9. ReceiptInv'
  BY <1>1, Names DEF ManagedInv, Shapes, StageInv, MonitorInv, WaiterInv, ReceiptInv,
     terminal_cause, triggered_limit, transcript_complete, Guests, Dead
<1> QED
  BY <1>2, <1>3, <1>4, <1>5, <1>6, <1>7, <1>8, <1>9 DEF ManagedInv

LEMMA CloneKeeps ==
    ASSUME ManagedInv, clone
    PROVE  ManagedInv'
<1>1. /\ stage = "clone" /\ stage' = "attach"
      /\ guest' \in [st : {"held"}, grouped : BOOLEAN]
      /\ pty' = [pty EXCEPT !.open = TRUE]
      /\ UNCHANGED <<held, cg, quotaHit, life, mon, ch, sess, pc, ret, acked, faults>>
  BY DEF clone, ChannelUnchanged
<1>2. Shapes'
  <2>1. stage' \in Stages
    BY <1>1 DEF ManagedInv, Shapes, Stages, Attached, Unborn
  <2>2. guest' \in Guests /\ pty' \in [produced : Nat, open : BOOLEAN]
    BY <1>1 DEF ManagedInv, Shapes, Guests
  <2> QED
    BY <1>1, Names, <2>1, <2>2 DEF ManagedInv, Shapes, StepsOK
<1>3. MonitorInv'
  BY <1>1, Names DEF ManagedInv, Shapes, StepsOK, MonitorInv, Monitors, Lives
<1>4. StageInv'
  BY <1>1, Names DEF ManagedInv, Shapes, StageInv, Alive, Stages, Attached, Unborn, Early,
     Guests
<1>5. KillInv'
  BY <1>1, Names DEF ManagedInv, Shapes, KillInv, Alive, Monitors, Lives, Cgroups, Stages,
     Attached, Unborn, Early, Guests, StageInv
<1>6. WaiterInv'
  BY <1>1, Names DEF ManagedInv, Shapes, StageInv, WaiterInv, terminal_cause,
     triggered_limit, Guests, Dead, Nothing, Stages, Attached, Unborn, Early
<1>7. DrainInv'
  BY <1>1, Names DEF ManagedInv, Shapes, StageInv, MonitorInv, DrainInv, Taken, Stages,
     Attached, Unborn, Early
<1>8. RingInv(ch.ring)'
  BY <1>1 DEF ManagedInv
<1>9. ReceiptInv'
  BY <1>1, Names DEF ManagedInv, Shapes, StageInv, MonitorInv, WaiterInv, ReceiptInv,
     terminal_cause, triggered_limit, transcript_complete, Guests, Dead, Nothing, Stages,
     Attached, Unborn, Early
<1> QED
  BY <1>2, <1>3, <1>4, <1>5, <1>6, <1>7, <1>8, <1>9 DEF ManagedInv

LEMMA StartWaiterKeeps ==
    ASSUME ManagedInv, start_waiter
    PROVE  ManagedInv'
<1>1. /\ stage = "waiter" /\ stage' = "serving"
      /\ \/ pc' = [pc EXCEPT !["waiter"] = "wait"] /\ UNCHANGED sess
         \/ pc' = [pc EXCEPT !["waiter"] = "stop"] /\ sess' = [sess EXCEPT !.waits = FALSE]
      /\ faults' \in {faults, faults - 1}
      /\ UNCHANGED <<held, guest, cg, quotaHit, life, mon, pty, ch, ret, acked>>
  BY DEF start_waiter, Goto, Fails, GuestUnchanged
<1>2. Shapes'
  <2>1. stage' \in Stages
    BY <1>1 DEF ManagedInv, Shapes, Stages, Attached, Unborn
  <2>2. sess' \in Sessions
    BY <1>1 DEF ManagedInv, Shapes, Sessions
  <2> QED
    BY <1>1, Names, <2>1, <2>2 DEF ManagedInv, Shapes, StepsOK, WaiterSteps
<1>3. MonitorInv'
  BY <1>1, Names, ManagedAssumption DEF ManagedInv, Shapes, StepsOK, MonitorInv, Monitors,
     Lives, StageInv
<1>4. StageInv'
  BY <1>1, Names DEF ManagedInv, Shapes, StageInv, Alive, Stages, Attached, Unborn, Early,
     Sessions
<1>5. KillInv'
  BY <1>1, Names DEF ManagedInv, Shapes, KillInv, Alive, Monitors, Lives, Cgroups, Stages,
     Attached, Unborn, Early
<1>6. WaiterInv'
  BY <1>1, Names DEF ManagedInv, Shapes, StageInv, WaiterInv, terminal_cause,
     triggered_limit, Stages, Attached, Unborn, Early, Sessions
<1>7. DrainInv'
  BY <1>1, Names DEF ManagedInv, Shapes, StageInv, MonitorInv, DrainInv, Taken, Stages,
     Attached, Unborn, Early
<1>8. RingInv(ch.ring)'
  BY <1>1 DEF ManagedInv
<1>9. ReceiptInv'
  BY <1>1, Names DEF ManagedInv, Shapes, StageInv, MonitorInv, WaiterInv, ReceiptInv,
     terminal_cause, triggered_limit, transcript_complete, Sessions
<1> QED
  BY <1>2, <1>3, <1>4, <1>5, <1>6, <1>7, <1>8, <1>9 DEF ManagedInv

LEMMA StopPollerKeeps ==
    ASSUME ManagedInv, stop_poller
    PROVE  ManagedInv'
<1>1. /\ pc["waiter"] = "finish" /\ \E l \in {"monitor", "error"} : pc' = [pc EXCEPT !["waiter"] = l]
      /\ life' \in Lives /\ life'.started = life.started /\ life'.terminal = life.terminal
      /\ faults' \in {faults, faults - 1}
      /\ UNCHANGED <<stage, held, guest, cg, quotaHit, mon, pty, ch, sess, ret, acked>>
  BY DEF stop_poller, At, Goto, Fails, WaiterUnchanged, ManagedInv, Shapes, Lives
<1>2. Shapes'
  BY <1>1, Names DEF ManagedInv, Shapes, StepsOK, WaiterSteps
<1>3. MonitorInv'
  BY <1>1, Names DEF ManagedInv, Shapes, StepsOK, MonitorInv, Monitors, Lives
<1>4. StageInv'
  BY <1>1, Names DEF ManagedInv, Shapes, StageInv, Alive
<1>5. KillInv'
  BY <1>1, Names DEF ManagedInv, Shapes, KillInv, Alive, Monitors, Lives, Cgroups
<1>6. WaiterInv'
  BY <1>1, Names DEF ManagedInv, Shapes, StageInv, WaiterInv, terminal_cause,
     triggered_limit
<1>7. DrainInv'
  BY <1>1, Names DEF ManagedInv, Shapes, StageInv, MonitorInv, DrainInv, Taken
<1>8. RingInv(ch.ring)'
  BY <1>1 DEF ManagedInv
<1>9. ReceiptInv'
  BY <1>1, Names DEF ManagedInv, Shapes, StageInv, MonitorInv, WaiterInv, ReceiptInv,
     terminal_cause, triggered_limit, transcript_complete
<1> QED
  BY <1>2, <1>3, <1>4, <1>5, <1>6, <1>7, <1>8, <1>9 DEF ManagedInv

LEMMA ObserveKeeps ==
    ASSUME ManagedInv, observe
    PROVE  ManagedInv'
<1>1. /\ pc["waiter"] = "observe"
      /\ \/ pc' = [pc EXCEPT !["waiter"] = "cleanup"] /\ life' = [life EXCEPT !.terminal = terminal_cause]
         \/ pc' = [pc EXCEPT !["waiter"] = "error"] /\ life' = [life EXCEPT !.finishing = FALSE]
      /\ faults' \in {faults, faults - 1}
      /\ UNCHANGED <<stage, held, guest, cg, quotaHit, mon, pty, ch, sess, ret, acked>>
  BY DEF observe, At, Goto, Fails, WaiterUnchanged
<1>2. Shapes'
  <2>1. guest.st \in Dead
    BY <1>1, Names DEF ManagedInv, Shapes, StageInv, WaiterInv, Stages, Attached
  <2>2. terminal_cause \in Causes
    BY <1>1, <2>1 DEF ManagedInv, Shapes, Monitors, terminal_cause, triggered_limit, Causes,
       Forced, PollCauses
  <2>3. life' \in Lives
    BY <1>1, <2>2 DEF ManagedInv, Shapes, Lives
  <2> QED
    BY <1>1, Names, <2>1, <2>2, <2>3 DEF ManagedInv, Shapes, StepsOK, WaiterSteps
<1>3. MonitorInv'
  BY <1>1, Names DEF ManagedInv, Shapes, StepsOK, MonitorInv, Monitors, Lives
<1>4. StageInv'
  BY <1>1, Names DEF ManagedInv, Shapes, StageInv, Alive
<1>5. KillInv'
  BY <1>1, Names DEF ManagedInv, Shapes, KillInv, Alive, Monitors, Lives, Cgroups
<1>6. WaiterInv'
  <2>1. guest.st \in Dead
    BY <1>1, Names DEF ManagedInv, Shapes, StageInv, WaiterInv, Stages, Attached
  <2>2. terminal_cause' = terminal_cause
    BY <1>1 DEF terminal_cause, triggered_limit
  <2> QED
    BY <1>1, <2>1, <2>2, Names DEF ManagedInv, Shapes, Lives, WaiterInv
<1>7. DrainInv'
  BY <1>1, Names DEF ManagedInv, Shapes, StageInv, MonitorInv, DrainInv, Taken
<1>8. RingInv(ch.ring)'
  BY <1>1 DEF ManagedInv
<1>9. ReceiptInv'
  BY <1>1, Names DEF ManagedInv, Shapes, StageInv, MonitorInv, WaiterInv, ReceiptInv,
     terminal_cause, triggered_limit, transcript_complete
<1> QED
  BY <1>2, <1>3, <1>4, <1>5, <1>6, <1>7, <1>8, <1>9 DEF ManagedInv

LEMMA CleanupKeeps ==
    ASSUME ManagedInv, cleanup_resources
    PROVE  ManagedInv'
<1>1. /\ pc["waiter"] = "cleanup" /\ \E l \in {"publish", "error"} : pc' = [pc EXCEPT !["waiter"] = l]
      /\ life' = [life EXCEPT !.finishing = FALSE]
      /\ cg' \in Cgroups /\ cg'.hit = cg.hit /\ cg'.killed = cg.killed /\ faults' \in {faults, faults - 1}
      /\ UNCHANGED <<stage, guest, quotaHit, mon, pty, ch, sess, ret, acked>>
  BY DEF cleanup_resources, At, Goto, Fails, WaiterUnchanged, ManagedInv, Shapes, Cgroups
<1>2. Shapes'
  <2>1. life' \in Lives
    BY <1>1 DEF ManagedInv, Shapes, Lives
  <2> QED
    BY <1>1, Names, <2>1 DEF ManagedInv, Shapes, StepsOK, WaiterSteps
<1>3. MonitorInv'
  BY <1>1, Names DEF ManagedInv, Shapes, StepsOK, MonitorInv, Monitors, Lives
<1>4. StageInv'
  BY <1>1, Names DEF ManagedInv, Shapes, StageInv, Alive
<1>5. KillInv'
  BY <1>1, Names DEF ManagedInv, Shapes, KillInv, Alive, Monitors, Lives, Cgroups
<1>6. WaiterInv'
  BY <1>1, Names DEF ManagedInv, Shapes, StageInv, WaiterInv, terminal_cause,
     triggered_limit
<1>7. DrainInv'
  BY <1>1, Names DEF ManagedInv, Shapes, StageInv, MonitorInv, DrainInv, Taken
<1>8. RingInv(ch.ring)'
  BY <1>1 DEF ManagedInv
<1>9. ReceiptInv'
  BY <1>1, Names DEF ManagedInv, Shapes, StageInv, MonitorInv, WaiterInv, ReceiptInv,
     terminal_cause, triggered_limit, transcript_complete
<1> QED
  BY <1>2, <1>3, <1>4, <1>5, <1>6, <1>7, <1>8, <1>9 DEF ManagedInv

LEMMA PublishErrorKeeps ==
    ASSUME ManagedInv, publish_error
    PROVE  ManagedInv'
<1>1. /\ pc["waiter"] = "error" /\ pc' = [pc EXCEPT !["waiter"] = "done"]
      /\ sess' \in Sessions /\ sess'.finished /\ sess'.receipt = sess.receipt
      /\ UNCHANGED <<stage, held, guest, cg, quotaHit, life, mon, pty, ch, ret, acked, faults>>
  BY DEF publish_error, At, Goto, WaiterUnchanged, ManagedInv, Shapes, Sessions, Holders
<1>2. Shapes'
  BY <1>1, Names DEF ManagedInv, Shapes, StepsOK, WaiterSteps
<1>3. MonitorInv'
  BY <1>1, Names DEF ManagedInv, Shapes, StepsOK, MonitorInv, Monitors, Lives
<1>4. StageInv'
  BY <1>1, Names DEF ManagedInv, Shapes, StageInv, Alive
<1>5. KillInv'
  BY <1>1, Names DEF ManagedInv, Shapes, KillInv, Alive, Monitors, Lives, Cgroups
<1>6. WaiterInv'
  BY <1>1, Names DEF ManagedInv, Shapes, StageInv, WaiterInv, terminal_cause,
     triggered_limit
<1>7. DrainInv'
  BY <1>1, Names DEF ManagedInv, Shapes, StageInv, MonitorInv, DrainInv, Taken
<1>8. RingInv(ch.ring)'
  BY <1>1 DEF ManagedInv
<1>9. ReceiptInv'
  BY <1>1, Names DEF ManagedInv, Shapes, StageInv, MonitorInv, WaiterInv, ReceiptInv,
     terminal_cause, triggered_limit, transcript_complete
<1> QED
  BY <1>2, <1>3, <1>4, <1>5, <1>6, <1>7, <1>8, <1>9 DEF ManagedInv

LEMMA BeforeStopKeeps ==
    ASSUME NEW p \in Stoppers, ManagedInv, before_stop(p)
    PROVE  ManagedInv'
<1>1. /\ pc[p] = "gate" /\ \E l \in {"request", "done"} : pc' = [pc EXCEPT ![p] = l]
      /\ sess' \in Sessions /\ sess'.finished = sess.finished /\ sess'.receipt = sess.receipt
      /\ UNCHANGED <<stage, held, guest, cg, quotaHit, life, mon, pty, ch, ret, acked, faults>>
  BY DEF before_stop, At, Goto, GuestUnchanged, ManagedInv, Shapes, Sessions, Holders
<1>2. Shapes'
  BY <1>1, Names DEF ManagedInv, Shapes, StepsOK, StopperSteps
<1>3. MonitorInv'
  BY <1>1, Names DEF ManagedInv, Shapes, StepsOK, MonitorInv, Monitors, Lives
<1>4. StageInv'
  BY <1>1, Names DEF ManagedInv, Shapes, StageInv, Alive
<1>5. KillInv'
  BY <1>1, Names DEF ManagedInv, Shapes, KillInv, Alive, Monitors, Lives, Cgroups
<1>6. WaiterInv'
  BY <1>1, Names DEF ManagedInv, Shapes, StageInv, WaiterInv, terminal_cause,
     triggered_limit
<1>7. DrainInv'
  BY <1>1, Names DEF ManagedInv, Shapes, StageInv, MonitorInv, DrainInv, Taken
<1>8. RingInv(ch.ring)'
  BY <1>1 DEF ManagedInv
<1>9. ReceiptInv'
  BY <1>1, Names DEF ManagedInv, Shapes, StageInv, MonitorInv, WaiterInv, ReceiptInv,
     terminal_cause, triggered_limit, transcript_complete
<1> QED
  BY <1>2, <1>3, <1>4, <1>5, <1>6, <1>7, <1>8, <1>9 DEF ManagedInv

LEMMA StopKeeps ==
    ASSUME NEW p \in Stoppers, ManagedInv, stop(p)
    PROVE  ManagedInv'
<1>1. /\ stage = "serving" /\ pc[p] = "idle" /\ acked' \in {acked, TRUE}
      /\ acked' => acked \/ sess.finished
      /\ \E l \in {"request", "gate", "done"} : pc' = [pc EXCEPT ![p] = l]
      /\ sess' \in {sess, [sess EXCEPT !.lock = p]}
      /\ UNCHANGED <<stage, held, guest, cg, quotaHit, life, mon, pty, ch, ret, faults>>
  BY DEF stop, At, Goto, GuestUnchanged
<1>2. sess' \in Sessions /\ sess'.finished = sess.finished /\ sess'.receipt = sess.receipt
  BY <1>1, Names DEF ManagedInv, Shapes, Sessions, Holders
<1>3. Shapes'
  BY <1>1, <1>2, Names DEF ManagedInv, Shapes, StepsOK, StopperSteps
<1>4. MonitorInv'
  BY <1>1, <1>2, Names DEF ManagedInv, Shapes, StepsOK, MonitorInv, Monitors, Lives
<1>5. StageInv'
  BY <1>1, <1>2, Names DEF ManagedInv, Shapes, StageInv, Alive, Stages, Attached, Unborn,
     Early
<1>6. KillInv'
  BY <1>1, <1>2, Names DEF ManagedInv, Shapes, KillInv, Alive, Monitors, Lives, Cgroups,
     WaiterInv, Dead
<1>7. WaiterInv'
  BY <1>1, <1>2, Names DEF ManagedInv, Shapes, StageInv, WaiterInv, terminal_cause,
     triggered_limit
<1>8. DrainInv'
  BY <1>1, <1>2, Names DEF ManagedInv, Shapes, StageInv, MonitorInv, DrainInv, Taken
<1>9. RingInv(ch.ring)'
  BY <1>1, <1>2 DEF ManagedInv
<1>10. ReceiptInv'
  BY <1>1, <1>2, Names DEF ManagedInv, Shapes, StageInv, MonitorInv, WaiterInv, ReceiptInv,
     terminal_cause, triggered_limit, transcript_complete
<1> QED
  BY <1>3, <1>4, <1>5, <1>6, <1>7, <1>8, <1>9, <1>10 DEF ManagedInv

LEMMA PublishKeeps ==
    ASSUME ManagedInv, publish
    PROVE  ManagedInv'
<1>1. /\ pc["waiter"] = "publish"
      /\ \/ /\ pc' = [pc EXCEPT !["waiter"] = "done"]
            /\ sess' = [sess EXCEPT !.lock = Nothing, !.finished = TRUE,
                          !.receipt = [cause |-> life.terminal, bytes |-> mon.bytes,
                                       complete |-> transcript_complete]]
         \/ pc' = [pc EXCEPT !["waiter"] = "error"] /\ sess' = sess
      /\ faults' \in {faults, faults - 1}
      /\ UNCHANGED <<stage, held, guest, cg, quotaHit, life, mon, pty, ch, ret, acked>>
  BY DEF publish, At, Goto, Fails, WaiterUnchanged
<1>2. /\ sess' \in Sessions
      /\ \/ /\ pc' = [pc EXCEPT !["waiter"] = "done"] /\ sess'.finished
            /\ sess'.receipt.cause = life.terminal /\ sess'.receipt.bytes = mon.bytes
            /\ sess'.receipt.complete = transcript_complete
         \/ pc' = [pc EXCEPT !["waiter"] = "error"] /\ sess' = sess
  <2>1. /\ life.terminal \in Causes /\ mon.bytes \in Nat /\ transcript_complete \in BOOLEAN
    BY DEF ManagedInv, Shapes, Lives, Monitors, Channels, transcript_complete
  <2> DEFINE r == [cause |-> life.terminal, bytes |-> mon.bytes,
                   complete |-> transcript_complete]
  <2>2. /\ r \in [cause : Causes, bytes : Nat, complete : BOOLEAN]
        /\ r.cause = life.terminal /\ r.bytes = mon.bytes /\ r.complete = transcript_complete
    BY <2>1
  <2>3. \/ /\ pc' = [pc EXCEPT !["waiter"] = "done"]
           /\ sess' = [sess EXCEPT !.lock = Nothing, !.finished = TRUE, !.receipt = r]
        \/ pc' = [pc EXCEPT !["waiter"] = "error"] /\ sess' = sess
    BY <1>1
  <2> HIDE DEF r
  <2>4. sess \in Sessions
    BY DEF ManagedInv, Shapes
  <2>5. CASE sess' = [sess EXCEPT !.lock = Nothing, !.finished = TRUE, !.receipt = r]
    <3>1. sess' \in Sessions /\ sess'.finished /\ sess'.receipt = r
      BY <2>2, <2>4, <2>5 DEF Sessions, Holders
    <3> QED
      BY <2>2, <2>3, <2>4, <3>1
  <2> QED
    BY <2>3, <2>4, <2>5
<1>3. Shapes'
  BY <1>1, <1>2, Names DEF ManagedInv, Shapes, StepsOK, WaiterSteps
<1>4. MonitorInv'
  BY <1>1, <1>2, Names DEF ManagedInv, Shapes, StepsOK, MonitorInv, Monitors, Lives
<1>5. StageInv'
  BY <1>1, <1>2, Names DEF ManagedInv, Shapes, StageInv, Alive, Stages, Attached, Unborn,
     Early
<1>6. KillInv'
  BY <1>1, <1>2, Names DEF ManagedInv, Shapes, KillInv, Alive, Monitors, Lives, Cgroups
<1>7. WaiterInv'
  BY <1>1, <1>2, Names DEF ManagedInv, Shapes, StageInv, WaiterInv, terminal_cause,
     triggered_limit, Stages, Attached, Unborn, Early
<1>8. DrainInv'
  BY <1>1, <1>2, Names DEF ManagedInv, Shapes, StageInv, MonitorInv, DrainInv, Taken
<1>9. RingInv(ch.ring)'
  BY <1>1, <1>2 DEF ManagedInv
<1>10. ReceiptInv'
  <2>1. terminal_cause' = terminal_cause /\ transcript_complete' = transcript_complete
    BY <1>1 DEF terminal_cause, triggered_limit, transcript_complete
  <2>2. guest.st \in Dead /\ mon.finished /\ life.terminal = terminal_cause
    BY <1>1, Names DEF ManagedInv, Shapes, StageInv, WaiterInv, Stages, Attached
  <2>3. CASE sess' = sess
    BY <1>1, <2>1, <2>3 DEF ManagedInv, ReceiptInv
  <2>4. CASE sess' # sess
    BY <1>1, <1>2, <2>1, <2>2, <2>4 DEF ReceiptInv
  <2> QED
    BY <2>3, <2>4
<1> QED
  BY <1>3, <1>4, <1>5, <1>6, <1>7, <1>8, <1>9, <1>10 DEF ManagedInv

LEMMA SignalKeeps ==
    ASSUME ManagedInv, signal
    PROVE  ManagedInv'
<1>1. /\ guest.st = "running" /\ guest' = [guest EXCEPT !.st = "signaled"]
      /\ UNCHANGED <<stage, held, cg, quotaHit, life, mon, pty, ch, sess, pc, ret, acked, faults>>
  BY DEF signal, ChannelUnchanged
<1>2. Shapes'
  <2>1. guest' \in Guests
    BY <1>1 DEF ManagedInv, Shapes, Guests, Dead
  <2> QED
    BY <1>1, Names, <2>1 DEF ManagedInv, Shapes, StepsOK
<1>3. MonitorInv'
  BY <1>1, Names DEF ManagedInv, Shapes, StepsOK, MonitorInv, Monitors, Lives
<1>4. StageInv'
  BY <1>1, Names DEF ManagedInv, Shapes, StageInv, Alive, Guests, Dead, Nothing, Stages,
     Attached, Unborn, Early
<1>5. KillInv'
  BY <1>1, Names DEF ManagedInv, Shapes, KillInv, Alive, Monitors, Lives, Cgroups, Guests
<1>6. WaiterInv'
  BY <1>1, Names DEF ManagedInv, Shapes, StageInv, WaiterInv, terminal_cause,
     triggered_limit, Guests, Dead, Stages, Attached, Unborn, Early
<1>7. DrainInv'
  BY <1>1, Names DEF ManagedInv, Shapes, StageInv, MonitorInv, DrainInv, Taken
<1>8. RingInv(ch.ring)'
  BY <1>1 DEF ManagedInv
<1>9. ReceiptInv'
  BY <1>1, Names DEF ManagedInv, Shapes, StageInv, MonitorInv, WaiterInv, ReceiptInv,
     terminal_cause, triggered_limit, transcript_complete, Guests, Dead
<1> QED
  BY <1>2, <1>3, <1>4, <1>5, <1>6, <1>7, <1>8, <1>9 DEF ManagedInv

LEMMA ExitKeeps ==
    ASSUME ManagedInv, GuestExits
    PROVE  ManagedInv'
<1>1. /\ guest.st = "running" /\ guest' = [guest EXCEPT !.st = "exited"]
      /\ UNCHANGED <<stage, held, cg, quotaHit, life, mon, pty, ch, sess, pc, ret, acked, faults>>
  BY DEF GuestExits, ChannelUnchanged
<1>2. Shapes'
  <2>1. guest' \in Guests
    BY <1>1 DEF ManagedInv, Shapes, Guests, Dead
  <2> QED
    BY <1>1, Names, <2>1 DEF ManagedInv, Shapes, StepsOK
<1>3. MonitorInv'
  BY <1>1, Names DEF ManagedInv, Shapes, StepsOK, MonitorInv, Monitors, Lives
<1>4. StageInv'
  BY <1>1, Names DEF ManagedInv, Shapes, StageInv, Alive, Guests, Dead, Nothing, Stages,
     Attached, Unborn, Early
<1>5. KillInv'
  BY <1>1, Names DEF ManagedInv, Shapes, KillInv, Alive, Monitors, Lives, Cgroups, Guests
<1>6. WaiterInv'
  BY <1>1, Names DEF ManagedInv, Shapes, StageInv, WaiterInv, terminal_cause,
     triggered_limit, Guests, Dead, Stages, Attached, Unborn, Early
<1>7. DrainInv'
  BY <1>1, Names DEF ManagedInv, Shapes, StageInv, MonitorInv, DrainInv, Taken
<1>8. RingInv(ch.ring)'
  BY <1>1 DEF ManagedInv
<1>9. ReceiptInv'
  BY <1>1, Names DEF ManagedInv, Shapes, StageInv, MonitorInv, WaiterInv, ReceiptInv,
     terminal_cause, triggered_limit, transcript_complete, Guests, Dead
<1> QED
  BY <1>2, <1>3, <1>4, <1>5, <1>6, <1>7, <1>8, <1>9 DEF ManagedInv

LEMMA WriteKeeps ==
    ASSUME ManagedInv, GuestWrites
    PROVE  ManagedInv'
<1>1. /\ guest.st = "running" /\ pty.open
      /\ \E n \in Nat : pty' = [pty EXCEPT !.produced = @ + n]
      /\ UNCHANGED <<stage, held, guest, cg, quotaHit, life, mon, ch, sess, pc, ret, acked, faults>>
  BY ManagedAssumption DEF GuestWrites, ChannelUnchanged
<1>2. Shapes'
  <2>1. pty' \in [produced : Nat, open : BOOLEAN]
    BY <1>1 DEF ManagedInv, Shapes
  <2> QED
    BY <1>1, Names, <2>1 DEF ManagedInv, Shapes, StepsOK
<1>3. MonitorInv'
  BY <1>1, Names DEF ManagedInv, Shapes, StepsOK, MonitorInv, Monitors, Lives
<1>4. StageInv'
  BY <1>1, Names DEF ManagedInv, Shapes, StageInv, Alive, Guests, Dead, Nothing, Stages,
     Attached, Unborn, Early
<1>5. KillInv'
  BY <1>1, Names DEF ManagedInv, Shapes, KillInv, Alive, Monitors, Lives, Cgroups
<1>6. WaiterInv'
  BY <1>1, Names DEF ManagedInv, Shapes, StageInv, WaiterInv, terminal_cause,
     triggered_limit
<1>7. DrainInv'
  BY <1>1, Names DEF ManagedInv, Shapes, StageInv, MonitorInv, DrainInv, Taken, Channels
<1>8. RingInv(ch.ring)'
  BY <1>1 DEF ManagedInv
<1>9. ReceiptInv'
  BY <1>1, Names DEF ManagedInv, Shapes, StageInv, MonitorInv, WaiterInv, ReceiptInv,
     terminal_cause, triggered_limit, transcript_complete
<1> QED
  BY <1>2, <1>3, <1>4, <1>5, <1>6, <1>7, <1>8, <1>9 DEF ManagedInv

LEMMA HangUpKeeps ==
    ASSUME ManagedInv, GuestHangsUp
    PROVE  ManagedInv'
<1>1. /\ guest.st # Nothing /\ pty' = [pty EXCEPT !.open = FALSE]
      /\ UNCHANGED <<stage, held, guest, cg, quotaHit, life, mon, ch, sess, pc, ret, acked, faults>>
  BY DEF GuestHangsUp, Nothing
<1>2. Shapes'
  <2>1. pty' \in [produced : Nat, open : BOOLEAN]
    BY <1>1 DEF ManagedInv, Shapes
  <2> QED
    BY <1>1, Names, <2>1 DEF ManagedInv, Shapes, StepsOK
<1>3. MonitorInv'
  BY <1>1, Names DEF ManagedInv, Shapes, StepsOK, MonitorInv, Monitors, Lives
<1>4. StageInv'
  BY <1>1, Names DEF ManagedInv, Shapes, StageInv, Alive
<1>5. KillInv'
  BY <1>1, Names DEF ManagedInv, Shapes, KillInv, Alive, Monitors, Lives, Cgroups
<1>6. WaiterInv'
  BY <1>1, Names DEF ManagedInv, Shapes, StageInv, WaiterInv, terminal_cause,
     triggered_limit
<1>7. DrainInv'
  BY <1>1, Names DEF ManagedInv, Shapes, StageInv, MonitorInv, DrainInv, Taken, Channels
<1>8. RingInv(ch.ring)'
  BY <1>1 DEF ManagedInv
<1>9. ReceiptInv'
  BY <1>1, Names DEF ManagedInv, Shapes, StageInv, MonitorInv, WaiterInv, ReceiptInv,
     terminal_cause, triggered_limit, transcript_complete
<1> QED
  BY <1>2, <1>3, <1>4, <1>5, <1>6, <1>7, <1>8, <1>9 DEF ManagedInv

LEMMA HitKeeps ==
    ASSUME ManagedInv, GuestHitsLimit
    PROVE  ManagedInv'
<1>1. /\ guest.st = "running" /\ guest' \in {guest, [guest EXCEPT !.st = "signaled"]}
      /\ \/ \E h \in Hits : cg' = [cg EXCEPT !.hit = {h}]
         \/ cg' = cg
      /\ quotaHit' \in {quotaHit, TRUE}
      /\ UNCHANGED <<stage, held, life, mon, pty, ch, sess, pc, ret, acked, faults>>
  BY DEF GuestHitsLimit
<1>2. /\ guest' \in Guests /\ guest'.st \in {"running", "signaled"}
      /\ guest'.grouped = guest.grouped
      /\ cg' \in Cgroups /\ cg'.killed = cg.killed
  BY <1>1 DEF ManagedInv, Shapes, Guests, Cgroups, Dead
<1>3. Shapes'
  BY <1>1, <1>2 DEF ManagedInv, Shapes, StepsOK
<1>4. MonitorInv'
  BY <1>1, <1>2, Names DEF ManagedInv, Shapes, StepsOK, MonitorInv, Monitors, Lives
<1>5. StageInv'
  BY <1>1, <1>2, Names DEF ManagedInv, Shapes, StageInv, Alive, Dead, Nothing, Stages,
     Attached, Unborn, Early
<1>6. KillInv'
  BY <1>1, <1>2, Names DEF ManagedInv, Shapes, KillInv, Alive, Monitors, Lives, Cgroups
<1>7. WaiterInv'
  BY <1>1, <1>2, Names DEF ManagedInv, Shapes, StageInv, WaiterInv, terminal_cause,
     triggered_limit, Dead, Nothing, Stages, Attached, Unborn, Early
<1>8. DrainInv'
  BY <1>1, <1>2, Names DEF ManagedInv, Shapes, StageInv, MonitorInv, DrainInv, Taken
<1>9. RingInv(ch.ring)'
  BY <1>1, <1>2 DEF ManagedInv
<1>10. ReceiptInv'
  BY <1>1, <1>2, Names DEF ManagedInv, Shapes, StageInv, MonitorInv, WaiterInv, ReceiptInv,
     terminal_cause, triggered_limit, transcript_complete, Dead
<1> QED
  BY <1>3, <1>4, <1>5, <1>6, <1>7, <1>8, <1>9, <1>10 DEF ManagedInv

LEMMA PollTerminateKeeps ==
    ASSUME ManagedInv, poll_terminate
    PROVE  ManagedInv'
<1>1. /\ pc["poller"] \in PollCauses /\ mon.lock = Nothing
      /\ request_termination_locked("poller", pc["poller"], "done", mon)
      /\ UNCHANGED <<stage, held, guest, cg, quotaHit, pty, ch, sess, acked, faults>>
  BY DEF poll_terminate, request_termination, GuestUnchanged, ChannelUnchanged
<1>2. /\ mon' \in Monitors /\ life' \in Lives
      /\ pc' = [u \in Threads |-> pc'[u]] /\ ret' = [u \in Threads |-> ret'[u]]
      /\ mon'.finished = mon.finished /\ mon'.bytes = mon.bytes /\ mon'.failed = mon.failed
      /\ life'.terminal = life.terminal
      /\ \A u \in Threads : u # "poller" => pc'[u] = pc[u] /\ ret'[u] = ret[u]
      /\ \/ mon' = mon /\ life' = life /\ ret' = ret /\ pc'["poller"] = "done"
         \/ /\ ~mon.finished /\ mon.forced = Nothing
            /\ mon'.lock = "poller" /\ mon'.forced # Nothing
            /\ life'.started /\ pc'["poller"] = "kill" /\ ret'["poller"] = "done"
  <2>1. pc["poller"] \in Forced /\ pc["poller"] # Nothing
    BY <1>1 DEF Forced, PollCauses, Nothing
  <2> QED
    BY <1>1, <2>1, RequestEffect, Names DEF ManagedInv, Shapes, Goto
<1>3. Shapes'
  <2>1. StepsOK'
    BY <1>1, <1>2, Names DEF ManagedInv, Shapes, StepsOK, PollerSteps
  <2> QED
    BY <1>1, <1>2, <2>1 DEF ManagedInv, Shapes
<1>4. MonitorInv'
  BY <1>1, <1>2, Names DEF ManagedInv, Shapes, StepsOK, MonitorInv, Monitors, Lives
<1>5. StageInv'
  BY <1>1, <1>2, Names DEF ManagedInv, Shapes, StageInv, Alive, PollCauses
<1>6. KillInv'
  BY <1>1, <1>2, Names DEF ManagedInv, Shapes, KillInv, Alive, Monitors, Lives, Cgroups
<1>7. WaiterInv'
  BY <1>1, <1>2, Names DEF ManagedInv, Shapes, StageInv, WaiterInv, terminal_cause,
     triggered_limit
<1>8. DrainInv'
  BY <1>1, <1>2, Names DEF ManagedInv, Shapes, StageInv, MonitorInv, DrainInv, Taken
<1>9. RingInv(ch.ring)'
  BY <1>1, <1>2 DEF ManagedInv
<1>10. ReceiptInv'
  BY <1>1, <1>2, Names DEF ManagedInv, Shapes, StageInv, MonitorInv, WaiterInv, ReceiptInv,
     terminal_cause, triggered_limit, transcript_complete
<1> QED
  BY <1>3, <1>4, <1>5, <1>6, <1>7, <1>8, <1>9, <1>10 DEF ManagedInv

LEMMA DrainerAsksKeeps ==
    ASSUME ManagedInv, drainer_asks
    PROVE  ManagedInv'
<1>1. /\ pc["drainer"] = "ask" /\ mon.lock = Nothing
      /\ request_termination_locked("drainer", "supervisor_error", "worker_failure", mon)
      /\ UNCHANGED <<stage, held, guest, cg, quotaHit, pty, ch, sess, acked, faults>>
  BY DEF drainer_asks, request_termination, At, GuestUnchanged, ChannelUnchanged
<1>2. /\ mon' \in Monitors /\ life' \in Lives
      /\ pc' = [u \in Threads |-> pc'[u]] /\ ret' = [u \in Threads |-> ret'[u]]
      /\ mon'.finished = mon.finished /\ mon'.bytes = mon.bytes /\ mon'.failed = mon.failed
      /\ life'.terminal = life.terminal
      /\ \A u \in Threads : u # "drainer" => pc'[u] = pc[u] /\ ret'[u] = ret[u]
      /\ \/ mon' = mon /\ life' = life /\ ret' = ret /\ pc'["drainer"] = "worker_failure"
         \/ /\ ~mon.finished /\ mon.forced = Nothing
            /\ mon'.lock = "drainer" /\ mon'.forced # Nothing
            /\ life'.started /\ pc'["drainer"] = "kill" /\ ret'["drainer"] = "worker_failure"
  <2>1. "supervisor_error" \in Forced /\ "supervisor_error" # Nothing
    BY <1>1 DEF Forced, PollCauses, Nothing
  <2> QED
    BY <1>1, <2>1, RequestEffect, Names DEF ManagedInv, Shapes, Goto
<1>3. Shapes'
  BY <1>1, <1>2, Names DEF ManagedInv, Shapes, StepsOK, DrainerSteps
<1>4. MonitorInv'
  BY <1>1, <1>2, Names DEF ManagedInv, Shapes, StepsOK, MonitorInv, Monitors, Lives
<1>5. StageInv'
  BY <1>1, <1>2, Names DEF ManagedInv, Shapes, StageInv, Alive, Stages, Attached, Unborn,
     Early, Nothing
<1>6. KillInv'
  BY <1>1, <1>2, Names DEF ManagedInv, Shapes, KillInv, Alive, Monitors, Lives, Cgroups
<1>7. WaiterInv'
  BY <1>1, <1>2, Names DEF ManagedInv, Shapes, StageInv, WaiterInv, terminal_cause,
     triggered_limit
<1>8. DrainInv'
  BY <1>1, <1>2, Names DEF ManagedInv, Shapes, StageInv, MonitorInv, DrainInv, Taken
<1>9. RingInv(ch.ring)'
  BY <1>1, <1>2 DEF ManagedInv
<1>10. ReceiptInv'
  BY <1>1, <1>2, Names DEF ManagedInv, Shapes, StageInv, MonitorInv, WaiterInv, ReceiptInv,
     terminal_cause, triggered_limit, transcript_complete
<1> QED
  BY <1>3, <1>4, <1>5, <1>6, <1>7, <1>8, <1>9, <1>10 DEF ManagedInv

LEMMA FinishDrainingKeeps ==
    ASSUME ManagedInv, finish_draining
    PROVE  ManagedInv'
<1>1. /\ pc["waiter"] = "drain" /\ pc["drainer"] = "done"
      /\ \/ Goto("waiter", "finish") /\ UNCHANGED <<life, mon, ret>>
         \/ /\ mon.lock = Nothing
            /\ request_termination_locked("waiter", "supervisor_error", "finish", mon)
      /\ UNCHANGED <<stage, held, guest, cg, quotaHit, pty, ch, sess, acked, faults>>
  BY DEF finish_draining, request_termination, At, GuestUnchanged, ChannelUnchanged
<1>2. /\ mon' \in Monitors /\ life' \in Lives
      /\ pc' = [u \in Threads |-> pc'[u]] /\ ret' = [u \in Threads |-> ret'[u]]
      /\ mon'.finished = mon.finished /\ mon'.bytes = mon.bytes /\ mon'.failed = mon.failed
      /\ life'.terminal = life.terminal
      /\ \A u \in Threads : u # "waiter" => pc'[u] = pc[u] /\ ret'[u] = ret[u]
      /\ \/ mon' = mon /\ life' = life /\ ret' = ret /\ pc'["waiter"] = "finish"
         \/ /\ ~mon.finished /\ mon.forced = Nothing
            /\ mon'.lock = "waiter" /\ mon'.forced # Nothing
            /\ life'.started /\ pc'["waiter"] = "kill" /\ ret'["waiter"] = "finish"
  <2>1. "supervisor_error" \in Forced /\ "supervisor_error" # Nothing
    BY <1>1 DEF Forced, PollCauses, Nothing
  <2> QED
    BY <1>1, <2>1, RequestEffect, Names DEF ManagedInv, Shapes, Goto
<1>3. Shapes'
  BY <1>1, <1>2, Names DEF ManagedInv, Shapes, StepsOK, WaiterSteps
<1>4. MonitorInv'
  BY <1>1, <1>2, Names DEF ManagedInv, Shapes, StepsOK, MonitorInv, Monitors, Lives
<1>5. StageInv'
  BY <1>1, <1>2, Names DEF ManagedInv, Shapes, StageInv, Alive
<1>6. KillInv'
  BY <1>1, <1>2, Names DEF ManagedInv, Shapes, KillInv, Alive, Monitors, Lives, Cgroups
<1>7. WaiterInv'
  BY <1>1, <1>2, Names DEF ManagedInv, Shapes, StageInv, WaiterInv, terminal_cause,
     triggered_limit
<1>8. DrainInv'
  BY <1>1, <1>2, Names DEF ManagedInv, Shapes, StageInv, MonitorInv, DrainInv, Taken
<1>9. RingInv(ch.ring)'
  BY <1>1, <1>2 DEF ManagedInv
<1>10. ReceiptInv'
  BY <1>1, <1>2, Names DEF ManagedInv, Shapes, StageInv, MonitorInv, WaiterInv, ReceiptInv,
     terminal_cause, triggered_limit, transcript_complete
<1> QED
  BY <1>3, <1>4, <1>5, <1>6, <1>7, <1>8, <1>9, <1>10 DEF ManagedInv

\* What the destructors leave.
LEMMA DestroyEffect ==
    ASSUME ManagedInv, Destroy
    PROVE  /\ mon.lock = Nothing /\ stage' = "gone"
           /\ cg' \in Cgroups /\ cg'.hit = cg.hit /\ cg'.killed = cg.killed
           /\ life' \in Lives /\ life'.started = life.started /\ life'.terminal = life.terminal
           /\ mon' = [mon EXCEPT !.finished = TRUE] /\ mon' \in Monitors
           /\ pc' = [t \in Threads |-> pc'[t]]
           /\ \A t \in Threads : pc'[t] = IF t \in Stoppers THEN pc[t] ELSE "done"
<1>1. mon.lock = Nothing /\ stage' = "gone" /\ mon' = [mon EXCEPT !.finished = TRUE] /\ mon' \in Monitors
  BY DEF Destroy, ManagedInv, Shapes, Monitors
<1>2. cg' \in Cgroups /\ cg'.hit = cg.hit /\ cg'.killed = cg.killed
  BY DEF Destroy, ManagedInv, Shapes, Cgroups
<1>3. life' \in Lives /\ life'.started = life.started /\ life'.terminal = life.terminal
  BY DEF Destroy, ManagedInv, Shapes, Lives
<1>4. /\ pc' = [t \in Threads |-> pc'[t]]
      /\ \A t \in Threads : pc'[t] = IF t \in Stoppers THEN pc[t] ELSE "done"
  BY DEF Destroy
<1> QED
  BY <1>1, <1>2, <1>3, <1>4

LEMMA PrepareFailsKeeps ==
    ASSUME ManagedInv, prepare_fails
    PROVE  ManagedInv'
<1>1. /\ Destroy /\ stage \in Unborn /\ faults' = faults - 1
      /\ UNCHANGED <<guest, quotaHit, pty, ch, sess, acked, ret>>
  BY DEF prepare_fails, Fails, Preparing, Unborn, Early, GuestUnchanged, ChannelUnchanged,
     PrepareSteps, Range
<1>2. /\ mon.lock = Nothing /\ stage' = "gone"
      /\ cg' \in Cgroups /\ cg'.hit = cg.hit /\ cg'.killed = cg.killed
      /\ life' \in Lives /\ life'.started = life.started /\ life'.terminal = life.terminal
      /\ mon' = [mon EXCEPT !.finished = TRUE] /\ mon' \in Monitors
      /\ pc' = [t \in Threads |-> pc'[t]]
      /\ \A p \in Stoppers : pc'[p] = pc[p]
      /\ pc'["watchdog"] = "done" /\ pc'["poller"] = "done"
      /\ pc'["drainer"] = "done" /\ pc'["waiter"] = "done"
  BY <1>1, DestroyEffect, Names
<1>3. Shapes'
  <2>1. stage' \in Stages
    BY <1>2 DEF Stages
  <2>2. StepsOK'
    BY <1>2 DEF ManagedInv, Shapes, StepsOK, WatchdogSteps, PollerSteps, DrainerSteps,
       WaiterSteps
  <2> QED
    BY <1>1, <1>2, <2>1, <2>2 DEF ManagedInv, Shapes
<1>4. MonitorInv'
  <2>1. \A t \in Threads : pc'[t] # "kill"
    BY <1>2 DEF ManagedInv, Shapes, StepsOK, StopperSteps, Threads
  <2>2. mon'.lock = Nothing /\ mon'.bytes = mon.bytes /\ mon'.forced = mon.forced
    BY <1>2 DEF ManagedInv, Shapes, Monitors
  <2> QED
    BY <1>1, <1>2, <2>1, <2>2, Names DEF ManagedInv, MonitorInv
<1>5. StageInv'
  BY <1>1, <1>2, Names, ManagedAssumption DEF ManagedInv, Shapes, StageInv, Alive, Stages,
     Attached, Unborn, Early, StepsOK, StopperSteps, Nothing
<1>6. KillInv'
  BY <1>1, <1>2, Names DEF ManagedInv, Shapes, KillInv, Alive, Monitors, Lives, Cgroups,
     Stages, Attached, Unborn, Early
<1>7. WaiterInv'
  BY <1>1, <1>2, Names DEF ManagedInv, Shapes, StageInv, WaiterInv, terminal_cause,
     triggered_limit, Stages, Attached, Unborn, Early, Monitors
<1>8. DrainInv'
  BY <1>1, <1>2, Names DEF ManagedInv, Shapes, StageInv, MonitorInv, DrainInv, Taken,
     Stages, Attached, Unborn, Early
<1>9. RingInv(ch.ring)'
  BY <1>1, <1>2 DEF ManagedInv
<1>10. ReceiptInv'
  BY <1>1, <1>2, Names DEF ManagedInv, Shapes, StageInv, MonitorInv, WaiterInv, ReceiptInv,
     terminal_cause, triggered_limit, transcript_complete, Monitors
<1> QED
  BY <1>3, <1>4, <1>5, <1>6, <1>7, <1>8, <1>9, <1>10 DEF ManagedInv

LEMMA LaunchFailsKeeps ==
    ASSUME ManagedInv, launch_fails
    PROVE  ManagedInv'
<1>1. /\ Destroy /\ stage \in {"clone", "attach", "channel", "release"}
      /\ faults' \in {faults, faults - 1}
      /\ guest' = [guest EXCEPT !.st = IF @ = "held" THEN "signaled" ELSE @]
      /\ sess' = [sess EXCEPT !.finished = TRUE] /\ pty' = [pty EXCEPT !.open = FALSE]
      /\ UNCHANGED <<quotaHit, ch, acked, ret>>
  BY DEF launch_fails, Fails
<1>2. /\ mon.lock = Nothing /\ stage' = "gone"
      /\ cg' \in Cgroups /\ cg'.hit = cg.hit /\ cg'.killed = cg.killed
      /\ life' \in Lives /\ life'.started = life.started /\ life'.terminal = life.terminal
      /\ mon' = [mon EXCEPT !.finished = TRUE] /\ mon' \in Monitors
      /\ pc' = [t \in Threads |-> pc'[t]]
      /\ \A p \in Stoppers : pc'[p] = pc[p]
      /\ pc'["watchdog"] = "done" /\ pc'["poller"] = "done"
      /\ pc'["drainer"] = "done" /\ pc'["waiter"] = "done"
  BY <1>1, DestroyEffect, Names
<1>3. Shapes'
  <2>1. stage' \in Stages
    BY <1>2 DEF Stages
  <2>2. StepsOK'
    BY <1>2 DEF ManagedInv, Shapes, StepsOK, WatchdogSteps, PollerSteps, DrainerSteps,
       WaiterSteps
  <2>3. guest' \in Guests /\ sess' \in Sessions /\ pty' \in [produced : Nat, open : BOOLEAN]
    BY <1>1 DEF ManagedInv, Shapes, Guests, Sessions, Dead
  <2> QED
    BY <1>1, <1>2, <2>1, <2>2, <2>3 DEF ManagedInv, Shapes
<1>4. MonitorInv'
  <2>1. \A t \in Threads : pc'[t] # "kill"
    BY <1>2 DEF ManagedInv, Shapes, StepsOK, StopperSteps, Threads
  <2>2. mon'.lock = Nothing /\ mon'.bytes = mon.bytes /\ mon'.forced = mon.forced
    BY <1>2 DEF ManagedInv, Shapes, Monitors
  <2> QED
    BY <1>1, <1>2, <2>1, <2>2, Names DEF ManagedInv, MonitorInv
<1>5. StageInv'
  BY <1>1, <1>2, Names, ManagedAssumption DEF ManagedInv, Shapes, StageInv, Alive, Stages,
     Attached, Unborn, Early, StepsOK, StopperSteps, Nothing, Guests
<1>6. KillInv'
  BY <1>1, <1>2, Names DEF ManagedInv, Shapes, KillInv, Alive, Monitors, Lives, Cgroups,
     Stages, Attached, Unborn, Early
<1>7. WaiterInv'
  BY <1>1, <1>2, Names DEF ManagedInv, Shapes, StageInv, WaiterInv, terminal_cause,
     triggered_limit, Stages, Attached, Unborn, Early, Monitors, Dead
<1>8. DrainInv'
  BY <1>1, <1>2, Names DEF ManagedInv, Shapes, StageInv, MonitorInv, DrainInv, Taken,
     Stages, Attached, Unborn, Early
<1>9. RingInv(ch.ring)'
  BY <1>1, <1>2 DEF ManagedInv
<1>10. ReceiptInv'
  BY <1>1, <1>2, Names DEF ManagedInv, Shapes, StageInv, MonitorInv, WaiterInv, ReceiptInv,
     terminal_cause, triggered_limit, transcript_complete, Monitors, Sessions, Guests, Dead
<1> QED
  BY <1>3, <1>4, <1>5, <1>6, <1>7, <1>8, <1>9, <1>10 DEF ManagedInv

LEMMA DestroyKeeps ==
    ASSUME ManagedInv, destroy
    PROVE  ManagedInv'
<1>1. /\ Destroy /\ stage = "serving" /\ sess.finished
      /\ \A t \in Stoppers : pc[t] \in {"idle", "done"}
      /\ UNCHANGED <<guest, quotaHit, pty, ch, sess, acked, ret, faults>>
  BY DEF destroy, Fails
<1>2. /\ mon.lock = Nothing /\ stage' = "gone"
      /\ cg' \in Cgroups /\ cg'.hit = cg.hit /\ cg'.killed = cg.killed
      /\ life' \in Lives /\ life'.started = life.started /\ life'.terminal = life.terminal
      /\ mon' = [mon EXCEPT !.finished = TRUE] /\ mon' \in Monitors
      /\ pc' = [t \in Threads |-> pc'[t]]
      /\ \A p \in Stoppers : pc'[p] = pc[p]
      /\ pc'["watchdog"] = "done" /\ pc'["poller"] = "done"
      /\ pc'["drainer"] = "done" /\ pc'["waiter"] = "done"
  BY <1>1, DestroyEffect, Names
<1>3. Shapes'
  <2>1. stage' \in Stages
    BY <1>2 DEF Stages
  <2>2. StepsOK'
    BY <1>2 DEF ManagedInv, Shapes, StepsOK, WatchdogSteps, PollerSteps, DrainerSteps,
       WaiterSteps
  <2> QED
    BY <1>1, <1>2, <2>1, <2>2 DEF ManagedInv, Shapes
<1>4. MonitorInv'
  <2>1. \A t \in Threads : pc'[t] # "kill"
    BY <1>2 DEF ManagedInv, Shapes, StepsOK, StopperSteps, Threads
  <2>2. mon'.lock = Nothing /\ mon'.bytes = mon.bytes /\ mon'.forced = mon.forced
    BY <1>2 DEF ManagedInv, Shapes, Monitors
  <2> QED
    BY <1>1, <1>2, <2>1, <2>2, Names DEF ManagedInv, MonitorInv
<1>5. StageInv'
  BY <1>1, <1>2, Names DEF ManagedInv, Shapes, StageInv, Alive, Stages, Attached, Unborn,
     Early, WaiterInv, Nothing, Dead
<1>6. KillInv'
  BY <1>1, <1>2, Names DEF ManagedInv, Shapes, KillInv, Alive, Monitors, Lives, Cgroups,
     Stages, Attached, Unborn, Early
<1>7. WaiterInv'
  BY <1>1, <1>2, Names DEF ManagedInv, Shapes, StageInv, WaiterInv, terminal_cause,
     triggered_limit, Stages, Attached, Unborn, Early, Monitors
<1>8. DrainInv'
  BY <1>1, <1>2, Names DEF ManagedInv, Shapes, StageInv, MonitorInv, DrainInv, Taken,
     Stages, Attached, Unborn, Early
<1>9. RingInv(ch.ring)'
  BY <1>1, <1>2 DEF ManagedInv
<1>10. ReceiptInv'
  BY <1>1, <1>2, Names DEF ManagedInv, Shapes, StageInv, MonitorInv, WaiterInv, ReceiptInv,
     terminal_cause, triggered_limit, transcript_complete, Monitors
<1> QED
  BY <1>3, <1>4, <1>5, <1>6, <1>7, <1>8, <1>9, <1>10 DEF ManagedInv

\* The order of preparation.
LEMMA NextStage ==
    ASSUME stage \in Range(PrepareSteps) \ {"clone"}
    PROVE  /\ stage \in Unborn \ {"clone"} /\ After(PrepareSteps, stage) \in Unborn
           /\ After(PrepareSteps, stage) \in Early => stage \in Early \ {"lifecycle"}
<1>1. stage \in Unborn \ {"clone"}
  BY DEF Range, PrepareSteps, Unborn, Early
<1>2. \E i \in 1 .. Len(PrepareSteps) - 1 : PrepareSteps[i] = stage
  BY DEF Range, PrepareSteps
<1>3. PICK i \in 1 .. Len(PrepareSteps) - 1 :
          PrepareSteps[i] = stage /\ After(PrepareSteps, stage) = PrepareSteps[1 + i]
  BY <1>2 DEF After
<1>4. i \in {1, 2, 3, 4, 5, 6, 7, 8, 9, 10}
  BY DEF PrepareSteps
<1> QED
  BY <1>1, <1>3, <1>4 DEF PrepareSteps, Unborn, Early

LEMMA PrepareKeeps ==
    ASSUME ManagedInv, prepare
    PROVE  ManagedInv'
<1>1. /\ stage \in Unborn \ {"clone"} /\ stage' \in Unborn
      /\ stage' \in Early => stage \in Early \ {"lifecycle"}
      /\ UNCHANGED <<guest, quotaHit, pty, ch, sess, acked, life, mon, ret, faults>>
  BY NextStage DEF prepare, Preparing, GuestUnchanged, ChannelUnchanged
<1>2. /\ cg' \in Cgroups /\ cg'.hit = cg.hit /\ cg'.killed = cg.killed
      /\ pc' = [u \in Threads |-> pc'[u]]
      /\ \A u \in Threads : u \notin {"watchdog", "poller"} => pc'[u] = pc[u]
      /\ \/ pc' = pc
         \/ /\ stage = "lifecycle"
            /\ pc'["watchdog"] = "wait" /\ pc'["poller"] = "poll"
  <2>1. cg' \in Cgroups /\ cg'.hit = cg.hit /\ cg'.killed = cg.killed
    BY DEF prepare, ManagedInv, Shapes, Cgroups
  <2>2. \/ pc' = pc
        \/ stage = "lifecycle" /\ pc' = [pc EXCEPT !["watchdog"] = "wait", !["poller"] = "poll"]
    BY DEF prepare
  <2> QED
    BY <2>1, <2>2, Names DEF ManagedInv, Shapes
<1>3. Shapes'
  <2>1. stage' \in Stages
    BY <1>1 DEF Stages
  <2>2. StepsOK'
    BY <1>2, Names DEF ManagedInv, Shapes, StepsOK, WatchdogSteps, PollerSteps
  <2> QED
    BY <1>1, <1>2, <2>1, <2>2 DEF ManagedInv, Shapes
<1>4. MonitorInv'
  BY <1>1, <1>2, Names, ManagedAssumption DEF ManagedInv, Shapes, StepsOK, MonitorInv,
     Monitors, Lives, Stages, Attached, Unborn, Early, StageInv
<1>5. StageInv'
  BY <1>1, <1>2, Names DEF ManagedInv, Shapes, StageInv, Alive, Stages, Attached, Unborn,
     Early
<1>6. KillInv'
  BY <1>1, <1>2, Names DEF ManagedInv, Shapes, KillInv, Alive, Monitors, Lives, Cgroups,
     Stages, Attached, Unborn, Early
<1>7. WaiterInv'
  <2>1. terminal_cause' = terminal_cause
    BY <1>1, <1>2 DEF terminal_cause, triggered_limit
  <2> QED
    BY <1>1, <1>2, <2>1, Names DEF ManagedInv, StageInv, WaiterInv, Unborn, Early
<1>8. DrainInv'
  BY <1>1, <1>2, Names DEF ManagedInv, Shapes, StageInv, MonitorInv, DrainInv, Taken,
     Stages, Attached, Unborn, Early
<1>9. RingInv(ch.ring)'
  BY <1>1, <1>2 DEF ManagedInv
<1>10. ReceiptInv'
  BY <1>1, <1>2, Names DEF ManagedInv, Shapes, StageInv, MonitorInv, WaiterInv, ReceiptInv,
     terminal_cause, triggered_limit, transcript_complete
<1> QED
  BY <1>3, <1>4, <1>5, <1>6, <1>7, <1>8, <1>9, <1>10 DEF ManagedInv

\* What a successful kill does to the guest.
LEMMA KillAll ==
    ASSUME guest \in Guests
    PROVE  /\ kill_all(guest) \in Guests /\ kill_all(guest).grouped = guest.grouped
           /\ kill_all(guest).st \in {guest.st, "signaled"}
           /\ kill_all(guest).st # guest.st => Alive
           /\ guest.grouped => kill_all(guest).st \notin {"held", "running"}
BY DEF kill_all, Alive, Guests, Dead

LEMMA KillKeeps ==
    ASSUME NEW t \in Threads, ManagedInv, kill_cgroup(t)
    PROVE  ManagedInv'
<1>1. /\ pc[t] = "kill" /\ pc' = [pc EXCEPT ![t] = ret[t]]
      /\ mon.lock = t /\ t \notin Stoppers
      /\ UNCHANGED <<stage, held, quotaHit, life, pty, ch, sess, acked, ret>>
  BY Names DEF kill_cgroup, At, Goto, ChannelUnchanged, ManagedInv, MonitorInv, Shapes,
     StepsOK, StopperSteps
<1>2. /\ guest' \in Guests /\ cg' \in Cgroups /\ mon' \in Monitors /\ faults' \in Int
      /\ cg'.hit = cg.hit /\ guest'.grouped = guest.grouped
      /\ guest'.st \in {guest.st, "signaled"} /\ (guest'.st # guest.st => Alive)
      /\ mon'.lock = Nothing /\ mon'.bytes = mon.bytes /\ mon'.finished = mon.finished
      /\ mon.forced # Nothing => mon'.forced # Nothing
      /\ \/ cg'.killed /\ mon'.failed = mon.failed
            /\ (guest.grouped => guest'.st \notin {"held", "running"})
         \/ cg' = cg /\ mon'.failed
  <2>1. CASE /\ cg.open /\ guest' = kill_all(guest) /\ cg' = [cg EXCEPT !.killed = TRUE]
             /\ mon' = [mon EXCEPT !.lock = Nothing] /\ UNCHANGED faults
    <3>1. cg' \in Cgroups /\ cg'.hit = cg.hit /\ cg'.killed
      BY <2>1 DEF ManagedInv, Shapes, Cgroups
    <3>2. /\ mon' \in Monitors /\ mon'.lock = Nothing /\ mon'.bytes = mon.bytes
          /\ mon'.finished = mon.finished /\ mon'.failed = mon.failed /\ mon'.forced = mon.forced
      BY <2>1 DEF ManagedInv, Shapes, Monitors, Holders
    <3> QED
      BY <2>1, <3>1, <3>2, KillAll DEF ManagedInv, Shapes
  <2>2. CASE /\ faults' \in {faults, faults - 1} /\ UNCHANGED <<guest, cg>>
             /\ mon' = [mon EXCEPT !.lock = Nothing, !.forced = "supervisor_error", !.failed = TRUE]
    <3>1. /\ mon' \in Monitors /\ mon'.lock = Nothing /\ mon'.bytes = mon.bytes
          /\ mon'.finished = mon.finished /\ mon'.failed /\ mon'.forced # Nothing
      BY <2>2 DEF ManagedInv, Shapes, Monitors, Holders, Forced, PollCauses, Nothing
    <3> QED
      BY <2>2, <3>1 DEF ManagedInv, Shapes
  <2> QED
    BY <2>1, <2>2 DEF kill_cgroup, Fails
<1>3. Shapes'
  <2>1. StepsOK'
    BY <1>1, <1>2, Names DEF ManagedInv, Shapes, StepsOK, MonitorInv, Threads,
       WatchdogSteps, PollerSteps, DrainerSteps, WaiterSteps
  <2> QED
    BY <1>1, <1>2, <2>1 DEF ManagedInv, Shapes
<1>4. MonitorInv'
  BY <1>1, <1>2, Names, ManagedAssumption DEF ManagedInv, Shapes, StepsOK, MonitorInv,
     Monitors, Lives, Threads
<1>5. StageInv'
  BY <1>1, <1>2, Names, ManagedAssumption DEF ManagedInv, Shapes, StageInv, Alive, Stages,
     Attached, Unborn, Early, MonitorInv, Dead, Nothing, Threads, StepsOK
<1>6. KillInv'
  BY <1>1, <1>2, Names DEF ManagedInv, Shapes, StageInv, MonitorInv, KillInv, Alive, Stages
<1>7. WaiterInv'
  BY <1>1, <1>2, Names DEF ManagedInv, Shapes, StageInv, WaiterInv, terminal_cause,
     triggered_limit, MonitorInv, Threads, Dead, Stages, Attached, Unborn, Early
<1>8. DrainInv'
  BY <1>1, <1>2, Names DEF ManagedInv, Shapes, StageInv, MonitorInv, DrainInv, Taken,
     Threads
<1>9. RingInv(ch.ring)'
  BY <1>1, <1>2 DEF ManagedInv
<1>10. ReceiptInv'
  BY <1>1, <1>2, Names DEF ManagedInv, Shapes, StageInv, MonitorInv, WaiterInv, ReceiptInv,
     terminal_cause, triggered_limit, transcript_complete, Dead
<1> QED
  BY <1>3, <1>4, <1>5, <1>6, <1>7, <1>8, <1>9, <1>10 DEF ManagedInv

\* What a request to stop does in a session that serves.
LEMMA StopEffect ==
    ASSUME ManagedInv, request_stop_outcome, stage = "serving"
    PROVE  /\ guest' \in Guests /\ cg' \in Cgroups /\ life' \in Lives
           /\ acked' \in BOOLEAN /\ faults' \in Int
           /\ cg'.hit = cg.hit /\ guest'.grouped = guest.grouped
           /\ guest'.st \in {guest.st, "signaled"} /\ (guest'.st # guest.st => Alive)
           /\ life'.terminal = life.terminal
           /\ \/ /\ UNCHANGED <<guest, cg, life>>
                 /\ acked' => acked \/ life.started \/ life.terminal # Nothing
              \/ cg'.killed /\ life'.started /\ guest'.st \notin {"held", "running"}
<1>1. CASE /\ UNCHANGED <<guest, cg, life>> /\ acked' \in BOOLEAN /\ faults' \in Int
           /\ acked' => acked \/ life.started \/ life.terminal # Nothing
  BY <1>1 DEF ManagedInv, Shapes
<1>2. CASE /\ guest' = kill_all(guest) /\ cg' = [cg EXCEPT !.killed = TRUE]
           /\ life' = [life EXCEPT !.started = TRUE] /\ acked' = TRUE /\ UNCHANGED faults
  <2>1. cg' \in Cgroups /\ cg'.hit = cg.hit /\ cg'.killed
    BY <1>2 DEF ManagedInv, Shapes, Cgroups
  <2>2. life' \in Lives /\ life'.terminal = life.terminal /\ life'.started
    BY <1>2 DEF ManagedInv, Shapes, Lives
  <2>3. guest.grouped
    BY DEF ManagedInv, StageInv, Attached
  <2> QED
    BY <1>2, <2>1, <2>2, <2>3, KillAll DEF ManagedInv, Shapes
<1>3. acked \in BOOLEAN /\ TRUE \in BOOLEAN /\ faults \in Int /\ faults - 1 \in Int
  BY DEF ManagedInv, Shapes
<1>4. \/ /\ UNCHANGED <<guest, cg, life>> /\ faults' \in {faults, faults - 1}
         /\ \/ acked' = TRUE /\ (life.terminal # Nothing \/ life.started)
            \/ acked' = acked
      \/ /\ guest' = kill_all(guest) /\ cg' = [cg EXCEPT !.killed = TRUE]
         /\ life' = [life EXCEPT !.started = TRUE] /\ acked' = TRUE /\ UNCHANGED faults
  BY DEF request_stop_outcome, Fails
<1> QED
  BY <1>1, <1>2, <1>3, <1>4

LEMMA StopUnwaitedKeeps ==
    ASSUME ManagedInv, stop_unwaited
    PROVE  ManagedInv'
<1>1. /\ pc["waiter"] = "stop" /\ stage = "serving" /\ request_stop_outcome
      /\ pc' = [pc EXCEPT !["waiter"] = "wait"]
      /\ UNCHANGED <<stage, held, quotaHit, mon, pty, ch, sess, ret>>
  BY DEF stop_unwaited, At, Goto, ManagedInv, Shapes, StageInv, Stages, Attached
<1>2. /\ guest' \in Guests /\ cg' \in Cgroups /\ life' \in Lives
      /\ acked' \in BOOLEAN /\ faults' \in Int
      /\ cg'.hit = cg.hit /\ guest'.grouped = guest.grouped
      /\ guest'.st \in {guest.st, "signaled"} /\ (guest'.st # guest.st => Alive)
      /\ life'.terminal = life.terminal
      /\ \/ /\ UNCHANGED <<guest, cg, life>>
            /\ acked' => acked \/ life.started \/ life.terminal # Nothing
         \/ cg'.killed /\ life'.started /\ guest'.st \notin {"held", "running"}
  BY <1>1, StopEffect
<1>3. Shapes'
  BY <1>1, <1>2, Names DEF ManagedInv, Shapes, StepsOK, WaiterSteps
<1>4. MonitorInv'
  BY <1>1, <1>2, Names DEF ManagedInv, Shapes, StepsOK, MonitorInv, Monitors, Lives
<1>5. StageInv'
  BY <1>1, <1>2, Names DEF ManagedInv, Shapes, StageInv, Alive, Stages, Attached, Unborn,
     Early, Dead, Nothing
<1>6. KillInv'
  BY <1>1, <1>2, Names DEF ManagedInv, WaiterInv, KillInv, Alive, Dead, Attached
<1>7. WaiterInv'
  <2>1. guest.st \in Dead => guest'.st = guest.st
    BY <1>2 DEF Alive, Dead
  <2>2. guest.st \in Dead => terminal_cause' = terminal_cause
    BY <1>1, <1>2, <2>1 DEF terminal_cause, triggered_limit
  <2> QED
    BY <1>1, <1>2, <2>1, <2>2, Names DEF ManagedInv, Shapes, WaiterInv
<1>8. DrainInv'
  BY <1>1, <1>2, Names DEF ManagedInv, Shapes, StageInv, MonitorInv, DrainInv, Taken
<1>9. RingInv(ch.ring)'
  BY <1>1, <1>2 DEF ManagedInv
<1>10. ReceiptInv'
  <2>1. guest.st \in Dead => guest'.st = guest.st
    BY <1>2 DEF Alive, Dead
  <2>2. guest.st \in Dead => terminal_cause' = terminal_cause
    BY <1>1, <1>2, <2>1 DEF terminal_cause, triggered_limit
  <2> QED
    BY <1>1, <1>2, <2>1, <2>2 DEF ManagedInv, ReceiptInv, transcript_complete
<1> QED
  BY <1>3, <1>4, <1>5, <1>6, <1>7, <1>8, <1>9, <1>10 DEF ManagedInv

LEMMA RequestStopKeeps ==
    ASSUME NEW p \in Stoppers, ManagedInv, request_stop(p)
    PROVE  ManagedInv'
<1>1. /\ pc[p] = "request" /\ stage = "serving" /\ request_stop_outcome
      /\ pc' = [pc EXCEPT ![p] = "done"]
      /\ sess' \in Sessions /\ sess'.finished = sess.finished /\ sess'.receipt = sess.receipt
      /\ UNCHANGED <<stage, held, quotaHit, mon, pty, ch, ret>>
  BY DEF request_stop, At, Goto, ManagedInv, Shapes, StageInv, Sessions, Holders
<1>2. /\ guest' \in Guests /\ cg' \in Cgroups /\ life' \in Lives
      /\ acked' \in BOOLEAN /\ faults' \in Int
      /\ cg'.hit = cg.hit /\ guest'.grouped = guest.grouped
      /\ guest'.st \in {guest.st, "signaled"} /\ (guest'.st # guest.st => Alive)
      /\ life'.terminal = life.terminal
      /\ \/ /\ UNCHANGED <<guest, cg, life>>
            /\ acked' => acked \/ life.started \/ life.terminal # Nothing
         \/ cg'.killed /\ life'.started /\ guest'.st \notin {"held", "running"}
  BY <1>1, StopEffect
<1>3. Shapes'
  BY <1>1, <1>2, Names DEF ManagedInv, Shapes, StepsOK, StopperSteps
<1>4. MonitorInv'
  BY <1>1, <1>2, Names DEF ManagedInv, Shapes, StepsOK, MonitorInv, Monitors, Lives
<1>5. StageInv'
  BY <1>1, <1>2, Names DEF ManagedInv, Shapes, StageInv, Alive, Stages, Attached, Unborn,
     Early, Dead, Nothing
<1>6. KillInv'
  BY <1>1, <1>2, Names DEF ManagedInv, WaiterInv, KillInv, Alive, Dead, Attached
<1>7. WaiterInv'
  <2>1. guest.st \in Dead => guest'.st = guest.st
    BY <1>2 DEF Alive, Dead
  <2>2. guest.st \in Dead => terminal_cause' = terminal_cause
    BY <1>1, <1>2, <2>1 DEF terminal_cause, triggered_limit
  <2> QED
    BY <1>1, <1>2, <2>1, <2>2, Names DEF ManagedInv, Shapes, WaiterInv
<1>8. DrainInv'
  BY <1>1, <1>2, Names DEF ManagedInv, Shapes, StageInv, MonitorInv, DrainInv, Taken
<1>9. RingInv(ch.ring)'
  BY <1>1, <1>2 DEF ManagedInv
<1>10. ReceiptInv'
  <2>1. guest.st \in Dead => guest'.st = guest.st
    BY <1>2 DEF Alive, Dead
  <2>2. guest.st \in Dead => terminal_cause' = terminal_cause
    BY <1>1, <1>2, <2>1 DEF terminal_cause, triggered_limit
  <2> QED
    BY <1>1, <1>2, <2>1, <2>2 DEF ManagedInv, ReceiptInv, transcript_complete
<1> QED
  BY <1>3, <1>4, <1>5, <1>6, <1>7, <1>8, <1>9, <1>10 DEF ManagedInv

LEMMA DrainKeeps ==
    ASSUME ManagedInv, drain_loop
    PROVE  ManagedInv'
<1>1. /\ pc["drainer"] = "poll" /\ faults' \in {faults, faults - 1}
      /\ UNCHANGED <<stage, held, guest, cg, quotaHit, life, mon, pty, sess, ret, acked>>
      /\ \/ /\ \E n \in 1 .. ReadChunk :
                  n <= pty.produced - Taken /\ ch' = [ch EXCEPT !.chunk = n]
            /\ pc' = [pc EXCEPT !["drainer"] = "consume"]
         \/ /\ pty.produced = Taken /\ ~pty.open
            /\ ch' = [ch EXCEPT !.eof = TRUE] /\ pc' = [pc EXCEPT !["drainer"] = "exit"]
         \/ /\ ch' = [ch EXCEPT !.err = IF @ = Nothing THEN "read_failed" ELSE @]
            /\ pc' = [pc EXCEPT !["drainer"] = "ask"]
  BY DEF drain_loop, At, Goto, Fails, GuestUnchanged, set_error
<1>2. /\ ch' \in Channels /\ ch'.hashed = ch.hashed /\ ch'.ring = ch.ring
      /\ ch'.within = ch.within /\ ch'.done = ch.done
      /\ \/ /\ pc' = [pc EXCEPT !["drainer"] = "consume"]
            /\ ch'.chunk <= pty.produced - Taken /\ ch'.eof = ch.eof /\ ch'.err = ch.err
         \/ /\ pty.produced = Taken /\ ~pty.open
            /\ pc' = [pc EXCEPT !["drainer"] = "exit"]
            /\ ch'.chunk = ch.chunk /\ ch'.err = ch.err
         \/ /\ pc' = [pc EXCEPT !["drainer"] = "ask"]
            /\ ch'.chunk = ch.chunk /\ ch'.err # Nothing /\ ch'.eof = ch.eof
  <2>1. ch \in Channels
    BY DEF ManagedInv, Shapes
  <2>2. CASE /\ \E n \in 1 .. ReadChunk :
                   n <= pty.produced - Taken /\ ch' = [ch EXCEPT !.chunk = n]
             /\ pc' = [pc EXCEPT !["drainer"] = "consume"]
    <3>1. PICK n \in 1 .. ReadChunk : n <= pty.produced - Taken /\ ch' = [ch EXCEPT !.chunk = n]
      BY <2>2
    <3>2. n \in Nat
      BY ManagedAssumption
    <3>3. /\ ch' \in Channels /\ ch'.chunk = n /\ ch'.hashed = ch.hashed /\ ch'.ring = ch.ring
          /\ ch'.within = ch.within /\ ch'.done = ch.done /\ ch'.eof = ch.eof /\ ch'.err = ch.err
      BY <2>1, <3>1, <3>2 DEF Channels
    <3> QED
      BY <2>2, <3>1, <3>3
  <2>3. CASE /\ pty.produced = Taken /\ ~pty.open
             /\ ch' = [ch EXCEPT !.eof = TRUE] /\ pc' = [pc EXCEPT !["drainer"] = "exit"]
    <3>1. /\ ch' \in Channels /\ ch'.chunk = ch.chunk /\ ch'.hashed = ch.hashed /\ ch'.ring = ch.ring
          /\ ch'.within = ch.within /\ ch'.done = ch.done /\ ch'.eof /\ ch'.err = ch.err
      BY <2>1, <2>3 DEF Channels
    <3> QED
      BY <2>3, <3>1
  <2>4. CASE /\ ch' = [ch EXCEPT !.err = IF @ = Nothing THEN "read_failed" ELSE @]
             /\ pc' = [pc EXCEPT !["drainer"] = "ask"]
    <3>1. /\ ch' \in Channels /\ ch'.chunk = ch.chunk /\ ch'.hashed = ch.hashed /\ ch'.ring = ch.ring
          /\ ch'.within = ch.within /\ ch'.done = ch.done /\ ch'.eof = ch.eof /\ ch'.err # Nothing
      BY <2>1, <2>4 DEF Channels, Errors, Nothing
    <3> QED
      BY <2>4, <3>1
  <2> QED
    BY <1>1, <2>2, <2>3, <2>4
<1>3. Shapes'
  BY <1>1, <1>2, Names DEF ManagedInv, Shapes, StepsOK, DrainerSteps
<1>4. MonitorInv'
  BY <1>1, <1>2, Names DEF ManagedInv, Shapes, MonitorInv
<1>5. StageInv'
  BY <1>1, <1>2, Names DEF ManagedInv, Shapes, StageInv, Alive, Stages, Attached, Unborn,
     Early
<1>6. KillInv'
  BY <1>1, <1>2, Names DEF ManagedInv, Shapes, KillInv, Alive, Monitors, Lives, Cgroups
<1>7. WaiterInv'
  BY <1>1, <1>2, Names DEF ManagedInv, Shapes, StageInv, WaiterInv, terminal_cause,
     triggered_limit
<1>8. DrainInv'
  <2>1. /\ ch.err = Nothing /\ ~ch.eof /\ ch.chunk = 0 /\ mon.bytes = ch.hashed /\ ~ch.done
        /\ ch.hashed <= OutputLimit /\ ch.ring.next = ch.hashed /\ Taken = ch.hashed
        /\ stage \notin Unborn
    BY <1>1, Names DEF ManagedInv, Shapes, Channels, StageInv, DrainInv, Taken
  <2>2. /\ ch.hashed \in Nat /\ ch'.chunk \in Nat /\ pty.produced \in Nat
    BY <1>2 DEF ManagedInv, Shapes, Channels
  <2>3. /\ pc'["drainer"] \in {"consume", "exit", "ask"}
        /\ pc'["drainer"] = "consume" => /\ ch'.chunk <= pty.produced - ch.hashed
                                         /\ ~ch'.eof /\ ch'.err = Nothing
        /\ pc'["drainer"] = "exit" => /\ pty.produced = ch.hashed /\ ~pty.open
                                      /\ ch'.chunk = 0 /\ ch'.err = Nothing
        /\ pc'["drainer"] = "ask" => ch'.chunk = 0 /\ ch'.err # Nothing /\ ~ch'.eof
    BY <1>1, <1>2, <2>1, Names DEF ManagedInv, Shapes
  <2> QED
    BY <1>1, <1>2, <2>1, <2>2, <2>3 DEF ManagedInv, DrainInv, Taken
<1>9. RingInv(ch.ring)'
  BY <1>1, <1>2 DEF ManagedInv
<1>10. ReceiptInv'
  BY <1>1, <1>2, Names DEF ManagedInv, MonitorInv, ReceiptInv, terminal_cause,
     triggered_limit, transcript_complete
<1> QED
  BY <1>3, <1>4, <1>5, <1>6, <1>7, <1>8, <1>9, <1>10 DEF ManagedInv

LEMMA AccountKeeps ==
    ASSUME ManagedInv, account_terminal_output
    PROVE  ManagedInv'
<1>1. /\ pc["drainer"] = "account" /\ mon.lock = Nothing /\ ~mon.finished
      /\ UNCHANGED <<stage, held, guest, cg, quotaHit, pty, sess, acked, faults>>
      /\ ch' = [ch EXCEPT !.within = ~mon.finished /\ mon.forced = Nothing
                                     /\ mon.bytes + ch.chunk <= OutputLimit]
      /\ LET m == [mon EXCEPT !.bytes = @ + ch.chunk]
         IN  IF m.forced = Nothing /\ m.bytes > OutputLimit
             THEN request_termination_locked("drainer", "terminal_output_limit", "store", m)
             ELSE mon' = m /\ Goto("drainer", "store") /\ UNCHANGED <<life, ret>>
  BY DEF account_terminal_output, At, GuestUnchanged, ManagedInv, MonitorInv
<1>2. /\ ch' \in Channels /\ ch'.chunk = ch.chunk /\ ch'.hashed = ch.hashed
      /\ ch'.ring = ch.ring /\ ch'.eof = ch.eof /\ ch'.err = ch.err /\ ch'.done = ch.done
      /\ ch'.within => mon.bytes + ch.chunk <= OutputLimit
      /\ mon' \in Monitors /\ life' \in Lives /\ life'.terminal = life.terminal
      /\ pc' = [u \in Threads |-> pc'[u]] /\ ret' = [u \in Threads |-> ret'[u]]
      /\ mon'.bytes = mon.bytes + ch.chunk /\ mon'.finished = mon.finished
      /\ mon'.failed = mon.failed
      /\ \A u \in Threads : u # "drainer" => pc'[u] = pc[u] /\ ret'[u] = ret[u]
      /\ \/ /\ mon'.forced = mon.forced /\ mon'.lock = Nothing /\ life' = life /\ ret' = ret
            /\ pc'["drainer"] = "store"
            /\ mon.bytes + ch.chunk > OutputLimit => mon.forced # Nothing
         \/ /\ mon'.forced # Nothing /\ mon'.lock = "drainer" /\ life'.started
            /\ pc'["drainer"] = "kill" /\ ret'["drainer"] = "store"
  <2>1. /\ ch' \in Channels /\ ch'.chunk = ch.chunk /\ ch'.hashed = ch.hashed
        /\ ch'.ring = ch.ring /\ ch'.eof = ch.eof /\ ch'.err = ch.err /\ ch'.done = ch.done
        /\ ch'.within => mon.bytes + ch.chunk <= OutputLimit
    <3>1. ch \in Channels
      BY DEF ManagedInv, Shapes
    <3>2. (~mon.finished /\ mon.forced = Nothing /\ mon.bytes + ch.chunk <= OutputLimit) \in BOOLEAN
      OBVIOUS
    <3> QED
      BY <1>1, <3>1, <3>2 DEF Channels
  <2> DEFINE m == [mon EXCEPT !.bytes = @ + ch.chunk]
  <2>2. /\ m \in Monitors /\ m.bytes = mon.bytes + ch.chunk /\ m.forced = mon.forced
        /\ m.lock = Nothing /\ m.finished = mon.finished /\ m.failed = mon.failed
    BY <1>1 DEF ManagedInv, Shapes, Monitors, Channels
  <2>3. IF m.forced = Nothing /\ m.bytes > OutputLimit
        THEN request_termination_locked("drainer", "terminal_output_limit", "store", m)
        ELSE mon' = m /\ Goto("drainer", "store") /\ UNCHANGED <<life, ret>>
    BY <1>1
  <2> HIDE DEF m
  <2>4. CASE m.forced = Nothing /\ m.bytes > OutputLimit
    <3>1. "terminal_output_limit" \in Forced /\ "terminal_output_limit" # Nothing
      BY DEF Forced, Nothing
    <3>2. ~(m.finished \/ m.forced # Nothing)
      BY <1>1, <2>2, <2>4
    <3> QED
      BY <2>1, <2>2, <2>3, <2>4, <3>1, <3>2, RequestEffect, Names DEF ManagedInv, Shapes
  <2>5. CASE ~(m.forced = Nothing /\ m.bytes > OutputLimit)
    <3>1. mon' = m /\ pc' = [pc EXCEPT !["drainer"] = "store"] /\ life' = life /\ ret' = ret
      BY <2>3, <2>5 DEF Goto
    <3> QED
      BY <2>1, <2>2, <2>5, <3>1, Names DEF ManagedInv, Shapes
  <2> QED
    BY <2>4, <2>5
<1>3. Shapes'
  BY <1>1, <1>2, Names DEF ManagedInv, Shapes, StepsOK, DrainerSteps
<1>4. MonitorInv'
  BY <1>1, <1>2, Names DEF ManagedInv, Shapes, MonitorInv
<1>5. StageInv'
  BY <1>1, <1>2, Names DEF ManagedInv, Shapes, StageInv, Alive
<1>6. KillInv'
  BY <1>1, <1>2, Names DEF ManagedInv, Shapes, KillInv, Alive, Monitors, Lives, Cgroups
<1>7. WaiterInv'
  BY <1>1, <1>2, Names DEF ManagedInv, Shapes, StageInv, WaiterInv, terminal_cause,
     triggered_limit
<1>8. DrainInv'
  <2>1. /\ ch.err = Nothing /\ ~ch.eof /\ mon.bytes = ch.hashed /\ ~ch.done
        /\ ch.hashed <= OutputLimit /\ ch.ring.next = ch.hashed /\ Taken <= pty.produced
    BY <1>1, Names DEF ManagedInv, Shapes, Channels, DrainInv, Taken
  <2> DEFINE d == IF pc["drainer"] = "kill" THEN ret["drainer"] ELSE pc["drainer"]
  <2>2. d' = "store" /\ (ch'.within => mon'.bytes <= OutputLimit)
    BY <1>1, <1>2
  <2>3. mon'.bytes = ch'.hashed + ch'.chunk /\ Taken' = Taken
    BY <1>2, <2>1 DEF Taken
  <2> QED
    BY <1>1, <1>2, <2>1, <2>2, <2>3 DEF DrainInv
<1>9. RingInv(ch.ring)'
  BY <1>1, <1>2 DEF ManagedInv
<1>10. ReceiptInv'
  BY <1>1, <1>2 DEF ManagedInv, ReceiptInv
<1> QED
  BY <1>3, <1>4, <1>5, <1>6, <1>7, <1>8, <1>9, <1>10 DEF ManagedInv

LEMMA StoreKeeps ==
    ASSUME ManagedInv, store_output
    PROVE  ManagedInv'
<1>1. /\ pc["drainer"] = "store" /\ faults' \in {faults, faults - 1}
      /\ UNCHANGED <<stage, held, guest, cg, quotaHit, life, mon, pty, sess, ret, acked>>
      /\ \/ /\ ch.within /\ pc' = [pc EXCEPT !["drainer"] = "poll"]
            /\ ch' = [[ch EXCEPT !.ring = append_output(@, ch.hashed, ch.chunk)]
                         EXCEPT !.hashed = @ + ch.chunk, !.chunk = 0]
         \/ /\ ~ch.within /\ pc' = [pc EXCEPT !["drainer"] = "exit"]
            /\ ch' = [[ch EXCEPT !.err = IF @ = Nothing THEN "output_limit" ELSE @]
                         EXCEPT !.hashed = @ + ch.chunk, !.chunk = 0]
         \/ /\ pc' = [pc EXCEPT !["drainer"] = "ask"]
            /\ ch' = [ch EXCEPT !.err = IF @ = Nothing THEN "transcript_digest" ELSE @]
  BY DEF store_output, At, Goto, Fails, GuestUnchanged, set_error
<1>2. /\ ch' \in Channels /\ ch'.eof = ch.eof /\ ch'.within = ch.within /\ ch'.done = ch.done
      /\ RingInv(ch'.ring)
      /\ \/ /\ ch.within /\ pc' = [pc EXCEPT !["drainer"] = "poll"]
            /\ ch'.ring.next = ch.hashed + ch.chunk /\ ch'.err = ch.err
            /\ ch'.hashed = ch.hashed + ch.chunk /\ ch'.chunk = 0
         \/ /\ pc' = [pc EXCEPT !["drainer"] = "exit"] /\ ch'.err # Nothing
            /\ ch'.hashed = ch.hashed + ch.chunk /\ ch'.chunk = 0
         \/ /\ pc' = [pc EXCEPT !["drainer"] = "ask"] /\ ch'.err # Nothing
            /\ ch'.hashed = ch.hashed /\ ch'.chunk = ch.chunk
  <2>1. ch \in Channels /\ RingInv(ch.ring) /\ ch.ring.next = ch.hashed
    BY <1>1, Names DEF ManagedInv, Shapes, DrainInv
  <2>2. CASE /\ ch.within /\ pc' = [pc EXCEPT !["drainer"] = "poll"]
             /\ ch' = [[ch EXCEPT !.ring = append_output(@, ch.hashed, ch.chunk)]
                          EXCEPT !.hashed = @ + ch.chunk, !.chunk = 0]
    <3> DEFINE q == append_output(ch.ring, ch.hashed, ch.chunk)
    <3>1. ch.chunk \in Nat /\ ch.hashed + ch.chunk \in Nat
      BY <2>1 DEF Channels
    <3>2. RingInv(q) /\ q.next = ch.hashed + ch.chunk
      BY <2>1, <3>1, AppendKeeps
    <3>3. ch' = [[ch EXCEPT !.ring = q] EXCEPT !.hashed = @ + ch.chunk, !.chunk = 0]
      BY <2>2
    <3> HIDE DEF q
    <3>4. q \in Rings
      BY <3>2 DEF RingInv
    <3>5. /\ ch' \in Channels /\ ch'.ring = q /\ ch'.hashed = ch.hashed + ch.chunk /\ ch'.chunk = 0
          /\ ch'.eof = ch.eof /\ ch'.err = ch.err /\ ch'.within = ch.within /\ ch'.done = ch.done
      BY <2>1, <3>1, <3>3, <3>4 DEF Channels
    <3> QED
      BY <2>2, <3>2, <3>5
  <2>3. CASE /\ ~ch.within /\ pc' = [pc EXCEPT !["drainer"] = "exit"]
             /\ ch' = [[ch EXCEPT !.err = IF @ = Nothing THEN "output_limit" ELSE @]
                          EXCEPT !.hashed = @ + ch.chunk, !.chunk = 0]
    <3> DEFINE e == IF ch.err = Nothing THEN "output_limit" ELSE ch.err
    <3>1. e \in Errors /\ e # Nothing /\ ch.hashed + ch.chunk \in Nat
      BY <2>1 DEF Channels, Errors, Nothing
    <3>2. ch' = [[ch EXCEPT !.err = e] EXCEPT !.hashed = @ + ch.chunk, !.chunk = 0]
      BY <2>3
    <3> HIDE DEF e
    <3>3. /\ ch' \in Channels /\ ch'.ring = ch.ring /\ ch'.hashed = ch.hashed + ch.chunk
          /\ ch'.chunk = 0 /\ ch'.err = e
          /\ ch'.eof = ch.eof /\ ch'.within = ch.within /\ ch'.done = ch.done
      BY <2>1, <3>1, <3>2 DEF Channels
    <3> QED
      BY <2>1, <2>3, <3>1, <3>3
  <2>4. CASE /\ pc' = [pc EXCEPT !["drainer"] = "ask"]
             /\ ch' = [ch EXCEPT !.err = IF @ = Nothing THEN "transcript_digest" ELSE @]
    <3>1. /\ ch' \in Channels /\ ch'.ring = ch.ring /\ ch'.hashed = ch.hashed
          /\ ch'.chunk = ch.chunk /\ ch'.err # Nothing
          /\ ch'.eof = ch.eof /\ ch'.within = ch.within /\ ch'.done = ch.done
      BY <2>1, <2>4 DEF Channels, Errors, Nothing
    <3> QED
      BY <2>1, <2>4, <3>1
  <2> QED
    BY <1>1, <2>2, <2>3, <2>4
<1>3. Shapes'
  <2>1. StepsOK'
    BY <1>1, <1>2, Names DEF ManagedInv, Shapes, StepsOK, DrainerSteps
  <2> QED
    BY <1>1, <1>2, <2>1, Names DEF ManagedInv, Shapes
<1>4. MonitorInv'
  BY <1>1, <1>2, Names DEF ManagedInv, Shapes, MonitorInv
<1>5. StageInv'
  BY <1>1, <1>2, Names DEF ManagedInv, Shapes, StageInv, Alive
<1>6. KillInv'
  BY <1>1, <1>2, Names DEF ManagedInv, Shapes, KillInv, Alive, Monitors, Lives, Cgroups
<1>7. WaiterInv'
  BY <1>1, <1>2, Names DEF ManagedInv, Shapes, StageInv, WaiterInv, terminal_cause,
     triggered_limit
<1>8. DrainInv'
  <2>1. /\ ch.err = Nothing /\ ~ch.eof /\ mon.bytes = ch.hashed + ch.chunk /\ ~ch.done
        /\ ch.within => mon.bytes <= OutputLimit
        /\ ch.hashed + ch.chunk <= pty.produced
    BY <1>1, Names DEF ManagedInv, Shapes, Channels, DrainInv, Taken
  <2>2. /\ ch.hashed \in Nat /\ ch.chunk \in Nat
    BY DEF ManagedInv, Shapes, Channels
  <2>3. /\ pc'["drainer"] \in {"poll", "exit", "ask"}
        /\ pc'["drainer"] = "poll" => /\ ch'.err = Nothing /\ ch'.chunk = 0
                                      /\ ch'.hashed = mon.bytes /\ ch'.ring.next = ch'.hashed
                                      /\ ch'.hashed <= OutputLimit
        /\ pc'["drainer"] # "poll" => ch'.err # Nothing
    BY <1>1, <1>2, <2>1, Names DEF ManagedInv, Shapes
  <2>4. ch'.hashed + ch'.chunk = ch.hashed + ch.chunk
    BY <1>2, <2>2
  <2> QED
    BY <1>1, <1>2, <2>1, <2>3, <2>4 DEF DrainInv, Taken
<1>9. RingInv(ch.ring)'
  BY <1>2
<1>10. ReceiptInv'
  BY <1>1, <1>2 DEF ManagedInv, MonitorInv, ReceiptInv
<1> QED
  BY <1>3, <1>4, <1>5, <1>6, <1>7, <1>8, <1>9, <1>10 DEF ManagedInv

-----------------------------------------------------------------------------
(* The invariant.                                                          *)

LEMMA InitHolds == ManagedInit => ManagedInv
<1> SUFFICES ASSUME ManagedInit
             PROVE  ManagedInv
  OBVIOUS
<1>1. /\ stage = "inputs" /\ quotaHit = FALSE /\ acked = FALSE /\ faults = MaxFaults
      /\ guest = [st |-> Nothing, grouped |-> FALSE]
      /\ cg = [open |-> FALSE, killed |-> FALSE, hit |-> {}]
      /\ life = [attached |-> FALSE, started |-> FALSE, pollStop |-> FALSE,
                 finishing |-> FALSE, terminal |-> Nothing]
      /\ mon = [forced |-> Nothing, finished |-> FALSE, bytes |-> 0, failed |-> FALSE, lock |-> Nothing]
      /\ pty = [produced |-> 0, open |-> FALSE]
      /\ sess = [lock |-> Nothing, finished |-> FALSE, receipt |-> NoReceipt, waits |-> TRUE]
      /\ ret = [t \in Threads |-> "none"]
  BY DEF ManagedInit
<1>2. /\ pc = [t \in Threads |-> pc[t]]
      /\ pc["watchdog"] = "none" /\ pc["poller"] = "none"
      /\ pc["drainer"] = "none" /\ pc["waiter"] = "none"
      /\ \A p \in Stoppers : pc[p] = "idle"
  BY Names DEF ManagedInit
<1>3. RingInv(EmptyRing) /\ EmptyRing \in Rings /\ EmptyRing.next = 0
  <2>1. [i \in 0 .. RingBytes - 1 |-> 0] \in [0 .. RingBytes - 1 -> Nat]
    OBVIOUS
  <2>2. 0 \in 0 .. RingBytes - 1 /\ 0 \in 0 .. RingBytes
    BY ManagedAssumption
  <2>3. EmptyRing \in Rings
    BY <2>1, <2>2 DEF EmptyRing, Rings
  <2>4. EmptyRing.size = 0 /\ EmptyRing.oldest = 0 /\ EmptyRing.next = 0
    BY DEF EmptyRing
  <2>5. 0 .. EmptyRing.size - 1 = {}
    BY <2>4
  <2> QED
    BY <2>3, <2>4, <2>5 DEF RingInv
<1>4. /\ ch \in Channels /\ ch.ring = EmptyRing /\ ch.chunk = 0 /\ ch.hashed = 0
      /\ ~ch.eof /\ ch.err = Nothing /\ ~ch.done
  BY <1>3 DEF ManagedInit, Channels, Errors
<1>5. Shapes
  <2>1. stage \in Stages /\ StepsOK
    BY <1>1, <1>2 DEF Stages, Unborn, Early, StepsOK, WatchdogSteps, PollerSteps, DrainerSteps,
       WaiterSteps, StopperSteps
  <2>2. guest \in Guests /\ cg \in Cgroups /\ pty \in [produced : Nat, open : BOOLEAN]
    BY <1>1 DEF Guests, Cgroups
  <2>3. life \in Lives /\ mon \in Monitors
    BY <1>1 DEF Lives, Monitors, Causes, Holders
  <2>4. sess \in Sessions
    BY <1>1 DEF Sessions, Causes, Holders, NoReceipt
  <2>5. quotaHit \in BOOLEAN /\ acked \in BOOLEAN /\ faults \in Int
    <3>1. MaxFaults \in Int
      BY ManagedAssumption
    <3> QED
      BY <1>1, <3>1
  <2>6. ret = [t \in Threads |-> ret[t]]
    BY <1>1
  <2> QED
    BY <1>2, <1>4, <2>1, <2>2, <2>3, <2>4, <2>5, <2>6 DEF Shapes
<1>6. MonitorInv
  <2>1. \A t \in Threads : pc[t] # "kill"
    BY <1>2 DEF Threads
  <2> QED
    BY <1>1, <1>2, <2>1, Names, ManagedAssumption DEF MonitorInv
<1>7. StageInv
  BY <1>1, <1>2, <1>4 DEF StageInv, Alive, Attached, Unborn, Early, Nothing
<1>8. KillInv /\ WaiterInv
  BY <1>1, <1>2 DEF KillInv, WaiterInv
<1>9. DrainInv
  BY <1>1, <1>2, <1>3, <1>4, ManagedAssumption DEF DrainInv, Taken
<1>10. ReceiptInv
  BY <1>1 DEF ReceiptInv
<1> QED
  BY <1>3, <1>4, <1>5, <1>6, <1>7, <1>8, <1>9, <1>10 DEF ManagedInv

LEMMA StutterHolds == ManagedInv /\ UNCHANGED managedVars => ManagedInv'
<1> SUFFICES ASSUME ManagedInv, UNCHANGED managedVars
             PROVE  ManagedInv'
  OBVIOUS
<1> USE DEF managedVars, ManagedInv
<1>1. Shapes' /\ MonitorInv' /\ StageInv' /\ KillInv'
  BY DEF Shapes, StepsOK, MonitorInv, StageInv, KillInv, Alive
<1>2. WaiterInv' /\ DrainInv' /\ RingInv(ch.ring)' /\ ReceiptInv'
  BY DEF WaiterInv, DrainInv, Taken, ReceiptInv, terminal_cause, triggered_limit,
     transcript_complete
<1> QED
  BY <1>1, <1>2

LEMMA NextHolds == ManagedInv /\ ManagedNext => ManagedInv'
<1> SUFFICES ASSUME ManagedInv, ManagedNext
             PROVE  ManagedInv'
  OBVIOUS
<1>1. CASE Launch \/ LaunchEnds
  BY <1>1, PrepareKeeps, CloneKeeps, AttachKeeps, CreateChannelKeeps, ReleaseKeeps,
     StartWaiterKeeps, PrepareFailsKeeps, LaunchFailsKeeps DEF Launch, LaunchEnds
<1>2. CASE watchdog_loop \/ Poller \/ destroy
  BY <1>2, WatchdogKeeps, PollKeeps, PollFilesystemKeeps, PollTerminateKeeps, DestroyKeeps
     DEF Poller
<1>3. CASE Drainer
  BY <1>3, DrainKeeps, ConsumeKeeps, DrainerAsksKeeps, WorkerFailureKeeps, AccountKeeps,
     StoreKeeps, WorkerExitKeeps DEF Drainer
<1>4. CASE Waiter
  BY <1>4, StopUnwaitedKeeps, WaitKeeps, FinishDrainingKeeps, StopPollerKeeps,
     MonitorFinishKeeps, JoinWatchdogKeeps, ObserveKeeps, CleanupKeeps, PublishKeeps,
     PublishErrorKeeps DEF Waiter
<1>5. CASE \E t \in Threads : kill_cgroup(t)
  BY <1>5, KillKeeps
<1>6. CASE \E p \in Stoppers : stop(p) \/ before_stop(p) \/ request_stop(p)
  BY <1>6, StopKeeps, BeforeStopKeeps, RequestStopKeeps
<1>7. CASE Guest \/ GuestHangsUp
  BY <1>7, WriteKeeps, ExitKeeps, HitKeeps, SignalKeeps, HangUpKeeps DEF Guest
<1> QED
  BY <1>1, <1>2, <1>3, <1>4, <1>5, <1>6, <1>7 DEF ManagedNext

\* The locks, the threads and what they have read, counted and stored agree in
\* every state of a managed session.
THEOREM ManagedInvariant == ManagedSpec => []ManagedInv
<1>1. ManagedInv /\ [ManagedNext]_managedVars => ManagedInv'
  BY NextHolds, StutterHolds
<1> QED
  BY InitHolds, <1>1, PTL DEF ManagedSpec

-----------------------------------------------------------------------------
(* What follows from it.                                                   *)

LEMMA ReceiptTruthful == ManagedInv => ReceiptIsTruthful
<1> SUFFICES ASSUME ManagedInv, sess.receipt # NoReceipt
             PROVE  LET r == sess.receipt
                    IN  /\ mon.forced # Nothing => r.cause = mon.forced
                        /\ r.cause = "exited" => guest.st = "exited" /\ cg.hit = {} /\ ~quotaHit
                        /\ r.bytes > OutputLimit => r.cause \notin {"exited", "signaled"}
                        /\ r.complete => r.bytes = pty.produced
  BY DEF ReceiptIsTruthful
<1>1. /\ guest.st \in Dead /\ sess.receipt.cause = terminal_cause
      /\ sess.receipt.bytes = mon.bytes /\ sess.receipt.complete = transcript_complete
  BY DEF ManagedInv, ReceiptInv
<1>2. mon.forced # Nothing => terminal_cause = mon.forced /\ mon.forced \notin {"exited", "signaled"}
  BY DEF ManagedInv, Shapes, Monitors, Forced, PollCauses, terminal_cause
<1>3. terminal_cause = "exited" => guest.st = "exited" /\ cg.hit = {} /\ ~quotaHit
  <2> SUFFICES ASSUME terminal_cause = "exited"
               PROVE  guest.st = "exited" /\ cg.hit = {} /\ ~quotaHit
    OBVIOUS
  <2>1. mon.forced = Nothing
    BY <1>2
  <2>2. triggered_limit = Nothing
    BY <2>1 DEF terminal_cause, triggered_limit, Nothing
  <2>3. cg.hit = {}
    BY <2>2, ManagedAssumption DEF triggered_limit, Nothing, ManagedInv, Shapes, Cgroups
  <2>4. ~quotaHit /\ guest.st = "exited"
    BY <2>1, <2>2 DEF terminal_cause, ManagedInv, Shapes
  <2> QED
    BY <2>3, <2>4
<1>4. mon.bytes > OutputLimit => mon.forced # Nothing
  BY DEF ManagedInv, MonitorInv
<1>5. transcript_complete => mon.bytes = pty.produced
  BY DEF ManagedInv, DrainInv, transcript_complete
<1> QED
  BY <1>1, <1>2, <1>3, <1>4, <1>5

LEMMA LargerOf ==
    ASSUME NEW a \in Nat, NEW b \in Nat
    PROVE  Max({a, b}) = IF a < b THEN b ELSE a
<1>1. \A x : (x \in {a, b} /\ \A y \in {a, b} : x >= y) => x = IF a < b THEN b ELSE a
  OBVIOUS
<1>2. \E x \in {a, b} : \A y \in {a, b} : x >= y
  OBVIOUS
<1> QED
  BY <1>1, <1>2 DEF Max

LEMMA SmallerOf ==
    ASSUME NEW a \in Nat, NEW b \in Nat
    PROVE  Min({a, b}) = IF a < b THEN a ELSE b
<1>1. \A x : (x \in {a, b} /\ \A y \in {a, b} : x <= y) => x = IF a < b THEN a ELSE b
  OBVIOUS
<1>2. \E x \in {a, b} : \A y \in {a, b} : x <= y
  OBVIOUS
<1> QED
  BY <1>1, <1>2 DEF Min

LEMMA TranscriptFaithful == ManagedInv => TranscriptIsFaithful
<1> SUFFICES ASSUME ManagedInv, NEW cursor \in 0 .. ch.ring.next, NEW max \in 1 .. ReadChunk,
                    read_locked(cursor, max).ok
             PROVE  LET r == read_locked(cursor, max)
                        from == r.next - Len(r.bytes)
                    IN  /\ r.truncated = (from # cursor)
                        /\ \A i \in 1 .. Len(r.bytes) : r.bytes[i] = from + i
                        /\ r.next <= OutputLimit
                        /\ r.eof => r.next = pty.produced
  BY DEF TranscriptIsFaithful
<1> DEFINE g == ch.ring
           from == Max({cursor, g.oldest})
           count == Min({g.next - from, max})
           bytes == [i \in 1 .. count |-> g.buf[(g.head + from - g.oldest + i - 1) % RingBytes]]
           r == read_locked(cursor, max)
<1>1. /\ r.ok = (cursor <= g.next /\ ch.err = Nothing) /\ r.next = from + count
      /\ r.truncated = (cursor < g.oldest) /\ r.eof = (ch.eof /\ from + count = g.next)
      /\ r.bytes = bytes
  BY DEF read_locked
<1>2. /\ g.head \in 0 .. RingBytes - 1 /\ g.size \in 0 .. RingBytes /\ g.oldest \in Nat
      /\ g.next \in Nat /\ g.next = g.oldest + g.size /\ RingBytes \in Nat
      /\ \A k \in 0 .. g.size - 1 : g.buf[(g.head + k) % RingBytes] = g.oldest + k + 1
  BY ManagedAssumption DEF ManagedInv, RingInv, Rings
<1>3. /\ ch.err = Nothing /\ g.next = ch.hashed /\ ch.hashed <= OutputLimit
      /\ ch.eof => pty.produced = ch.hashed
  BY <1>1 DEF ManagedInv, DrainInv
<1>4. cursor \in Nat /\ cursor <= g.next /\ max \in Nat \ {0}
  BY <1>2, ManagedAssumption
<1> HIDE DEF g, r
<1>5. from = IF cursor < g.oldest THEN g.oldest ELSE cursor
  BY <1>2, <1>4, LargerOf
<1> HIDE DEF from
<1>6. from \in Nat /\ from <= g.next /\ g.next - from \in Nat /\ from >= g.oldest
  BY <1>2, <1>4, <1>5
<1>7. count = IF g.next - from < max THEN g.next - from ELSE max
  BY <1>4, <1>6, SmallerOf
<1> HIDE DEF count
<1>8. count \in Nat /\ from + count <= g.next
  BY <1>2, <1>4, <1>6, <1>7
<1>9. Len(bytes) = count
  <2>1. DOMAIN bytes = 1 .. count
    OBVIOUS
  <2>2. bytes \in [1 .. count -> Range(bytes)]
    BY <2>1 DEF Range
  <2> HIDE DEF bytes
  <2>3. bytes \in Seq(Range(bytes))
    BY <1>8, <2>2
  <2> QED
    BY <1>8, <2>1, <2>3
<1>10. \A i \in 1 .. count : bytes[i] = from + i
  <2> SUFFICES ASSUME NEW i \in 1 .. count
               PROVE  bytes[i] = from + i
    OBVIOUS
  <2> DEFINE k == from - g.oldest + i - 1
  <2>1. k \in 0 .. g.size - 1
    BY <1>2, <1>6, <1>8
  <2>2. g.head + k = g.head + from - g.oldest + i - 1
    BY <1>2, <1>6
  <2>3. bytes[i] = g.buf[(g.head + from - g.oldest + i - 1) % RingBytes]
    OBVIOUS
  <2>4. bytes[i] = g.buf[(g.head + k) % RingBytes]
    BY <2>2, <2>3
  <2>5. g.oldest + k + 1 = from + i
    BY <1>2, <1>6
  <2> HIDE DEF k
  <2> QED
    BY <1>2, <2>1, <2>4, <2>5
<1>11. r.next - Len(r.bytes) = from
  BY <1>1, <1>6, <1>8, <1>9
<1>12. r.truncated = (from # cursor)
  BY <1>1, <1>2, <1>4, <1>5
<1>13. r.next <= OutputLimit
  BY <1>1, <1>2, <1>3, <1>6, <1>8, ManagedAssumption
<1>14. r.eof => r.next = pty.produced
  BY <1>1, <1>3
<1> HIDE DEF bytes
<1> QED
  BY <1>1, <1>9, <1>10, <1>11, <1>12, <1>13, <1>14 DEF r

LEMMA TypesHold == ManagedInv => ManagedTypeOK
<1> SUFFICES ASSUME ManagedInv
             PROVE  ManagedTypeOK
  OBVIOUS
<1>1. stage \in Range(PrepareSteps) \cup Range(LaunchSteps) \cup {"gone"}
  <2>1. \A s \in Unborn : s \in Range(PrepareSteps)
    BY DEF Unborn, Early, Range, PrepareSteps
  <2>2. \A s \in Attached \cup {"attach"} : s \in Range(LaunchSteps)
    BY DEF Attached, Range, LaunchSteps
  <2> QED
    BY <2>1, <2>2 DEF ManagedInv, Shapes, Stages
<1>2. guest.st \in {Nothing, "held", "running", "exited", "signaled"}
  BY DEF ManagedInv, Shapes, Guests, Dead
<1>3. ch.ring.oldest <= ch.ring.next /\ ch.ring.size <= RingBytes
  BY ManagedAssumption DEF ManagedInv, RingInv, Rings
<1>4. Taken <= pty.produced
  BY DEF ManagedInv, DrainInv
<1>5. mon.lock \in Threads \cup {Nothing} /\ sess.lock \in Threads \cup {Nothing}
  BY DEF ManagedInv, Shapes, Monitors, Sessions, Holders
<1> QED
  BY <1>1, <1>2, <1>3, <1>4, <1>5 DEF ManagedTypeOK

\* The receipt and every answer to a read of the terminal are true (ReportsAreTrue):
\* whatever the order in which watchdog, poller, drainer, waiter and callers run.
THEOREM ReportsTrue == ManagedSpec => []ReportsAreTrue
<1>1. ManagedInv => ReportsAreTrue
  BY TypesHold, ReceiptTruthful, TranscriptFaithful DEF ReportsAreTrue
<1> QED
  BY ManagedInvariant, <1>1, PTL

\* A killed guest does not run, and an answered stop ends its guest unless the
\* kill failed (StopsAreEffective).
THEOREM StopsEffective == ManagedSpec => []StopsAreEffective
<1>1. ManagedInv => StopsAreEffective
  <2> SUFFICES ASSUME ManagedInv
               PROVE  StopsAreEffective
    OBVIOUS
  <2>1. KilledGuestIsDead
    BY DEF KilledGuestIsDead, ManagedInv, Shapes, StageInv, KillInv, Alive, Stages, Attached, Dead, Nothing
  <2>2. StopIsEffective
    BY DEF StopIsEffective, ManagedInv, Shapes, Monitors, Holders, MonitorInv, KillInv, At
  <2> QED
    BY <2>1, <2>2 DEF StopsAreEffective
<1> QED
  BY ManagedInvariant, <1>1, PTL

-----------------------------------------------------------------------------
(* The receipt journal.                                                    *)

USE JournalAssumption

---------------------------------------------------------------------------
(* Bytes reserved for a set of executions.                                 *)

LEMMA Successor ==
    ASSUME NEW n \in Int
    PROVE  /\ MaxRecord * (n + 1) = MaxRecord * n + MaxRecord
           /\ MaxRecord * (n - 1) = MaxRecord * n - MaxRecord
OBVIOUS

LEMMA BytesType ==
    ASSUME NEW S \in SUBSET Execs
    PROVE  IsFiniteSet(S) /\ Cardinality(S) \in Nat /\ Bytes(S) \in Nat
<1>1. IsFiniteSet(S)
  BY FS_Subset
<1>2. Cardinality(S) \in Nat
  BY <1>1, FS_CardinalityType
<1> QED
  BY <1>1, <1>2 DEF Bytes

LEMMA BytesEmpty == Bytes({}) = 0
BY FS_EmptySet DEF Bytes

LEMMA BytesAdd ==
    ASSUME NEW S \in SUBSET Execs, NEW e \in Execs, e \notin S
    PROVE  Bytes(S \cup {e}) = Bytes(S) + MaxRecord
<1>1. Cardinality(S \cup {e}) = Cardinality(S) + 1
  BY BytesType, FS_AddElement
<1> QED
  BY <1>1, BytesType, Successor DEF Bytes

LEMMA BytesRemove ==
    ASSUME NEW S \in SUBSET Execs, NEW e \in S
    PROVE  Bytes(S \ {e}) = Bytes(S) - MaxRecord
<1>1. Cardinality(S \ {e}) = Cardinality(S) - 1
  BY BytesType, FS_RemoveElement
<1> QED
  BY <1>1, BytesType, Successor DEF Bytes

LEMMA Monotone ==
    ASSUME NEW m \in Nat, NEW n \in Nat, m <= n
    PROVE  MaxRecord * m <= MaxRecord * n
OBVIOUS

LEMMA BytesSubset ==
    ASSUME NEW T \in SUBSET Execs, NEW S \in SUBSET T
    PROVE  Bytes(S) <= Bytes(T)
<1>1. Cardinality(S) <= Cardinality(T)
  BY BytesType, FS_Subset
<1>2. S \in SUBSET Execs
  OBVIOUS
<1> QED
  BY <1>1, <1>2, BytesType, Monotone DEF Bytes

---------------------------------------------------------------------------
(* Types.                                                                  *)

LEMMA EmptyFile == <<>> \in Seq(Record)
OBVIOUS

LEMMA EndType ==
    ASSUME NEW s \in Seq(Record)
    PROVE  EndOf(s) \in Nat
<1>1. CASE s = <<>>
  BY <1>1 DEF EndOf
<1>2. CASE s # <<>>
  <2>1. Len(s) \in 1..Len(s)
    BY <1>2
  <2>2. s[Len(s)] \in Record
    BY <2>1
  <2> QED
    BY <1>2, <2>2 DEF EndOf, Record
<1> QED
  BY <1>1, <1>2

LEMMA FramedType ==
    ASSUME TypeOK, NEW e \in Execs, NEW size \in 1..MaxRecord
    PROVE  Framed(e, size) \in Record
BY DEF TypeOK, Framed, Record, Kind

LEMMA ResidueType ==
    ASSUME TypeOK, NEW r \in Record, Residue(r)
    PROVE  disk' \in Seq(Record) /\ torn' \in BOOLEAN
<1>1. records \in Seq(Record) /\ disk \in Seq(Record) /\ torn \in BOOLEAN
  BY DEF TypeOK
<1>2. Append(records, r) \in Seq(Record)
  BY <1>1
<1> QED
  BY <1>1, <1>2 DEF Residue

LEMMA PageType ==
    ASSUME NEW s \in Seq(Record), NEW n \in Nat, NEW limit \in 1..MaxPage
    PROVE  page_after(s, n, limit) \in Seq(Record)
<1> DEFINE last == IF n + limit < Len(s) THEN n + limit ELSE Len(s)
<1>1. last \in Int /\ last <= Len(s)
  OBVIOUS
<1>2. \A i \in (n + 1)..last : s[i] \in Record
  BY <1>1
<1>3. SubSeq(s, n + 1, last) \in Seq(Record)
  <2> HIDE DEF last
  <2> QED
    BY <1>1, <1>2, SubSeqProperties
<1> QED
  BY <1>3 DEF page_after

\* A prefix of a file is a file.
LEMMA CutType ==
    ASSUME NEW s \in Seq(Record), NEW n \in 0..Len(s)
    PROVE  SubSeq(s, 1, n) \in Seq(Record)
<1>1. \A i \in 1..n : s[i] \in Record
  OBVIOUS
<1> QED
  BY <1>1, SubSeqProperties


---------------------------------------------------------------------------
(* Reserved room is kept.                                                  *)

LEMMA HoldingType ==
    /\ Holding \in SUBSET Execs /\ Pending \in SUBSET Holding
    /\ Holding' \in SUBSET Execs /\ Pending' \in SUBSET Holding'
BY DEF Holding, Pending

\* The facts about capacity that the steps use.
LEMMA CapacityFacts ==
    ASSUME CapacityInv
    PROVE  /\ Bytes(Holding) \in Nat /\ Bytes(Pending) \in Nat
           /\ Bytes(Pending) <= Bytes(Holding)
           /\ reserved_bytes = Bytes(Holding)
           /\ reserved_bytes \in Nat /\ durable_size \in Nat
           /\ MaxSize \in Nat /\ MaxRecord \in Nat \ {0}
           /\ Bytes(Pending) + durable_size <= MaxSize
BY HoldingType, BytesType, BytesSubset
   DEF CapacityInv, TypeOK, ReservedIsExact, RoomForPending, Bytes

\* A step that leaves the reservations and the size alone.
LEMMA Frame ==
    ASSUME CapacityInv, TypeOK',
           UNCHANGED <<open, phase, reserved_bytes, probe, durable_size>>
    PROVE  CapacityInv'
BY DEF CapacityInv, ReservedIsExact, ReservedRoomIsKept, ClosedIsEmpty,
       RoomForPending, ProbeIsSafe, Holding, Pending, Bytes

LEMMA InitCapacity == Init => CapacityInv
<1> SUFFICES ASSUME Init PROVE CapacityInv
  OBVIOUS
<1>1. Holding = {} /\ Pending = {}
  BY DEF Init, Holding, Pending
<1>2. TypeOK
  <2>1. idempotency_records \in [AckKeys -> Nat \cup {None}]
    BY DEF Init
  <2>2. phase \in [Execs -> Phases]
    BY DEF Init, Phases
  <2>3. crashes \in 0..MaxCrashes /\ sequence \in Nat /\ durable_size \in Nat
        /\ reserved_bytes \in Nat
    BY DEF Init
  <2>4. disk \in Seq(Record) /\ records \in Seq(Record) /\ sage \in Seq(Record)
    BY EmptyFile DEF Init
  <2>5. started \subseteq Execs /\ exited \subseteq Record
        /\ probe \in {None} \cup [exec : Execs, remaining : Int]
    BY DEF Init
  <2> QED
    BY <2>1, <2>2, <2>3, <2>4, <2>5 DEF Init, TypeOK
<1>3. ReservedIsExact /\ RoomForPending
  BY <1>1, BytesEmpty DEF Init, ReservedIsExact, RoomForPending, Bytes
<1> QED
  BY <1>2, <1>3
     DEF Init, CapacityInv, ReservedRoomIsKept, ClosedIsEmpty, ProbeIsSafe

LEMMA PageCapacity ==
    ASSUME CapacityInv, NEW limit \in 1..MaxPage, NEW delivered \in BOOLEAN,
           handle_page(limit, delivered)
    PROVE  CapacityInv'
<1> USE DEF handle_page
<1>1. TypeOK
  BY DEF CapacityInv
<1>2. EndOf(disk) \in Nat /\ Len(disk) \in Nat
  BY <1>1, EndType DEF TypeOK
<1>3. /\ records' \in Seq(Record) /\ disk' \in Seq(Record)
      /\ header' \in {"absent", "blank", "valid"} /\ torn' \in BOOLEAN
      /\ open' \in BOOLEAN /\ sequence' \in Nat /\ durable_size' \in Nat
      /\ bootstrap_reconciled' \in BOOLEAN
  <2>1. CASE open /\ UNCHANGED <<file, open, records, sequence, durable_size,
                                 bootstrap_reconciled>>
    BY <1>1, <2>1 DEF TypeOK, file
  <2>2. CASE initialize(sage)
    BY <1>1, <2>2, EmptyFile DEF TypeOK, initialize
  <2>3. CASE recover(sage)
    BY <1>1, <1>2, <2>3 DEF TypeOK, recover
  <2> QED
    BY <2>1, <2>2, <2>3
<1>4. sage' \in Seq(Record)
  <2>1. sage \in Seq(Record) /\ Len(sage) \in Nat
    BY <1>1 DEF TypeOK
  <2>2. page_after(records', Len(sage), limit) \in Seq(Record)
    BY <1>3, <2>1, PageType
  <2>3. sage \o page_after(records', Len(sage), limit) \in Seq(Record)
    BY <2>1, <2>2
  <2> QED
    BY <2>1, <2>3
<1>5. TypeOK'
  BY <1>1, <1>3, <1>4 DEF TypeOK
<1>6. CASE UNCHANGED <<open, durable_size>>
  BY <1>5, <1>6, Frame
<1>7. CASE ~open
  <2>1. Holding' = {} /\ Pending' = {}
    BY <1>7 DEF CapacityInv, ClosedIsEmpty, Holding, Pending
  <2>2. durable_size' <= MaxSize
    BY <1>7, <1>2 DEF CapacityInv, ClosedIsEmpty, initialize, recover
  <2>3. RoomForPending' /\ ReservedIsExact'
    BY <1>3, <1>7, <2>1, <2>2, BytesEmpty
       DEF CapacityInv, ClosedIsEmpty, RoomForPending, ReservedIsExact, Bytes
  <2>4. ~open' => durable_size' = 0
    BY <1>7 DEF CapacityInv, ClosedIsEmpty, initialize, recover
  <2> QED
    BY <1>5, <1>7, <2>3, <2>4
       DEF CapacityInv, ClosedIsEmpty, ReservedRoomIsKept, ProbeIsSafe
<1> QED
  BY <1>6, <1>7 DEF initialize, recover


LEMMA ProbeCapacity ==
    ASSUME CapacityInv, NEW e \in Execs, remaining_capacity(e)
    PROVE  CapacityInv'
<1> USE DEF remaining_capacity
<1>1. TypeOK /\ ClosedIsEmpty
  BY DEF CapacityInv
<1>2. MaxSize - durable_size \in Int
  BY CapacityFacts
<1>3. probe' \in [exec : Execs, remaining : Int]
  BY <1>2
<1>4. TypeOK'
  BY <1>1, <1>3 DEF TypeOK, file
<1>5. Holding' = Holding /\ Pending' = Pending
  BY DEF Holding, Pending
<1>6. ProbeIsSafe'
  <2>1. probe'.exec = e /\ probe'.remaining = MaxSize - durable_size
    OBVIOUS
  <2>2. Bytes(Pending') + durable_size'
          <= (MaxSize - probe'.remaining) + reserved_bytes'
    BY <1>5, <2>1, CapacityFacts
  <2> QED
    BY <2>1, <2>2 DEF ProbeIsSafe
<1> QED
  BY <1>4, <1>5, <1>6
     DEF CapacityInv, ReservedIsExact, ReservedRoomIsKept, ClosedIsEmpty,
         RoomForPending

\* The step the reservation rests on.
LEMMA ReserveCapacity ==
    ASSUME CapacityInv, reserve_terminal
    PROVE  CapacityInv'
<1> USE DEF reserve_terminal
<1>1. TypeOK
  BY DEF CapacityInv
<1> DEFINE e == probe.exec
<1>2. e \in Execs /\ probe.remaining \in Int
  BY <1>1 DEF TypeOK
<1>3. phase[e] = "idle" /\ e \notin Holding /\ e \notin Pending
  BY DEF CapacityInv, ProbeIsSafe, Holding, Pending
<1>4. open
  BY DEF CapacityInv, ClosedIsEmpty
<1>5. CASE /\ reserved_bytes <= probe.remaining
           /\ MaxRecord <= probe.remaining - reserved_bytes
  <2>1. /\ reserved_bytes' = reserved_bytes + MaxRecord
        /\ phase' = [phase EXCEPT ![e] = "held"]
    BY <1>5
  <2>2. Holding' = Holding \cup {e} /\ Pending' = Pending \cup {e}
    BY <1>1, <1>2, <2>1 DEF TypeOK, Holding, Pending
  <2>3. /\ Bytes(Holding') = Bytes(Holding) + MaxRecord
        /\ Bytes(Pending') = Bytes(Pending) + MaxRecord
    BY <1>2, <1>3, <2>2, HoldingType, BytesAdd
  <2>4. TypeOK'
    <3>1. phase' \in [Execs -> Phases]
      BY <1>1, <2>1 DEF TypeOK, Phases
    <3>2. reserved_bytes' \in Nat
      BY <2>1, CapacityFacts
    <3> QED
      BY <1>1, <3>1, <3>2 DEF TypeOK, file
  <2>5. ReservedIsExact'
    BY <2>1, <2>3, CapacityFacts DEF ReservedIsExact, Bytes
  <2>6. RoomForPending'
    <3>1. Bytes(Pending) + durable_size
            <= (MaxSize - probe.remaining) + reserved_bytes
      BY DEF CapacityInv, ProbeIsSafe
    <3> QED
      BY <1>2, <1>5, <2>3, <3>1, CapacityFacts DEF RoomForPending
  <2>7. ReservedRoomIsKept'
    BY <1>1, <1>2, <2>1 DEF CapacityInv, TypeOK, ReservedRoomIsKept
  <2> QED
    BY <1>4, <2>4, <2>5, <2>6, <2>7
       DEF CapacityInv, ClosedIsEmpty, ProbeIsSafe
<1>6. CASE UNCHANGED <<reserved_bytes, phase>>
  <2>1. TypeOK'
    BY <1>1, <1>6 DEF TypeOK, file
  <2> QED
    BY <1>4, <1>6, <2>1
       DEF CapacityInv, ReservedIsExact, ReservedRoomIsKept, ClosedIsEmpty,
           RoomForPending, ProbeIsSafe, Holding, Pending
<1> QED
  BY <1>5, <1>6

\* An execution that moves on without touching its reservation.
LEMMA PhaseCapacity ==
    ASSUME CapacityInv, TypeOK', NEW e \in Execs, NEW p \in Phases,
           phase' = [phase EXCEPT ![e] = p],
           \/ phase[e] = "held" /\ p = "launched"
           \/ phase[e] \in {"idle", "committed"} /\ p = "closed"
              /\ (phase[e] = "idle" => probe = None),
           open,
           UNCHANGED <<open, reserved_bytes, probe, durable_size>>
    PROVE  CapacityInv'
<1>1. TypeOK
  BY DEF CapacityInv
<1>2. Holding' = Holding /\ Pending' = Pending
  BY <1>1 DEF TypeOK, Holding, Pending
<1>3. ReservedRoomIsKept'
  BY <1>1 DEF CapacityInv, TypeOK, ReservedRoomIsKept
<1>4. ProbeIsSafe'
  <2> SUFFICES ASSUME probe # None
               PROVE  /\ phase'[probe.exec] = "idle"
                      /\ Bytes(Pending) + durable_size
                           <= (MaxSize - probe.remaining) + reserved_bytes
    BY <1>2 DEF ProbeIsSafe
  <2>1. /\ phase[probe.exec] = "idle"
        /\ Bytes(Pending) + durable_size
             <= (MaxSize - probe.remaining) + reserved_bytes
    BY DEF CapacityInv, ProbeIsSafe
  <2>2. probe.exec \in Execs /\ probe.exec # e
    BY <1>1, <2>1 DEF TypeOK
  <2> QED
    BY <1>1, <2>1, <2>2 DEF TypeOK
<1> QED
  BY <1>2, <1>3, <1>4
     DEF CapacityInv, ReservedIsExact, ClosedIsEmpty, RoomForPending


\* An execution that is under way belongs to a daemon that has a producer.
LEMMA UnderWayIsOpen ==
    ASSUME CapacityInv, NEW e \in Execs, phase[e] # "idle"
    PROVE  open
BY DEF CapacityInv, ClosedIsEmpty

LEMMA StartingCapacity ==
    ASSUME CapacityInv, NEW e \in Execs, mark_starting(e)
    PROVE  CapacityInv'
<1>1. TypeOK /\ open
  BY UnderWayIsOpen DEF CapacityInv, mark_starting
<1>2. phase' = [phase EXCEPT ![e] = "launched"] /\ phase[e] = "held"
  BY DEF mark_starting
<1>3. phase' \in [Execs -> Phases] /\ started' \subseteq Execs
  BY <1>1 DEF TypeOK, Phases, mark_starting
<1>4. TypeOK'
  BY <1>1, <1>3 DEF TypeOK, mark_starting, file
<1> QED
  BY <1>1, <1>2, <1>4, PhaseCapacity DEF mark_starting, Phases

LEMMA ExitedCapacity ==
    ASSUME CapacityInv, NEW e \in Execs, mark_exited(e)
    PROVE  CapacityInv'
<1>1. TypeOK /\ open
  BY DEF CapacityInv, mark_exited
<1>2. phase' = [phase EXCEPT ![e] = "closed"]
  BY DEF mark_exited
<1>3. phase[e] \in {"idle", "committed"} /\ (phase[e] = "idle" => probe = None)
  BY DEF mark_exited
<1>4. phase' \in [Execs -> Phases]
  BY <1>1, <1>2 DEF TypeOK, Phases
<1>5. exited' \subseteq Record
  <2>1. PICK i \in TerminalsOf(records, e) : exited' = exited \cup {records[i]}
    BY DEF mark_exited
  <2>2. records[i] \in Record
    BY <1>1, <2>1 DEF TypeOK, TerminalsOf
  <2> QED
    BY <1>1, <2>1, <2>2 DEF TypeOK
<1>6. TypeOK'
  BY <1>1, <1>4, <1>5 DEF TypeOK, mark_exited, file
<1> QED
  BY <1>1, <1>2, <1>3, <1>6, PhaseCapacity DEF mark_exited, Phases

\* An execution that stops pending has written at most one record, for which
\* there was room.
LEMMA AppendCapacity ==
    ASSUME CapacityInv, NEW e \in Execs, NEW size \in 1..MaxRecord,
           append(e, size)
    PROVE  CapacityInv'
<1>1. TypeOK /\ open /\ phase[e] = "launched"
  BY UnderWayIsOpen DEF CapacityInv, append
<1>2. e \in Pending /\ Pending \in SUBSET Execs
  BY <1>1, HoldingType DEF Pending
<1>3. Bytes(Pending \ {e}) = Bytes(Pending) - MaxRecord
  BY <1>2, BytesRemove
<1>4. size \in Nat /\ size <= MaxRecord
  BY CapacityFacts
<1>5. Bytes(Pending \ {e}) \in Nat
  BY <1>2, BytesType
<1>6. size <= MaxSize - durable_size
  BY <1>3, <1>4, <1>5, CapacityFacts
<1>7. PICK p \in {"appended", "failed"} : phase' = [phase EXCEPT ![e] = p]
  BY <1>6, <1>4, CapacityFacts DEF append
<1>8. durable_size' \in {durable_size, durable_size + size}
  BY DEF append
<1>9. UNCHANGED <<open, reserved_bytes, probe>>
  BY DEF append
<1>10. Holding' = Holding /\ Pending' = Pending \ {e}
  BY <1>1, <1>7 DEF TypeOK, Holding, Pending
<1>11. TypeOK'
  <2>1. Framed(e, size) \in Record
    BY <1>1, FramedType
  <2>2. Append(records, Framed(e, size)) \in Seq(Record)
    BY <1>1, <2>1 DEF TypeOK
  <2>3. disk' \in Seq(Record) /\ torn' \in BOOLEAN
    <3>1. CASE Residue(Framed(e, size))
      BY <1>1, <2>1, <3>1, ResidueType
    <3>2. CASE disk' = Append(records, Framed(e, size)) /\ UNCHANGED torn
      BY <1>1, <2>2, <3>2 DEF TypeOK
    <3>3. CASE UNCHANGED <<disk, torn>>
      BY <1>1, <3>3 DEF TypeOK
    <3> QED
      BY <3>1, <3>2, <3>3 DEF append
  <2>4. records' \in Seq(Record) /\ sequence' \in Nat
    <3>1. \/ UNCHANGED <<records, sequence>>
          \/ /\ records' = Append(records, Framed(e, size))
             /\ sequence' = sequence + 1
      BY DEF append
    <3>2. records \in Seq(Record) /\ sequence \in Nat
      BY <1>1 DEF TypeOK
    <3> QED
      BY <2>2, <3>1, <3>2
  <2>5. durable_size' \in Nat
    BY <1>4, <1>8, CapacityFacts
  <2>6. phase' \in [Execs -> Phases]
    BY <1>1, <1>7 DEF TypeOK, Phases
  <2>7. poisoned' \in BOOLEAN
    BY <1>1 DEF TypeOK, append
  <2> QED
    BY <1>1, <2>3, <2>4, <2>5, <2>6, <2>7 DEF TypeOK, append
<1>12. Bytes(Pending') + durable_size' <= Bytes(Pending) + durable_size
  BY <1>3, <1>4, <1>8, <1>10, CapacityFacts
<1>13. RoomForPending'
  BY <1>12, <1>10, <1>11, <1>5, CapacityFacts DEF RoomForPending, TypeOK
<1>14. ProbeIsSafe'
  <2> SUFFICES ASSUME probe # None
               PROVE  /\ phase'[probe.exec] = "idle"
                      /\ Bytes(Pending') + durable_size'
                           <= (MaxSize - probe.remaining) + reserved_bytes
    BY <1>9 DEF ProbeIsSafe
  <2>1. /\ phase[probe.exec] = "idle"
        /\ Bytes(Pending) + durable_size
             <= (MaxSize - probe.remaining) + reserved_bytes
    BY DEF CapacityInv, ProbeIsSafe
  <2>2. probe.exec \in Execs /\ probe.exec # e /\ probe.remaining \in Int
    BY <1>1, <2>1 DEF TypeOK
  <2>3. phase'[probe.exec] = "idle"
    BY <1>1, <1>7, <2>1, <2>2 DEF TypeOK
  <2> QED
    <3>1. Bytes(Pending') + durable_size' \in Int
      BY <1>5, <1>10, <1>11 DEF TypeOK
    <3>2. (MaxSize - probe.remaining) + reserved_bytes \in Int
      BY <2>2, CapacityFacts
    <3>3. Bytes(Pending) + durable_size \in Int
      BY CapacityFacts
    <3> QED
      BY <2>1, <2>3, <1>12, <3>1, <3>2, <3>3
<1>15. ReservedRoomIsKept'
  BY <1>1, <1>7 DEF CapacityInv, TypeOK, ReservedRoomIsKept
<1> QED
  BY <1>1, <1>9, <1>10, <1>11, <1>13, <1>14, <1>15
     DEF CapacityInv, ReservedIsExact, ClosedIsEmpty


\* A reservation that ends gives back what it took.
LEMMA ReleaseCapacity ==
    ASSUME CapacityInv, NEW e \in Execs, release_reservation(e)
    PROVE  CapacityInv'
<1> USE DEF release_reservation
<1>1. TypeOK /\ open
  BY UnderWayIsOpen DEF CapacityInv
<1>2. e \in Holding /\ Holding \in SUBSET Execs
  BY HoldingType DEF Holding
<1>3. PICK p \in {"committed", "idle", "closed"} :
         phase' = [phase EXCEPT ![e] = p]
  OBVIOUS
<1>4. Holding' = Holding \ {e} /\ Pending' = Pending \ {e}
  BY <1>1, <1>3 DEF TypeOK, Holding, Pending
<1>5. Bytes(Holding') = Bytes(Holding) - MaxRecord /\ Bytes(Holding') \in Nat
  BY <1>2, <1>4, BytesRemove, BytesType
<1>6. reserved_bytes' = Bytes(Holding')
  BY <1>5, CapacityFacts
<1>7. TypeOK'
  <2>1. phase' \in [Execs -> Phases]
    BY <1>1, <1>3 DEF TypeOK, Phases
  <2> QED
    BY <1>1, <1>5, <1>6, <2>1 DEF TypeOK, file
<1>8. Bytes(Pending') <= Bytes(Pending) /\ Bytes(Pending') \in Nat
  <2>1. Pending \in SUBSET Execs /\ Pending' \in SUBSET Pending
    BY <1>4, HoldingType
  <2> QED
    BY <2>1, BytesSubset, BytesType
<1>9. RoomForPending'
  BY <1>8, CapacityFacts DEF RoomForPending
<1>10. ReservedRoomIsKept'
  BY <1>1, <1>3 DEF CapacityInv, TypeOK, ReservedRoomIsKept
<1> QED
  BY <1>1, <1>6, <1>7, <1>9, <1>10
     DEF CapacityInv, ReservedIsExact, Bytes, ClosedIsEmpty, ProbeIsSafe

\* A daemon that dies takes its reservations with it.
LEMMA CrashCapacity ==
    ASSUME CapacityInv, Crash
    PROVE  CapacityInv'
<1>1. TypeOK
  BY DEF CapacityInv
<1>2. disk' \in Seq(Record) /\ torn' \in BOOLEAN
  <2>1. CASE UNCHANGED <<disk, torn>>
    BY <1>1, <2>1 DEF TypeOK
  <2>2. ASSUME NEW e \in Execs, NEW size \in 1..MaxRecord,
               Residue(Framed(e, size))
        PROVE  disk' \in Seq(Record) /\ torn' \in BOOLEAN
    BY <1>1, <2>2, FramedType, ResidueType
  <2> QED
    BY <2>1, <2>2 DEF Crash
<1>3. crashes' \in 0..MaxCrashes
  BY <1>1 DEF TypeOK, Crash
<1>4. /\ phase' \in [Execs -> Phases]
      /\ idempotency_records' \in [AckKeys -> Nat \cup {None}]
      /\ records' \in Seq(Record)
  BY EmptyFile DEF Crash, Forget, Phases
<1>5. TypeOK'
  BY <1>1, <1>2, <1>3, <1>4 DEF TypeOK, Crash, Forget
<1>6. Holding' = {} /\ Pending' = {}
  BY DEF Crash, Forget, Holding, Pending
<1>7. ReservedIsExact' /\ RoomForPending'
  BY <1>6, BytesEmpty
     DEF Crash, Forget, ReservedIsExact, RoomForPending, Bytes
<1> QED
  BY <1>5, <1>7
     DEF CapacityInv, Crash, Forget, ReservedRoomIsKept, ClosedIsEmpty,
         ProbeIsSafe

LEMMA OtherCapacity ==
    ASSUME CapacityInv,
           \/ create_new_interrupted
           \/ \E key \in AckKeys : handle_acknowledgement(key)
           \/ LoseFile
    PROVE  CapacityInv'
<1>1. TypeOK
  BY DEF CapacityInv
<1>2. CASE create_new_interrupted
  <2>1. TypeOK'
    BY <1>1, <1>2 DEF TypeOK, create_new_interrupted, memory
  <2> QED
    BY <1>2, <2>1, Frame DEF create_new_interrupted, memory
<1>3. ASSUME NEW key \in AckKeys, handle_acknowledgement(key)
      PROVE  CapacityInv'
  <2>1. idempotency_records' \in [AckKeys -> Nat \cup {None}]
    BY <1>1, <1>3 DEF TypeOK, handle_acknowledgement
  <2>2. TypeOK'
    BY <1>1, <1>3, <2>1 DEF TypeOK, handle_acknowledgement, file
  <2> QED
    BY <1>3, <2>2, Frame DEF handle_acknowledgement
<1>4. CASE LoseFile
  <2>1. disk' \in Seq(Record)
    <3>1. disk \in Seq(Record)
      BY <1>1 DEF TypeOK
    <3>2. \A n \in 0..Len(disk) : SubSeq(disk, 1, n) \in Seq(Record)
      BY <3>1, CutType
    <3>3. disk' = <<>> \/ \E n \in 0..Len(disk) : disk' = SubSeq(disk, 1, n)
      BY <1>4 DEF LoseFile
    <3> QED
      BY <3>2, <3>3, EmptyFile
  <2>2. TypeOK'
    BY <1>1, <1>4, <2>1 DEF TypeOK, LoseFile, memory
  <2> QED
    BY <1>4, <2>2, Frame DEF LoseFile, memory
<1> QED
  BY <1>2, <1>3, <1>4

LEMMA NextCapacity == CapacityInv /\ [Next]_vars => CapacityInv'
<1> SUFFICES ASSUME CapacityInv, [Next]_vars PROVE CapacityInv'
  OBVIOUS
<1>1. CASE UNCHANGED vars
  <2>1. TypeOK'
    BY <1>1 DEF CapacityInv, TypeOK, vars, file, memory
  <2> QED
    BY <1>1, <2>1, Frame DEF vars, memory
<1>2. CASE Next
  BY <1>2, PageCapacity, ProbeCapacity, ReserveCapacity, StartingCapacity,
     ExitedCapacity, AppendCapacity, ReleaseCapacity, CrashCapacity,
     OtherCapacity DEF Next, Commit
<1> QED
  BY <1>1, <1>2

\* CapacityInv is an invariant: reservations are counted exactly and cover
\* every record still to be written, however reserve_terminal, append,
\* release_reservation and crashes interleave.
THEOREM CapacityInvariant == Spec => []CapacityInv
BY InitCapacity, NextCapacity, PTL DEF Spec

\* Every variable keeps its type; the unsigned reserved_bytes never wraps.
THEOREM JournalTypeCorrect == Spec => []TypeOK
<1>1. CapacityInv => TypeOK
  BY DEF CapacityInv
<1> QED
  BY <1>1, CapacityInvariant, PTL

\* A receipt whose room was reserved before its child started finds that room:
\* append never answers that the journal is exhausted (receipt_producer.hpp:
\* "journal capacity exhaustion is a pre-launch failure").
THEOREM ReservationsAreHonoured == Spec => []ReservedRoomIsKept
<1>1. CapacityInv => ReservedRoomIsKept
  BY DEF CapacityInv
<1> QED
  BY <1>1, CapacityInvariant, PTL

\* reserved_bytes is at all times what the reservations alive add up to, so
\* that release_reservation never finds less than it gives back.
THEOREM ReservationsAreCounted == Spec => []ReservedIsExact
<1>1. CapacityInv => ReservedIsExact
  BY DEF CapacityInv
<1> QED
  BY <1>1, CapacityInvariant, PTL

---------------------------------------------------------------------------
(* The journal is sound.                                                   *)

\* t continues s.
Continues(t, s) == Len(s) <= Len(t) /\ \A i \in 1..Len(s) : t[i] = s[i]

\* A daemon without a producer knows of no record.
ClosedKnowsNothing ==
    ~open => /\ records = <<>> /\ sequence = 0
             /\ ~poisoned /\ ~bootstrap_reconciled

\* What memory holds is in the file; all of it, until a write went wrong.
MemoryIsInFile ==
    /\ open => /\ header = "valid" /\ sequence = Len(records)
               /\ durable_size = EndOf(records)
    /\ Continues(disk, records)
    /\ open /\ ~poisoned => disk = records /\ ~torn

\* The file is a chain of receipts of executions that were started, each of
\* which has one and ends within the bound.
FileIsChained ==
    /\ header # "valid" => disk = <<>>
    /\ \A i \in 1..Len(disk) :
          /\ disk[i].seq = i /\ disk[i].end <= MaxSize
          /\ disk[i].exec \in started
    /\ \A i, j \in 1..Len(disk) : disk[i].exec = disk[j].exec => i = j

\* An execution whose receipt is still to come has none in the file.
LaunchedHasNone ==
    \A e \in Execs : phase[e] = "launched" =>
       /\ e \in started
       /\ \A i \in 1..Len(disk) : disk[i].exec # e

\* Sage has verified a prefix of what an open journal holds.
SageIsBehind == open => Continues(records, sage)

\* The inductive invariant behind JournalIsSound.
SoundInv ==
    /\ CapacityInv
    /\ ClosedKnowsNothing /\ MemoryIsInFile /\ FileIsChained
    /\ LaunchedHasNone /\ SageIsBehind /\ UnverifiedAreOwn

\* The receipts of closed sessions are in the file, at their places.
ExitedInv == (header # "valid" => exited = {}) /\ ExitedReceiptsStay

LEMMA PrefixContinues ==
    ASSUME NEW s \in Seq(Record), NEW t \in Seq(Record)
    PROVE  IsPrefix(s, t) <=> Continues(t, s)
<1>1. ASSUME Len(s) <= Len(t)
      PROVE  (SubSeq(s, 1, Len(s)) = SubSeq(t, 1, Len(s)))
               <=> \A i \in 1..Len(s) : t[i] = s[i]
  <2>1. /\ Len(SubSeq(s, 1, Len(s))) = Len(s)
        /\ \A i \in 1..Len(s) : SubSeq(s, 1, Len(s))[i] = s[i]
    OBVIOUS
  <2>2. /\ Len(SubSeq(t, 1, Len(s))) = Len(s)
        /\ \A i \in 1..Len(s) : SubSeq(t, 1, Len(s))[i] = t[i]
    BY <1>1
  <2>3. SubSeq(s, 1, Len(s)) \in Seq(Record) /\ SubSeq(t, 1, Len(s)) \in Seq(Record)
    BY <1>1, CutType
  <2> QED
    BY <2>1, <2>2, <2>3, SeqEqual
<1> QED
  BY <1>1 DEF IsPrefix, Continues

\* Continuing an equally long sequence is being it.
LEMMA ContinuesSame ==
    ASSUME NEW s \in Seq(Record), NEW t \in Seq(Record), Continues(t, s),
           Len(t) <= Len(s)
    PROVE  s = t
<1>1. Len(s) = Len(t)
  BY DEF Continues
<1> QED
  BY <1>1, SeqEqual DEF Continues

LEMMA AppendContinues ==
    ASSUME NEW s \in Seq(Record), NEW t \in Seq(Record), NEW r \in Record,
           Continues(t, s)
    PROVE  Continues(Append(t, r), s)
BY DEF Continues

LEMMA CutContinues ==
    ASSUME NEW s \in Seq(Record), NEW n \in 0..Len(s)
    PROVE  /\ Len(SubSeq(s, 1, n)) = n
           /\ \A i \in 1..n : SubSeq(s, 1, n)[i] = s[i]
OBVIOUS

\* A page that continues what Sage has leaves it behind the journal.
LEMMA PageContinues ==
    ASSUME NEW s \in Seq(Record), NEW t \in Seq(Record), Continues(t, s),
           NEW limit \in 1..MaxPage
    PROVE  Continues(t, s \o page_after(t, Len(s), limit))
           /\ Len(s) <= Len(s \o page_after(t, Len(s), limit))
<1> DEFINE n == Len(s)
           last == IF n + limit < Len(t) THEN n + limit ELSE Len(t)
           p == SubSeq(t, n + 1, last)
<1>1. n \in Nat /\ last \in Nat /\ n <= last /\ last <= Len(t)
  BY DEF Continues
<1>2. \A i \in (n + 1)..last : t[i] \in Record
  BY <1>1
<1>3. /\ p \in Seq(Record) /\ Len(p) = last - n
      /\ \A i \in 1..(last - n) : p[i] = t[n + i]
  <2> HIDE DEF n, last
  <2>1. p \in Seq(Record)
    BY <1>1, <1>2, SubSeqProperties
  <2>2. Len(p) = last - n /\ \A i \in 1..(last - n) : p[i] = t[n + i]
    BY <1>1
  <2> QED
    BY <2>1, <2>2
<1>4. Continues(t, s \o p) /\ Len(s) <= Len(s \o p)
  <2> HIDE DEF p, last
  <2>1. Len(s \o p) = last
    BY <1>1, <1>3
  <2>2. ASSUME NEW i \in 1..last PROVE t[i] = (s \o p)[i]
    <3>1. CASE i <= n
      BY <3>1, <1>1, <1>3 DEF Continues
    <3>2. CASE i > n
      <4>1. i - n \in 1..(last - n)
        BY <3>2, <1>1
      <4>2. (s \o p)[i] = p[i - n]
        BY <3>2, <1>1, <1>3
      <4>3. p[i - n] = t[n + (i - n)]
        BY <4>1, <1>3
      <4> QED
        BY <4>2, <4>3, <1>1
    <3>3. i <= n \/ i > n
      <4> HIDE DEF n
      <4> QED
        BY <1>1
    <3> QED
      BY <3>1, <3>2, <3>3
  <2> QED
    BY <2>1, <2>2, <1>1 DEF Continues
<1> QED
  BY <1>4 DEF page_after

\* The file ends within its bound because each of its records does.
LEMMA EndIsBounded ==
    ASSUME TypeOK, FileIsChained
    PROVE  EndOf(disk) <= MaxSize
<1>1. CASE disk = <<>>
  BY <1>1 DEF EndOf
<1>2. CASE disk # <<>>
  <2>1. disk \in Seq(Record)
    BY DEF TypeOK
  <2>2. Len(disk) \in 1..Len(disk)
    BY <1>2, <2>1
  <2> QED
    BY <1>2, <2>2 DEF EndOf, FileIsChained
<1> QED
  BY <1>1, <1>2

LEMMA InitSound == Init => SoundInv
<1> SUFFICES ASSUME Init PROVE SoundInv
  OBVIOUS
<1>1. CapacityInv
  BY InitCapacity
<1>2. Len(disk) = 0 /\ Len(records) = 0 /\ 1..0 = {}
  BY DEF Init
<1>3. ClosedKnowsNothing /\ MemoryIsInFile /\ FileIsChained /\ LaunchedHasNone
      /\ SageIsBehind /\ UnverifiedAreOwn
  BY <1>2 DEF Init, ClosedKnowsNothing, MemoryIsInFile, FileIsChained,
     LaunchedHasNone, SageIsBehind, UnverifiedAreOwn, Continues
<1> QED
  BY <1>1, <1>3 DEF SoundInv

\* A step that leaves the journal, its file and Sage alone, and in which no
\* execution is launched or forgets its receipt.
LEMMA SoundFrame ==
    ASSUME SoundInv, CapacityInv',
           UNCHANGED <<file, open, records, sequence, durable_size, poisoned,
                       sage>>,
           bootstrap_reconciled' => bootstrap_reconciled,
           bootstrap_reconciled' => open',
           started \subseteq started',
           \A e \in Execs : phase'[e] = "launched" =>
              \/ phase[e] = "launched"
              \/ e \in started' \ started,
           \A e \in Execs : phase[e] \in {"appended", "committed", "closed"}
              => phase'[e] \in {"appended", "committed", "closed"}
    PROVE  SoundInv'
<1>1. TypeOK
  BY DEF SoundInv, CapacityInv
<1>2. disk \in Seq(Record) /\ records \in Seq(Record) /\ sage \in Seq(Record)
  BY <1>1 DEF TypeOK
<1>3. ClosedKnowsNothing' /\ MemoryIsInFile' /\ SageIsBehind'
  BY DEF SoundInv, ClosedKnowsNothing, MemoryIsInFile, SageIsBehind, file
<1>4. FileIsChained' /\ LaunchedHasNone'
  BY DEF SoundInv, FileIsChained, LaunchedHasNone, file
<1>5. UnverifiedAreOwn'
  <2> SUFFICES ASSUME bootstrap_reconciled', NEW i \in (Len(sage) + 1)..Len(records)
               PROVE  phase'[records[i].exec] \in {"appended", "committed", "closed"}
    BY DEF UnverifiedAreOwn
  <2>1. phase[records[i].exec] \in {"appended", "committed", "closed"}
    BY DEF SoundInv, UnverifiedAreOwn
  <2>2. i \in 1..Len(records)
    BY <1>2
  <2>3. records[i].exec \in Execs
    <3>1. records[i] \in Record
      BY <1>2, <2>2
    <3> QED
      BY <3>1 DEF Record
  <2> QED
    BY <2>1, <2>3
<1> QED
  BY <1>3, <1>4, <1>5 DEF SoundInv

LEMMA PageSound ==
    ASSUME SoundInv, CapacityInv', NEW limit \in 1..MaxPage,
           NEW delivered \in BOOLEAN, handle_page(limit, delivered)
    PROVE  SoundInv'
<1>1. TypeOK /\ TypeOK'
  BY DEF SoundInv, CapacityInv
<1>2. /\ disk \in Seq(Record) /\ records \in Seq(Record) /\ sage \in Seq(Record)
      /\ disk' \in Seq(Record) /\ records' \in Seq(Record) /\ sage' \in Seq(Record)
  BY <1>1 DEF TypeOK
<1>3. CASE ~open'
  <2>1. ~open
    BY <1>3 DEF handle_page, initialize, recover
  <2>2. /\ sage' = sage /\ records' = records /\ sequence' = sequence
        /\ UNCHANGED <<poisoned, bootstrap_reconciled, phase, started>>
    BY <1>3, <2>1 DEF handle_page, initialize, recover
  <2>3. disk' = disk /\ (header' # "valid" => header # "valid")
    BY <2>1, <1>3 DEF handle_page, initialize, recover, SoundInv, FileIsChained
  <2> QED
    BY <1>3, <2>1, <2>2, <2>3
       DEF SoundInv, ClosedKnowsNothing, MemoryIsInFile, FileIsChained,
           LaunchedHasNone, SageIsBehind, UnverifiedAreOwn
<1>4. CASE open'
  <2>1. /\ disk' = disk /\ header' = "valid" /\ UNCHANGED <<poisoned, phase, started>>
        /\ ~poisoned
    BY <1>4 DEF handle_page, initialize, recover, SoundInv, FileIsChained,
       MemoryIsInFile, file
  <2>2. disk' = records' /\ ~torn' /\ sequence' = Len(records')
        /\ durable_size' = EndOf(records')
    <3>1. CASE open
      BY <3>1 DEF handle_page, initialize, recover, SoundInv, MemoryIsInFile, file
    <3>2. CASE initialize(sage)
      <4>1. records' = <<>> /\ disk' = <<>> /\ ~torn' /\ sequence' = 0 /\ durable_size' = 0
        BY <3>2 DEF initialize, SoundInv, ClosedKnowsNothing, CapacityInv, ClosedIsEmpty
      <4> QED
        BY <4>1 DEF EndOf
    <3>3. CASE recover(sage)
      BY <3>3, <1>4 DEF recover
    <3> QED
      BY <3>1, <3>2, <3>3 DEF handle_page
  <2>3. Continues(records', sage)
    <3>1. CASE open
      BY <3>1 DEF handle_page, initialize, recover, SoundInv, SageIsBehind
    <3>2. CASE initialize(sage)
      <4>1. sage = <<>>
        BY <3>2, <1>4 DEF initialize
      <4>2. Len(sage) = 0 /\ Len(records') \in Nat
        BY <4>1, <1>2
      <4> QED
        BY <4>2 DEF Continues
    <3>3. CASE recover(sage)
      BY <3>3, <1>4, <1>2, PrefixContinues DEF recover
    <3> QED
      BY <3>1, <3>2, <3>3 DEF handle_page
  <2>4. Continues(records', sage') /\ Len(sage) <= Len(sage')
    <3>1. CASE sage' = sage
      BY <3>1, <2>3, <1>2
    <3>2. CASE sage' = sage \o page_after(records', Len(sage), limit)
      BY <3>2, <1>2, <2>3, PageContinues
    <3> QED
      BY <3>1, <3>2 DEF handle_page
  <2>5. UnverifiedAreOwn'
    <3> SUFFICES ASSUME bootstrap_reconciled', NEW i \in (Len(sage') + 1)..Len(records')
                 PROVE  phase[records'[i].exec] \in {"appended", "committed", "closed"}
      BY <2>1 DEF UnverifiedAreOwn
    <3>0. i \in (Len(sage) + 1)..Len(records')
      BY <2>4, <1>2
    <3>1. CASE open
      <4>1. records' = records /\ bootstrap_reconciled
        BY <3>1 DEF handle_page, initialize, recover
      <4> QED
        BY <4>1, <3>0 DEF SoundInv, UnverifiedAreOwn
    <3>2. CASE initialize(sage)
      BY <3>2, <3>0, <1>2 DEF initialize, SoundInv, ClosedKnowsNothing
    <3>3. CASE recover(sage)
      <4>1. sage = disk /\ records' = disk
        <5>1. ~bootstrap_reconciled
          BY <3>3 DEF recover, SoundInv, ClosedKnowsNothing
        <5> QED
          BY <3>3, <1>4, <5>1 DEF recover
      <4> QED
        BY <4>1, <3>0, <1>2
    <3> QED
      BY <3>1, <3>2, <3>3 DEF handle_page
  <2>6. MemoryIsInFile'
    BY <1>2, <1>4, <2>1, <2>2 DEF MemoryIsInFile, Continues
  <2> QED
    BY <1>4, <2>1, <2>4, <2>5, <2>6
       DEF SoundInv, ClosedKnowsNothing, FileIsChained, LaunchedHasNone, SageIsBehind
<1> QED
  BY <1>1, <1>3, <1>4 DEF TypeOK

LEMMA AcknowledgedSound ==
    ASSUME SoundInv, CapacityInv', NEW key \in AckKeys,
           handle_acknowledgement(key)
    PROVE  SoundInv'
<1> USE DEF handle_acknowledgement
<1>1. UnverifiedAreOwn'
  <2>1. Len(sage') = Len(records') /\ Len(sage') \in Nat
    BY DEF SoundInv, MemoryIsInFile, CapacityInv, TypeOK
  <2>2. (Len(sage') + 1)..Len(records') = {}
    BY <2>1
  <2> QED
    BY <2>2 DEF UnverifiedAreOwn
<1> QED
  BY <1>1 DEF SoundInv, ClosedKnowsNothing, MemoryIsInFile, FileIsChained,
     LaunchedHasNone, SageIsBehind, file

\* The file after a write: as before, or longer by the record of the one
\* execution that was launched.
LEMMA WrittenFile ==
    ASSUME SoundInv, NEW e \in Execs, NEW size \in 1..MaxRecord,
           phase[e] = "launched", open, ~poisoned, size <= MaxSize - durable_size,
           disk' \in Seq(Record),
           disk' = disk \/ disk' = Append(records, Framed(e, size)),
           UNCHANGED <<header, started>>
    PROVE  /\ FileIsChained' /\ Continues(disk', disk)
           /\ \A i \in 1..Len(disk') :
                 i \in 1..Len(disk) \/ disk'[i].exec = e
<1>1. TypeOK
  BY DEF SoundInv, CapacityInv
<1>2. CASE disk' = disk
  BY <1>1, <1>2 DEF SoundInv, FileIsChained, Continues, TypeOK
<1>3. CASE disk' = Append(records, Framed(e, size))
  <2> DEFINE r == Framed(e, size)
             n == Len(disk)
  <2>1. disk = records /\ header = "valid" /\ sequence = n /\ disk \in Seq(Record)
        /\ n \in Nat
    BY <1>1 DEF SoundInv, MemoryIsInFile, TypeOK
  <2>2. r \in Record
    BY <1>1, FramedType
  <2>3. r.seq = n + 1 /\ r.end <= MaxSize /\ r.exec = e
    <3>1. durable_size \in Nat
      BY <1>1 DEF TypeOK
    <3> QED
      BY <2>1, <3>1 DEF Framed
  <2>4. e \in started /\ \A i \in 1..n : disk[i].exec # e
    BY DEF SoundInv, LaunchedHasNone
  <2>5. /\ Len(disk') = n + 1 /\ disk'[n + 1] = r
        /\ \A i \in 1..n : disk'[i] = disk[i]
    <3>1. disk' = Append(disk, r)
      BY <1>3, <2>1
    <3> HIDE DEF r
    <3> QED
      BY <2>1, <2>2, <3>1
  <2>6. 1..(n + 1) = 1..n \cup {n + 1}
    BY <2>1
  <2>7. \A i \in 1..n : /\ disk[i].seq = i /\ disk[i].end <= MaxSize
                        /\ disk[i].exec \in started
    BY DEF SoundInv, FileIsChained
  <2>8. \A i, j \in 1..n : disk[i].exec = disk[j].exec => i = j
    BY DEF SoundInv, FileIsChained
  <2> HIDE DEF n, r
  <2>9. \A i \in 1..Len(disk') : /\ disk'[i].seq = i /\ disk'[i].end <= MaxSize
                                 /\ disk'[i].exec \in started
    BY <2>3, <2>4, <2>5, <2>6, <2>7
  <2>10. \A i, j \in 1..Len(disk') : disk'[i].exec = disk'[j].exec => i = j
    BY <2>3, <2>4, <2>5, <2>6, <2>8
  <2>11. Continues(disk', disk)
    BY <2>1, <2>5 DEF Continues, n
  <2>12. \A i \in 1..Len(disk') : i \in 1..Len(disk) \/ disk'[i].exec = e
    BY <2>3, <2>5, <2>6 DEF n
  <2> QED
    BY <2>1, <2>9, <2>10, <2>11, <2>12 DEF FileIsChained
<1> QED
  BY <1>2, <1>3

LEMMA AppendSound ==
    ASSUME SoundInv, CapacityInv', NEW e \in Execs, NEW size \in 1..MaxRecord,
           append(e, size)
    PROVE  SoundInv'
<1> DEFINE r == Framed(e, size)
<1>1. TypeOK /\ TypeOK' /\ open /\ open' /\ phase[e] = "launched"
  BY UnderWayIsOpen DEF SoundInv, CapacityInv, append
<1>2. /\ disk \in Seq(Record) /\ records \in Seq(Record) /\ sage \in Seq(Record)
      /\ disk' \in Seq(Record) /\ records' \in Seq(Record)
      /\ phase \in [Execs -> Phases] /\ r \in Record
  BY <1>1, FramedType DEF TypeOK
<1>3. PICK p \in {"appended", "failed", "exhausted"} :
         phase' = [phase EXCEPT ![e] = p]
  BY DEF append
<1>4. UNCHANGED <<header, open, bootstrap_reconciled, started, sage>>
  BY DEF append
<1>5. CASE UNCHANGED <<disk, torn, records, sequence, durable_size, poisoned>>
  <2>1. \A x \in Execs : phase'[x] = "launched" => phase[x] = "launched"
    BY <1>2, <1>3
  <2>2. \A x \in Execs : phase[x] \in {"appended", "committed", "closed"}
          => phase'[x] \in {"appended", "committed", "closed"}
    BY <1>1, <1>2, <1>3
  <2>3. bootstrap_reconciled' => bootstrap_reconciled /\ open'
    BY <1>1, <1>4
  <2>4. UNCHANGED <<file, open, records, sequence, durable_size, poisoned, sage>>
        /\ started \subseteq started'
    BY <1>4, <1>5 DEF file
  <2> QED
    BY <2>1, <2>2, <2>3, <2>4, SoundFrame
<1>6. CASE /\ ~poisoned /\ size <= MaxSize - durable_size
           /\ disk' = disk \/ disk' = Append(records, r)
           /\ \/ /\ records' = records /\ poisoned' = TRUE
                 /\ UNCHANGED <<sequence, durable_size>>
              \/ /\ records' = Append(records, r) /\ disk' = records'
                 /\ sequence' = sequence + 1 /\ durable_size' = durable_size + size
                 /\ phase'[e] = "appended" /\ UNCHANGED <<torn, poisoned>>
  <2>1. /\ FileIsChained' /\ Continues(disk', disk)
        /\ \A i \in 1..Len(disk') : i \in 1..Len(disk) \/ disk'[i].exec = e
    BY <1>1, <1>2, <1>4, <1>6, WrittenFile
  <2>2. disk = records /\ header = "valid" /\ ~torn /\ sequence = Len(records)
        /\ durable_size = EndOf(records)
    BY <1>1, <1>6 DEF SoundInv, MemoryIsInFile
  <2>3. MemoryIsInFile'
    <3>1. CASE records' = records /\ poisoned' = TRUE
               /\ UNCHANGED <<sequence, durable_size>>
      BY <1>4, <2>1, <2>2, <3>1 DEF MemoryIsInFile
    <3>2. CASE /\ records' = Append(records, r) /\ disk' = records'
               /\ sequence' = sequence + 1 /\ durable_size' = durable_size + size
               /\ UNCHANGED <<torn, poisoned>>
      <4>1. Len(records') = Len(records) + 1 /\ records'[Len(records) + 1] = r
        <5> HIDE DEF r
        <5> QED
          BY <3>2, <1>2
      <4>2. EndOf(records') = r.end
        BY <4>1, <1>2 DEF EndOf
      <4>3. durable_size' = EndOf(records')
        BY <4>2, <3>2 DEF Framed
      <4>4. Continues(disk', records')
        BY <3>2, <1>2 DEF Continues
      <4> QED
        BY <1>4, <2>2, <3>2, <4>1, <4>3, <4>4 DEF MemoryIsInFile
    <3> QED
      BY <3>1, <3>2, <1>6
  <2>4. LaunchedHasNone'
    <3> SUFFICES ASSUME NEW x \in Execs, phase'[x] = "launched"
                 PROVE  x \in started' /\ \A i \in 1..Len(disk') : disk'[i].exec # x
      BY DEF LaunchedHasNone
    <3>1. x # e /\ phase[x] = "launched"
      BY <1>2, <1>3
    <3>2. x \in started /\ \A i \in 1..Len(disk) : disk[i].exec # x
      BY <3>1 DEF SoundInv, LaunchedHasNone
    <3> QED
      BY <1>4, <2>1, <3>1, <3>2 DEF Continues
  <2>5. SageIsBehind'
    <3>1. Continues(records, sage)
      BY <1>1 DEF SoundInv, SageIsBehind
    <3>2. Continues(records', sage)
      BY <3>1, <1>2, <1>6, AppendContinues
    <3> QED
      BY <1>4, <3>2 DEF SageIsBehind
  <2>6. UnverifiedAreOwn'
    <3> SUFFICES ASSUME bootstrap_reconciled, NEW i \in (Len(sage) + 1)..Len(records')
                 PROVE  phase'[records'[i].exec] \in {"appended", "committed", "closed"}
      BY <1>4 DEF UnverifiedAreOwn
    <3>1. CASE i \in 1..Len(records) /\ records'[i] = records[i]
      <4>1. phase[records[i].exec] \in {"appended", "committed", "closed"}
        <5>1. i \in (Len(sage) + 1)..Len(records)
          BY <3>1, <1>2
        <5> QED
          BY <5>1 DEF SoundInv, UnverifiedAreOwn
      <4>2. records[i] \in Record
        BY <3>1, <1>2
      <4>3. records[i].exec \in Execs /\ records[i].exec # e
        BY <4>1, <4>2, <1>1 DEF Record
      <4> QED
        BY <3>1, <4>1, <4>3, <1>2, <1>3
    <3>2. CASE /\ records' = Append(records, r) /\ i = Len(records) + 1
               /\ phase'[e] = "appended"
      <4>1. records'[i] = r
        <5> HIDE DEF r
        <5> QED
          BY <3>2, <1>2
      <4> QED
        BY <4>1, <3>2, <1>2, <1>3 DEF Framed
    <3>3. i \in 1..Len(records) \/ (i = Len(records) + 1 /\ records' # records)
      <4> HIDE DEF r
      <4>1. Len(records) \in Nat /\ Len(sage) \in Nat
        BY <1>2
      <4>2. Len(records') \in {Len(records), Len(records) + 1}
        BY <1>2, <1>6
      <4> QED
        BY <4>1, <4>2
    <3> QED
      <4> HIDE DEF r
      <4>1. \A k \in 1..Len(records) : records'[k] = records[k]
        <5>1. CASE records' = records
          BY <5>1
        <5>2. CASE records' = Append(records, r)
          BY <1>2, <5>2
        <5> QED
          BY <1>6, <5>1, <5>2
      <4> QED
        BY <4>1, <3>1, <3>2, <3>3, <1>6
  <2> QED
    BY <1>1, <2>1, <2>3, <2>4, <2>5, <2>6 DEF SoundInv, ClosedKnowsNothing
<1>7. phase' = [phase EXCEPT ![e] = "appended"] => phase'[e] = "appended"
  BY <1>2
<1> QED
  BY <1>5, <1>6, <1>7 DEF append, Residue

LEMMA CrashSound ==
    ASSUME SoundInv, CapacityInv', Crash
    PROVE  SoundInv'
<1>1. TypeOK /\ TypeOK' /\ open
  BY DEF SoundInv, CapacityInv, Crash
<1>2. disk' \in Seq(Record)
  BY <1>1 DEF TypeOK
<1>3. UNCHANGED <<header, started, exited, sage>> /\ Forget
  BY DEF Crash
<1>4. FileIsChained'
  <2>1. CASE UNCHANGED disk
    BY <1>3, <2>1 DEF SoundInv, FileIsChained
  <2>2. ASSUME NEW e \in Execs, NEW size \in 1..MaxRecord,
               phase[e] = "launched" /\ ~poisoned,
               size <= MaxSize - durable_size, Residue(Framed(e, size))
        PROVE  FileIsChained'
    BY <1>1, <1>2, <1>3, <2>2, WrittenFile DEF Residue
  <2> QED
    BY <2>1, <2>2 DEF Crash
<1>5. records' = <<>> /\ ~open' /\ ~bootstrap_reconciled' /\ ~poisoned'
      /\ sequence' = 0 /\ \A e \in Execs : phase'[e] = "idle"
  BY <1>3 DEF Forget
<1>6. Continues(disk', records')
  BY <1>2, <1>5 DEF Continues
<1> QED
  BY <1>4, <1>5, <1>6
     DEF SoundInv, ClosedKnowsNothing, MemoryIsInFile, LaunchedHasNone,
         SageIsBehind, UnverifiedAreOwn

LEMMA LoseSound ==
    ASSUME SoundInv, CapacityInv', LoseFile
    PROVE  SoundInv'
<1>1. TypeOK /\ TypeOK'
  BY DEF SoundInv, CapacityInv
<1>2. disk \in Seq(Record) /\ disk' \in Seq(Record)
  BY <1>1 DEF TypeOK
<1>3. Continues(disk, disk') /\ (header' # "valid" => disk' = <<>>)
  <2>1. CASE disk' = <<>>
    BY <1>2, <2>1 DEF Continues, LoseFile
  <2>2. ASSUME NEW n \in 0..Len(disk), disk' = SubSeq(disk, 1, n), UNCHANGED header
        PROVE  Continues(disk, disk') /\ header' = "valid"
    <3>1. header' = "valid"
      BY <2>2 DEF LoseFile
    <3>2. Len(disk') = n /\ \A i \in 1..n : disk'[i] = disk[i]
      BY <1>2, <2>2, CutContinues
    <3> QED
      BY <1>2, <3>1, <3>2 DEF Continues
  <2> QED
    BY <2>1, <2>2 DEF LoseFile
<1>4. UNCHANGED <<memory, started, exited, sage, crashes>> /\ ~open
  BY DEF LoseFile
<1>5. 1..Len(disk') \subseteq 1..Len(disk)
      /\ \A i \in 1..Len(disk') : disk'[i] = disk[i]
  BY <1>2, <1>3 DEF Continues
<1>6. FileIsChained' /\ LaunchedHasNone'
  BY <1>3, <1>4, <1>5 DEF SoundInv, FileIsChained, LaunchedHasNone, memory
<1>7. records' = <<>>
  BY <1>4 DEF SoundInv, ClosedKnowsNothing, memory
<1>8. Continues(disk', records')
  BY <1>2, <1>7 DEF Continues
<1> QED
  BY <1>4, <1>6, <1>8
     DEF SoundInv, ClosedKnowsNothing, MemoryIsInFile, SageIsBehind,
         UnverifiedAreOwn, memory

\* Steps that only move an execution on, or leave a file without a header.
LEMMA OtherSound ==
    ASSUME SoundInv, CapacityInv',
           \/ create_new_interrupted
           \/ reserve_terminal
           \/ \E e \in Execs : \/ remaining_capacity(e) \/ mark_starting(e)
                               \/ release_reservation(e) \/ mark_exited(e)
           \/ UNCHANGED vars
    PROVE  SoundInv'
<1>1. TypeOK
  BY DEF SoundInv, CapacityInv
<1>2. phase \in [Execs -> Phases] /\ (bootstrap_reconciled => open)
  BY <1>1 DEF TypeOK, SoundInv, ClosedKnowsNothing
<1>3. CASE create_new_interrupted
  BY <1>3 DEF create_new_interrupted, memory, SoundInv, ClosedKnowsNothing,
     MemoryIsInFile, FileIsChained, LaunchedHasNone, SageIsBehind, UnverifiedAreOwn
<1>4. CASE UNCHANGED vars
  <2>1. UNCHANGED <<file, open, records, sequence, durable_size, poisoned,
                    sage, phase, started, bootstrap_reconciled>>
    BY <1>4 DEF vars, memory
  <2> QED
    BY <1>2, <2>1, SoundFrame
<1>5. ASSUME UNCHANGED <<file, open, records, sequence, durable_size, poisoned,
                         sage, bootstrap_reconciled>>,
             started \subseteq started',
             NEW e \in Execs, NEW q \in Phases,
             \/ phase' = phase
             \/ phase' = [phase EXCEPT ![e] = q],
             q = "launched" => e \in started' \ started,
             phase[e] \in {"appended", "committed", "closed"}
               => q \in {"appended", "committed", "closed"}
      PROVE  SoundInv'
  <2>1. \A x \in Execs : phase'[x] = "launched" =>
              phase[x] = "launched" \/ x \in started' \ started
    BY <1>2, <1>5
  <2>2. \A x \in Execs : phase[x] \in {"appended", "committed", "closed"}
              => phase'[x] \in {"appended", "committed", "closed"}
    BY <1>2, <1>5
  <2>3. (bootstrap_reconciled' => bootstrap_reconciled)
        /\ (bootstrap_reconciled' => open')
    BY <1>2, <1>5
  <2> QED
    BY <1>5, <2>1, <2>2, <2>3, SoundFrame
<1>6. CASE reserve_terminal
  <2>1. probe.exec \in Execs /\ phase[probe.exec] = "idle"
    BY <1>1, <1>6 DEF reserve_terminal, TypeOK, SoundInv, CapacityInv, ProbeIsSafe
  <2>2. phase' = phase \/ phase' = [phase EXCEPT ![probe.exec] = "held"]
    BY <1>6 DEF reserve_terminal
  <2>3. UNCHANGED <<file, open, records, sequence, durable_size, poisoned,
                    sage, bootstrap_reconciled>> /\ started \subseteq started'
    BY <1>6 DEF reserve_terminal
  <2> QED
    BY <1>5, <2>1, <2>2, <2>3 DEF Phases
<1>7. ASSUME NEW e \in Execs, remaining_capacity(e)
      PROVE  SoundInv'
  BY <1>2, <1>7, SoundFrame DEF remaining_capacity
<1>8. ASSUME NEW e \in Execs, mark_starting(e)
      PROVE  SoundInv'
  BY <1>5, <1>8 DEF mark_starting, Phases
<1>9. ASSUME NEW e \in Execs, release_reservation(e)
      PROVE  SoundInv'
  <2>1. PICK q \in {"committed", "idle", "closed"} :
           /\ phase' = [phase EXCEPT ![e] = q]
           /\ phase[e] = "appended" => q = "committed"
    BY <1>9 DEF release_reservation
  <2>2. phase[e] \notin {"committed", "closed"}
    BY <1>9 DEF release_reservation
  <2>3. q \in Phases /\ q # "launched"
        /\ (phase[e] \in {"appended", "committed", "closed"}
              => q \in {"appended", "committed", "closed"})
    BY <2>1, <2>2 DEF Phases
  <2>4. UNCHANGED <<file, open, records, sequence, durable_size, poisoned,
                    sage, bootstrap_reconciled>> /\ started \subseteq started'
    BY <1>9 DEF release_reservation
  <2> QED
    BY <1>5, <2>1, <2>3, <2>4
<1>10. ASSUME NEW e \in Execs, mark_exited(e)
       PROVE  SoundInv'
  <2>1. phase' = [phase EXCEPT ![e] = "closed"]
        /\ UNCHANGED <<file, open, records, sequence, durable_size, poisoned,
                       sage, bootstrap_reconciled>> /\ started \subseteq started'
    BY <1>10 DEF mark_exited
  <2> QED
    BY <1>5, <2>1 DEF Phases
<1> QED
  BY <1>3, <1>4, <1>6, <1>7, <1>8, <1>9, <1>10

LEMMA NextSound == SoundInv /\ [Next]_vars => SoundInv'
<1> SUFFICES ASSUME SoundInv, [Next]_vars PROVE SoundInv'
  OBVIOUS
<1>1. CapacityInv'
  BY NextCapacity DEF SoundInv
<1> QED
  BY <1>1, PageSound, AcknowledgedSound, AppendSound, CrashSound, LoseSound,
     OtherSound DEF Next, Commit

LEMMA SoundImplies == SoundInv => JournalIsSound /\ SageHistoryIsExtended
<1> SUFFICES ASSUME SoundInv PROVE JournalIsSound /\ SageHistoryIsExtended
  OBVIOUS
<1>1. TypeOK
  BY DEF SoundInv, CapacityInv
<1>2. HealthyJournalIsIntact
  BY DEF SoundInv, MemoryIsInFile, HealthyJournalIsIntact
<1>3. OneTerminalPerExecution
  <2> SUFFICES ASSUME NEW e \in Execs
               PROVE  Cardinality({i \in 1..Len(disk) : disk[i].exec = e}) <= 1
    BY DEF OneTerminalPerExecution
  <2> DEFINE T == {i \in 1..Len(disk) : disk[i].exec = e}
  <2>1. \A i, j \in T : i = j
    BY DEF SoundInv, FileIsChained
  <2>2. Cardinality(T) <= 1
    <3> HIDE DEF T
    <3>1. CASE T = {}
      BY <3>1, FS_EmptySet
    <3>2. CASE T # {}
      <4>1. PICK i \in T : T = {i}
        BY <2>1, <3>2
      <4>2. Cardinality({i}) = 1
        BY FS_Singleton
      <4> QED
        BY <4>1, <4>2
    <3> QED
      BY <3>1, <3>2
  <2> QED
    BY <2>2
<1>4. FileReopens
  BY <1>1, EndIsBounded DEF SoundInv, FileIsChained, FileReopens, Chained
<1>5. SageHistoryIsExtended
  BY <1>1, PrefixContinues DEF SoundInv, SageIsBehind, SageHistoryIsExtended, TypeOK
<1> QED
  BY <1>2, <1>3, <1>4, <1>5 DEF SoundInv, JournalIsSound

\* SoundInv is an invariant: whatever is written, fails, is rolled back or
\* is lost between two daemons, memory, file and Sage stay in order.
THEOREM SoundInvariant == Spec => []SoundInv
BY InitSound, NextSound, PTL DEF Spec

\* As long as no write went wrong memory and file agree, a file with a header
\* reopens, an execution has at most one terminal receipt, and a daemon that
\* may launch has shown Sage every receipt that is not its own.
THEOREM JournalSound == Spec => []JournalIsSound
BY SoundInvariant, SoundImplies, PTL

\* An open journal extends what Sage has verified, even if the file was
\* replaced by an older copy while no daemon ran.
THEOREM SageHistoryExtended == Spec => []SageHistoryIsExtended
BY SoundInvariant, SoundImplies, PTL

---------------------------------------------------------------------------
(* Receipts of closed sessions stay.                                       *)

\* A step that keeps the file's records keeps those of closed sessions.
LEMMA ExitedFrame ==
    ASSUME TypeOK, TypeOK', ExitedInv, exited' = exited,
           Continues(disk', disk), header' # "valid" => header # "valid"
    PROVE  ExitedInv'
<1>1. disk \in Seq(Record) /\ disk' \in Seq(Record)
  BY DEF TypeOK
<1> QED
  BY <1>1 DEF ExitedInv, ExitedReceiptsStay, Continues

\* While no daemon has it open, the file grows or stays as it is.
Untouched == open \/ open' \/ (IsPrefix(disk, disk') /\ header' # "absent")

LEMMA NextExited ==
    ASSUME SoundInv, ExitedInv, [Next]_vars, SoundInv', [Next /\ Untouched]_vars
    PROVE  ExitedInv'
<1>1. TypeOK /\ TypeOK'
  BY DEF SoundInv, CapacityInv
<1>2. /\ disk \in Seq(Record) /\ disk' \in Seq(Record) /\ records \in Seq(Record)
      /\ \A s \in Seq(Record) : Continues(s, s)
  BY <1>1 DEF TypeOK, Continues
<1>3. ASSUME UNCHANGED <<header, disk, exited>>
      PROVE  ExitedInv'
  BY <1>3 DEF ExitedInv, ExitedReceiptsStay
<1>4. CASE UNCHANGED vars
  BY <1>3, <1>4 DEF vars, file
<1>5. CASE create_new_interrupted
  BY <1>1, <1>2, <1>5, ExitedFrame DEF create_new_interrupted
<1>6. ASSUME NEW limit \in 1..MaxPage, NEW delivered \in BOOLEAN,
             handle_page(limit, delivered)
      PROVE  ExitedInv'
  <2>1. exited' = exited
    BY <1>6 DEF handle_page
  <2>2. disk' = disk /\ (header' # "valid" => header # "valid")
    BY <1>6 DEF handle_page, initialize, recover, file, SoundInv, FileIsChained
  <2> QED
    BY <1>1, <1>2, <2>1, <2>2, ExitedFrame
<1>7. ASSUME NEW e \in Execs, NEW size \in 1..MaxRecord, append(e, size)
      PROVE  ExitedInv'
  <2>1. phase[e] = "launched" /\ open
    BY <1>7, UnderWayIsOpen DEF append, SoundInv
  <2>2. UNCHANGED <<header, started, exited>>
    BY <1>7 DEF append
  <2>3. CASE disk' = disk
    BY <1>3, <2>2, <2>3
  <2>4. CASE disk' = Append(records, Framed(e, size)) /\ ~poisoned
             /\ size <= MaxSize - durable_size
    BY <1>1, <1>2, <2>1, <2>2, <2>4, WrittenFile, ExitedFrame
  <2> QED
    BY <1>7, <2>3, <2>4 DEF append, Residue
<1>8. CASE Crash
  <2>1. UNCHANGED <<header, started, exited>> /\ open
    BY <1>8 DEF Crash
  <2>2. CASE disk' = disk
    BY <1>3, <2>1, <2>2
  <2>3. ASSUME NEW e \in Execs, NEW size \in 1..MaxRecord,
               phase[e] = "launched" /\ ~poisoned,
               size <= MaxSize - durable_size, Residue(Framed(e, size))
        PROVE  ExitedInv'
    BY <1>1, <1>2, <2>1, <2>3, WrittenFile, ExitedFrame DEF Residue
  <2> QED
    BY <1>8, <2>2, <2>3 DEF Crash
<1>9. CASE LoseFile
  <2>1. ~open /\ ~open' /\ exited' = exited /\ header = "valid"
    BY <1>9 DEF LoseFile, memory
  <2>2. CASE UNCHANGED vars
    BY <1>3, <2>2 DEF vars, file
  <2>3. CASE Untouched
    <3>1. IsPrefix(disk, disk') /\ header' # "absent"
      BY <2>1, <2>3 DEF Untouched
    <3>2. Continues(disk', disk) /\ header' = "valid"
      BY <1>2, <1>9, <3>1, PrefixContinues DEF LoseFile
    <3> QED
      BY <1>1, <2>1, <3>2, ExitedFrame
  <2> QED
    BY <2>2, <2>3
<1>10. ASSUME NEW e \in Execs, mark_exited(e)
       PROVE  ExitedInv'
  <2>1. PICK i \in TerminalsOf(records, e) : exited' = exited \cup {records[i]}
    BY <1>10 DEF mark_exited
  <2>2. i \in 1..Len(records) /\ records = disk /\ header = "valid"
        /\ UNCHANGED <<header, disk>>
    BY <1>10, <2>1 DEF mark_exited, TerminalsOf, SoundInv, MemoryIsInFile, file
  <2>3. disk[i].seq = i
    BY <2>2 DEF SoundInv, FileIsChained
  <2> QED
    BY <2>1, <2>2, <2>3 DEF ExitedInv, ExitedReceiptsStay
<1>11. CASE \/ \E key \in AckKeys : handle_acknowledgement(key)
            \/ reserve_terminal
            \/ \E e \in Execs : \/ remaining_capacity(e) \/ mark_starting(e)
                                \/ release_reservation(e)
  BY <1>3, <1>11 DEF handle_acknowledgement, reserve_terminal,
     remaining_capacity, mark_starting, release_reservation, file
<1> QED
  BY <1>4, <1>5, <1>6, <1>7, <1>8, <1>9, <1>10, <1>11 DEF Next, Commit

\* The receipt that closed a session is in the file for good, at the sequence
\* number the registry keeps, through every failed write, restart and crash, in
\* every behaviour in which the file is not replaced while no daemon runs.
THEOREM ClosedReceiptsKept == MCSpec => []ClosedReceiptsStay
<1> DEFINE I == SoundInv /\ (~lossy => ExitedInv)
<1>1. MCInit => I
  BY InitSound DEF MCInit, Init, ExitedInv, ExitedReceiptsStay
<1>2. I /\ [MCNext]_<<vars, lossy>> => I'
  <2> SUFFICES ASSUME I, [MCNext]_<<vars, lossy>> PROVE I'
    OBVIOUS
  <2>1. [Next]_vars /\ lossy' = lossy
    BY DEF MCNext
  <2>2. SoundInv'
    BY <2>1, NextSound
  <2>3. ~lossy => [Next /\ Untouched]_vars
    BY DEF MCNext, Untouched
  <2> QED
    BY <2>1, <2>2, <2>3, NextExited
<1>3. I => ClosedReceiptsStay
  BY DEF ExitedInv, ClosedReceiptsStay
<1> QED
  BY <1>1, <1>2, <1>3, PTL DEF MCSpec
====
