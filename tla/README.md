# A TLA+ verification of glove

glove runs coding agents under containment. A public CLI (`glove run`,
`glove exec`) contains one local agent and mediates its MCP tool calls; the
daemon `gloved` accepts execution plans from the Sage controller, keeps every
session in a durable registry, launches it in a sandbox, and delivers an
authenticated receipt for what ran. This directory models the parts of that
system whose correctness depends on the order of steps, checks the models with
TLC on small instances, and proves the central theorems with TLAPS for every
value of the constants.

`PROJECT.json` is the index: components, runs, mutants, the map from every
definition to the lines it models, findings, hazards and theorems.

## The system and its parts (inventory)

Paths are relative to `src/src/`.

### gloved: sessions

| Part | State it keeps | Operations | What is hard | What makes it correct |
| --- | --- | --- | --- | --- |
| Session registry `control/session_registry*.cpp` | append-only record file with a hash chain, indexes over it, a poison flag, the queue of observation intents | `create`, `reserve_start`, the `mark_*` transitions, `enqueue_observation_intent`, `set_observation_intent_disposition`, `open_or_create` | two calls release the mutex half way; crash in a write; failed rollback; wall clock; catalog changed at a restart | every whole record it leaves is accepted by recovery; memory is what recovery would rebuild; a session only moves along its lifecycle; exited means a durable receipt |
| Receipt journal and producer `container/receipt_journal.cpp`, `receipt_producer.cpp` | authenticated chain of receipts in a bounded file, reservation counter, bootstrap gate | `initialize`, `recover`, `append`, `page_after`, `acknowledge`, `reserve_terminal`, `commit_terminal`, `confirm_terminal` | capacity read under one mutex and reserved under another; crash and failed rollback; a file that is removed or replaced between two daemons | a launched execution always finds room for its receipt; verified receipts stay; the file reopens; Sage's history is always extended |
| Linux session runtime `control/linux_session_executor.cpp`, `session_reconciliation.cpp`, `linux_session_recovery.cpp` | live-session index, per session a managed child, a finalizer thread and two mutexes | `start`, `stop`, `reconcile`, destruction; terminal I/O | opposite lock orders; death between clone, record, release and adoption; lost replies; pid reuse; order of destruction | no guest runs unrecorded or unowned; a committed receipt wins; stops are neither invented nor falsely reported; everything started is closed |
| Control protocol and Unix server `control/receipt_audit_*.cpp`, `receipt_*_handlers.cpp` | one connection at a time, idempotency records | page, acknowledge, start, stop, read, write, resize, signal, expose, replay mutation | replies lost after the effect; bounded idempotency | every method is safe to retry |
| Managed launch `container/linux/clone_spawner.cpp`, `managed_launch_binding.cpp`, `linux_egress_bridge.cpp` | descriptor tables, handshake pipes, the child's root | clone, set up, acknowledge, execute | parent and child each die or fail half way; a descriptor that collides with a reserved number; a program replaced after approval | the agent runs only fully confined, as the approved program, and not at all if a step failed |
| Session resources `container/linux/linux_resource_lifecycle.cpp`, `cgroup_v2.cpp`, `pty_session_channel.cpp`, `container/resource_monitor.cpp` | first terminal cause, cgroup, counters, a ring of terminal output | drain, poll, expire, stop, wait, finish | five threads race for the first cause and for the end; a full ring | the receipt states the first cause; a stop that was answered ends the guest; readers know what they missed |
| Output pump `container/output_pump.cpp` | queue of frames, a partial frame, a tail of stderr | poll, read, deliver, stop, finish | a child that stops writing anywhere, a receiver that is gone | frames are what was written, in order; everyone who waits is released |
| Preparation and plans `control/linux_session_preparation.cpp`, `supervisor/session_plan.cpp` | the loaded policy | validation, resource acquisition | partial failure; a policy replaced after admission | all or nothing; a plan is launched under the policy that admitted it |

### gloved: changes, paths, services, remote

| Part | State it keeps | Operations | What is hard | What makes it correct |
| --- | --- | --- | --- | --- |
| Change application `supervisor/change_apply_*.cpp`, `change_manifest.cpp` | a ledger of consumed authorizations, the live entry and a candidate beside it | authorize, reserve, copy, exchange, verify, finalize, clean up, recover, reconcile | a crash or loss of power at every step around an exchange of two names; edits in between; failed rollbacks | a change is applied at most once; the live name always has a whole tree; the ledger tells the truth; nothing is removed that somebody needs |
| Path exposure `supervisor/path_exposure*.cpp`, `path_alias.cpp` | generations of exposures with expiry and revocation in a journal | create, revoke, list, resolve, recover | the mutex is released in the middle of a resolution; a failing append; a narrower policy or another object after a restart | a grant resolves only to what is exposed now; a revocation is final |
| Session filesystem `supervisor/linux/*.cpp` | quota images with metadata, mounts, stages of retained changes | create, capture, clean up, adopt, sweep | the daemon or the host dies between image, metadata, mount, stage and removal | no operation loses a retained copy a guest wrote to; a closed session leaves nothing |
| Local service proxy, guest channel `control/local_service_proxy.cpp`, `guest_channel*.cpp` | pinned services, alias sockets, workers | prepare, accept, exchange, revoke, stop, tear down | a socket replaced by another process; a guest that writes ahead; stop against accept | only pinned peers; no answer before its audit record; teardown removes what was made and nothing that took its name outside the windows the calls leave |
| Observation-intent server `control/observation_intent_unix_server.cpp` | connections, sequence numbers | receive, enqueue, reply | duplicates and disconnects | one intent per identifier |
| Network gateways `net/` | listener, relay slots, byte limits, a secret | authorize, resolve, relay, forward one request | cut and overlapping messages; a name that resolves into the private network; shutdown with open tunnels | only entitled hosts; the secret goes only to its provider; a cut message never passes for a whole one |
| Remote validation `control/remote_*.cpp`, `remote_exec_main.cpp` | sessions, answers by idempotency key, watchdog records, containers | prepare, start, read, wait, stop, clean up, reconcile | the watchdog cleans without the mutex; docker fails; the process dies with containers running | answers are true and repeatable; nothing is left unowned; a container does not outlive its time |
| Apple container runtime `control/apple_container_*` | a worker | start, stop | — (disabled: `lifecycle_operational()` is the constant false) | — |

### The CLI

| Part | State it keeps | Operations | What is hard | What makes it correct |
| --- | --- | --- | --- | --- |
| Kernel, policy, runner `kernel/`, `mcp/`, `policy/`, `run/` | upstream clients, requests in flight, what a run made | one request: decide, audit, forward, audit, answer; set up and undo a run | a server that speaks unasked, late or never; an audit that fails; an agent that leaves | only allowed calls run, each answer is of its own call, and it was recorded first |
| Audit journal `audit/` | a capped file of lines | open, record, truncate | death or failure in a truncation; a write that is cut | the newest acknowledged events are there, whole |
| Host commands `host/` | policy file, snapshots, configuration, ledger of what was created | stage a harness, prepare and update the policy; setup, adopt, clean up | two commands and an upgrade at once; death half way; files edited by hand | one revision names one policy; undo removes what is its own |

### How the parts interact

Sage talks to `gloved` over one Unix socket, one connection at a time. A start
reserves the session in the **registry** (`reserve_start`), reserves room for its
terminal receipt in the **journal** (`reserve_terminal`), resolves its grants
against the **exposures**, creates its **filesystem** and the guest's
**gateways**, records `starting`, clones a child that waits on a pipe, records
`running` with the child's identity, and only then releases the child. The
session is **adopted** by the live index, whose finalizer thread waits for the
child, commits the receipt (`commit_terminal`) and records `exited` by
confirming that receipt (`confirm_terminal`). After a restart the daemon does
not launch anything until Sage has paged and acknowledged the journal (the
bootstrap gate) and every session left open has been **reconciled**: closed with
its receipt if there is one, else killed if it still runs and closed as failed;
the sweep of the materialization root stages what was retained.

Changes a session left in its stage may later be applied to the host entry they
came from. This code is a library that no server method reaches yet (its
capability is advertised as 0); a caller opens the ledger, presents a signed
authorization with its manifest, and after a restart runs the reconciliation
sweep before anything else.

An operator writes the configuration with `glove setup` and the session policy
with `glove policy`; the daemon loads both. A contained run of the CLI shares no
state with the daemon.

## Modules

| Module | Models | State → code |
| --- | --- | --- |
| `SessionRecords` | shapes of registry records, `valid_record_shape`, the replay checks and `recover` as operators | a record is what its JSON commits to |
| `SessionRegistry` | the registry with its file, indexes, intents, crash, failed writes, catalogs and clock | `disk`/`torn` = the file; `records`, `sessions`, `requests`, `observation_*` = the members of `session_registry::implementation`; `inflight` = calls between their two locks |
| `SessionLifecycle` | abstract specification: a session moves created → preparing → starting → running → stopping → exited or failed with one plan, one authorization and ordered times | — |
| `ReceiptJournal` | journal, producer, Sage's paging and acknowledging | `header`/`disk`/`torn` = the file; the rest are members of `receipt_journal` and `receipt_producer`; `phase` = where each execution stands; `sage` = what Sage has verified |
| `LinuxSessionRuntime` | the runtime with its threads and locks, the kernel's side of a child, shutdown and reconciliation | `state`, `stopping_key`, `receipts` = what registry and journal recorded; `proc` = the child; `call` = the server thread; `managed`, `finalizer`, the two mutexes = each session's objects |
| `ChangeApply` | the ledger (`change_apply_journal`), the exchange, recovery and the sweep, with the file system they work on | `header`/`disk`/`tail`/`synced` = the journal file; `source`, `candidate`, `content` = the parent directory and what its entries hold; `grants` = the map in memory; `pc`, `observed` = each call |
| `PathExposure` | exposures, their journal and policy, grants in two halves, the handlers | `disk` and its neighbours = the journal; `exposures` = the registry's map; `roots` = the loaded policy, `policy` the installed one |
| `SessionFilesystem` | creation, staging, cleanup, adoption and sweep of a session's materializations | `root` = the names in the materialization root, `durable` = as of its last fsync; `mnt`, `data` = the mounts; `obj` = objects in memory |
| `SandboxLaunch` | parent and child from the launch binding to `exec`, four kinds of launch | `fds` = the child's descriptor table; `mountTable` = its root; `armed`, `mapped`, `grouped`, `acked` = what each side has done for the other |
| `OutputPump` | the worker, its receiver and its owner | named after the members of `output_pump` |
| `ManagedSession` | acquisition of a session's resources, its watchdog, poller, drainer, waiter and callers of stop, to the receipt | `pc` = each thread; `mon`, `cg`, `pty`, `sess` = monitor, cgroup, channel and session object |
| `RemoteValidation` | the remote executor's two threads, its containers and staging, its client | `sessions`, `tombs`, `replays`, `watched` = its maps; `box`, `stages` = docker and the disk, which outlive it; `op` = the request that holds `mutex_` |
| `LocalServiceProxy` | one session's proxy, factory to destructor, with guest channel and audit phases | `socks`, `dir` = what has the names; `home`, `listeners`, `bound` = the identities it recorded; `undo` = a removal between look and unlink; connections with their workers' positions |
| `NetworkGateway` | CONNECT proxy, bridge and credentialed endpoint | `client` = each connection with its thread |
| `RuntimePolicy` | commands that stage a harness and rewrite the policy; the daemon that admits and launches plans | `policy`, `snaps`, `entry`, `lock` = files; `cmd` = each command; `daemon`, `plan`, `launched` = what the daemon loaded, admitted and ran |
| `HostSetup` | setup, adopt, cleanup | `file`, `dirs`, `sock` = the host's files, the ledger among them; `loose` = directories made and not yet restricted to 0700; `act` = the running command |
| `ToolKernel` | one contained run: set-up, request loop, upstream clients, audit, undo | `opts` = the command line; `held` = what the run made; `up` = each upstream with its client; `task` = the request in flight; `log` = the audit |
| `Selection` | the loop that keeps some elements of a list, used by the filesystem, the remote executor and setup | — |
| `AuditJournal` | the capped journal | `bytes` = the file; `current` = `current_bytes_`; `measured` = the size a process that opens the journal has read; `pending` = the call in flight |
| `*Proofs` | theorems | — |

The `MC*` modules are the instances for TLC. `MCSessionRegistry`,
`MCReceiptJournal`, `MCLinuxSessionRuntime` and `MCChangeApply` each extend one
module with the values of its constants. The other four extend several
modules whose parts **share no state in the code**:
`MCSessionLaunch` (PathExposure, SessionFilesystem, SandboxLaunch, OutputPump),
`MCSessionExecution` (ManagedSession, RemoteValidation), `MCGuestGateways`
(LocalServiceProxy, NetworkGateway) and `MCHostCommands` (RuntimePolicy,
HostSetup, ToolKernel, AuditJournal). There a variable `active` chooses, at the
start, the part that runs; the others rest in one initial state, and fairness is
asked only of the active part. The product of independent parts would reach no
new state of any of them, so nothing is lost by taking them in turn. (In
`MCGuestGateways` the choice is which of the two is configured at all.)

Three instances choose a *scene* at the start, to spend states where failures
combine: `started` (which sessions are ever started), `team` (which grants are
used) and `lossy` (whether the journal file may be taken away between daemons).

Actions have the names of the functions they model. An action is what happens
between two points at which another thread can run or the process can die: a
call under one mutex is one action, a call that gives the mutex up is two, and
where a death matters every durable write is an action of its own. A refused or
replayed call changes nothing and is a stuttering step. A definition named after
another with a suffix (`append`, `append_unpoisoned`) is a mutant: a plausible
bug that a run must notice.

### Abstractions

General:

- A digest, a hash link or an HMAC is the value it commits to; an anchor is the
  prefix of records it authenticates. No collisions are considered.
- Requests, plans, authorizations, intents and catalogs are members of small
  sets. A path is the sequence of its components, the identity of a file a
  number that is not used twice.
- A failed write leaves nothing, a partial record or the whole record in the
  file and is rolled back; if the rollback fails too, the object is poisoned.
- Time is a small natural number, or absent where no decision depends on it.

`LinuxSessionRuntime`: the registry and journal are their durable records; a
write succeeds, or is one of the `MaxFaults` failures, and a record left behind
by a failed rollback is in `residue`. The daemon dies between two appends; an
append to the registry that is cut short leaves a file no later daemon opens
(`Residue` and `open_or_create` of `SessionRegistry`), after which nothing of
this module happens. Killing a cgroup ends the guest at once; the waiter notices
later.

`ChangeApply`: a tree's digest is the tree, `"part"` for an incomplete one; all
grants are for one entry, since grants for different entries share only the
ledger. A loss of power brings back the directory as it was at some moment since
the last `fsync` of the parent (metadata reaches the disk in order), and any
prefix of the journal that contains the synced records. There is one call per
grant at a time, and the sweep runs alone. An edit goes to whatever has the live
name; an editor that kept a descriptor open across the exchange is not modelled.

`PathExposure`: the clock does not go back. `SessionFilesystem`: the content of
a tree is a version number; a failing call and its rollback are one action. A
loss of power may bring the root back to its last `fsync` and an image back to
any earlier version of the copy the guest was given, since nothing syncs what a
guest writes.
`SandboxLaunch`: seccomp filters, user-id maps and mounts are steps that succeed
or fail, with the effect the property is about. `ManagedSession`: the guest
writes the bytes 1, 2, 3, …, so a byte tells its position; a cgroup reading is a
value. `RemoteValidation`: output is a number of bytes; a container
that `docker stop` or `docker kill` ends has the code 0 of a program that handles
SIGTERM, or 143 or 137 of one that does not (`StopCodes`). `LocalServiceProxy`:
another process of the same user may put an object in the place of one at any
moment, between a look at a name and its unlink too, but never one with the
pinned identity; `unlinkat` and `rmdir` take the object or not, as its kind
allows. `NetworkGateway`: a peer's buffer holds one unit; TLS either verifies the
provider or fails; a write of the relay to an end that is gone fails
(`RelayBreaks`; in the code `SIGPIPE` may come instead, see below).

`RuntimePolicy`: a harness is the version its closure holds. A hand edit of the
policy file between a command's check and its rename is left out: no lock could
prevent it. A snapshot whose last chmod fails goes or stays, as the modes of the
directories in it allow. `HostSetup`: one command at a time, as an operator runs
it, with edits between commands and between a preview and its confirmation;
`create_directories` and the `chmod` after it are two steps.

`ToolKernel`: the kernel takes one frame at a time, as the code does. Symbolic
links are fixed during a run; a link changed between the policy's check and the
upstream's use of the path is not modelled. A server may repeat an answer or
speak unasked, but does not guess the id of a request it has not been given: such
a frame would be taken for the answer. A broken pipe kills the process or fails
the write. `AuditJournal`: a byte is the number of its event, or the newline; the
process dies, the machine does not; another process may read the size at any
moment and take the lock when the first has closed the journal.

## Runs

| Run | Question | Bounds, and why they are enough |
| --- | --- | --- |
| `registry_lifecycle` | Do all operations on a session, Linux and managed, keep the file readable and the indexes true, keep settled intents settled, and implement `SessionLifecycle`? | one session, two threads between the two locks with shared and distinct keys, two plans (one of a refinement), an intent and two catalogs, six records (a full lifecycle), three instants; the clock is set back only while no start is authorized (finding 1 is the other case) |
| `registry_clock_back` (violation) | Is the file still readable if it is set back then? | finding 1 |
| `journal_sharing` | Is reserved room kept, is the file sound, does Sage's history only grow, does every receipt reach Sage? | three executions, room for two and a half records, so that one reservation must be refused and a commit between the two reads of `reserve_terminal` matters; page size one; one crash; a file that may be removed or rolled back between daemons, or not (`lossy`) |
| `runtime_sessions` | Are guests recorded and owned, receipts respected, stops honest, and does everything end? | two sessions for one place in the index under one failed write *or* one crash or shutdown; one session under both (`started`) |
| `runtime_shutdown` (violation) | Does the producer outlive the finalizers that use it? | finding 2 |
| `apply_recovery` | Is a change applied once, is the ledger true, is nothing lost, does every reservation become terminal? | two grants, of one change or of two, with a failing call, an edit and a death anywhere; or three, one of a change without effect, with two deaths or losses of power (`team`). `TreesSurvive` is claimed where power does not fail (finding 3); `OutcomeIsTrue` and the others everywhere; exempt from progress are the states the code leaves to an operator (`Blocked`) |
| `apply_unsynced` (violation) | Is the outcome durable before the baseline goes? | finding 3 |
| `session_launch` | Are exposures kept and grants resolved only as they stand; does retained content survive and nothing else; is a launched agent confined and a failed launch undone; is the pump faithful; do all of them settle? | exposures: two creations of one name, two revocations, a failing append and a failing cut-back, a death, a narrower policy or a replaced entry. Filesystem: six plans (four to refuse), one guest write, two failing calls and two deaths of daemon or host. Launch: all kinds with descriptor layouts that collide with the reserved numbers, mount sets to accept and to refuse, two faults, one replaced program. Pump: two outputs that stop in a frame, a queue for one frame and a half |
| `launch_orphan` (violation) | Does an agent die with its supervisor? | finding 4 |
| `session_execution` | Are reports and answers true, do stops take effect, is everything owned, does every session end? | managed: a ring of two bytes, four bytes of output of which three are allowed (the ring wraps and the limit is hit), one failing call. Remote: one session in two epochs, fourteen frames of which four are sent, one docker failure, a clock of two. A session cleaned up, prepared and started again while the watchdog holds its old record takes five frames; the theorems cover it for every `MaxSent` |
| `guest_gateways` | Does anything pass unchecked or unrecorded, is any exchange cut or mixed, does every gateway end and take only its own away? | local: one connection at a time, up to three frames written ahead, one replaced object, one failing call, seven configurations. Network: two connections for one relay slot, six gateways, every kind of framing a provider may send |
| `host_commands` | Does one revision name one policy, is a plan run only under the policy that admitted it, is undo exact, are an agent's calls mediated and the audit kept, does every command return? | two policy commands, an upgrade and a death; setup with two other commands, one edit and a death, a failing write or a directory left unrestricted; a run with two requests, one unasked frame per server and one mishap; a journal of seven bytes with five events, one failing call, two opens, each with a size read at any moment before |

Each run has several named properties; `PROJECT.json` lists them, and the
comment before each says which code it is about. Properties that belong to one
question are conjunctions of named parts (`HostIsSound` is five).

`CHECK_DEADLOCK FALSE` appears where the system may stop: a bounded file that is
full, a file no daemon can open, a ledger whose grants are all used, a launch,
a session or a command that is over. The runtime runs check for deadlock.

### Fairness

No failure is owed to anybody: faults, deaths, edits, a guest's writes and a
client's requests are outside every fairness condition. Progress has the form
`[]<>(done \/ excused)`, with the excuses spelled out in the property.

- *Journal*: strong fairness of a page that reaches Sage and of an
  acknowledgement (Sage keeps polling, and the server takes connections in
  turn, so other calls cannot hold its requests off for ever); weak fairness of
  a `reserve_terminal` that holds the mutex and of each execution's commit (a
  finalizer is a thread of its own).
- *Runtime*: weak fairness of the server thread's current step and of
  `kill_cgroup` (the wall-time limit is enforced by the resource poller, so a
  guest does not run for ever); strong fairness of each finalizer's step, which
  needs a mutex that others take and release (a mutex does not starve a waiter
  for ever), and of `reconcile`, which every start of Sage's repeats. Claimed
  while no write fails, since a failed write leaves a session for the next
  daemon to reconcile.
- *Change application*: weak fairness of opening the ledger (the daemon is
  started again), of each step of a call that was begun and of the sweep's next
  record; strong fairness of `recover_pending_change_apply` (an operator, or the
  sweep of the next start, keeps trying what is pending).
- *Launch parts*: weak fairness of the daemon's start and of each operation that
  was begun, of parent and child, of the pump's worker and of a receiver that
  waits.
- *Execution*: weak fairness of each thread and of each kill; a dead guest's
  terminal hangs up; time passes for the remote watchdog.
- *Gateways*: weak fairness of each worker's step and of each deadline (the code
  polls with one), of the owner that drops the session, and of a peer that
  reads what it was sent, if it reads at all. A tunnel whose peer stopped
  reading is exempt: the relay's write blocks without a deadline.
- *Commands*: weak fairness of each running process. A run that waits for a
  silent upstream is at rest: the code has no deadline there.

## What is proved

All theorems hold for every value of the constants that satisfies the named
`ASSUME`s of the modules: any number of sessions, calls, executions, records,
crashes and failed writes. The assumptions say that sets are finite where the
code counts them, that bounds are natural numbers and that the tags which stand
for "nothing" are not values. Every inductive invariant was first checked by TLC
as an invariant of the instance its run uses.

**Registry** (`SessionRegistryProofs`). `TypeCorrect` is
`Spec => []TypeOK`. `RecoveryInvariant` is `Spec => []RecoveryInv` under
`ClockStepsBack = FALSE`. That the file is readable is not inductive: an
operation checks a transition against the *index*, so the invariant must also
say that the indexes are those of the file (`IndexesMatchFile`); a reservation
in flight was checked against the plan in the first lock, so the invariant
keeps what that lock established (`ReservationsBound`); and `mark_starting`
compares its clock only with the end of the authorization, so the invariant
keeps that recorded authorizations are in the past (`AuthorizationsPast`),
which is exactly what a clock set back destroys. `AlwaysRecoverable`
says that recovery accepts every whole record in the file
(`EveryRecordRecoverable`) and that the file of a usable registry holds nothing
else (`~torn`); a death in a write can leave a partial record, and such a file
`open_or_create` refuses for good. `RestartChangesNoIndex` (`IndexesMatchFile`)
follows too; `AppendOnly` is the action property `FileIsAppendOnly`.

**Registry, over its history** (also under
`ClockStepsBack = FALSE`: with a clock that is set back the file itself can
become unreadable, finding 1). `HistoryInvariant` adds to `RecoveryInv` what the
records say about each other: every record of a session has the plan of its
latest lifecycle record and, once one is chosen, its execution
(`HistoryBinds`), an exit has its receipt in the receipt journal (`ExitsBacked`), and offers and windows in
flight are bound in the same way (`OffersBound`, `WindowsBound`).
`ExitsHaveReceipts` and `SettledForGood` follow. `RegistryImplementsLifecycle` is
the refinement `Spec => ImplementsLifecycle`. Its argument does not follow the
operations one by one: since recovery accepts the file before and after every
step, the record a step appends passed the replay's own transition check, and
that check is a step of `SessionLifecycle` for one session (`RecordIsStep`); a
step that appends nothing, a crash or a restart leaves the mapped state alone.

**Journal** (`SessionReceiptsProofs`, second part). `CapacityInvariant` is
`Spec => []CapacityInv`. That no launched execution finds the journal full
(`ReservationsAreHonoured`, about `ReservedRoomIsKept`) needs: the counter equals
a record per holder (`ReservationsAreCounted`), there is room for every record
still to be written (`RoomForPending`), and a `reserve_terminal` between its two
reads is safe (`ProbeIsSafe`): the capacity it read may be stale, but a commit
that used part of it still holds its reservation, because releasing it takes the
producer mutex which the prober has. `JournalTypeCorrect` includes that the
unsigned counter never wraps. `SoundInvariant` is about what the file holds:
memory is a prefix of the file, and the file's surplus is what a failed append
left (`MemoryIsInFile`); its records are chained and no execution has two
(`FileIsChained`); an execution that has only been launched has none
(`LaunchedHasNone`, which is why an append never writes a second one); Sage has
verified a prefix of the open journal (`SageIsBehind`). `JournalSound` and
`SageHistoryExtended` follow, also for a file that is replaced between daemons.
`ClosedReceiptsKept` is about `MCSpec`, whose `lossy` says whether that may
happen; it holds for every value of the other constants.

**Runtime** (`LinuxSessionRuntimeProofs`). `RuntimeInvariant` is
`Spec => []RuntimeInv`. The properties speak of guests and records, but hold
because of the locks: the invariant says, for each position of the server's call
and of each finalizer, which mutexes it holds and what no other thread can have
changed since (`CallInv`, `HeldInv`), how a session's record, its object and its
process go together (`SessionInv`), what a dead daemon leaves (`DeadInv`) and
what reconciliation may rely on (`RecoveryInv`, `OwnedInv`). `GuestsAccounted`,
`EndsTold` and the action property `StopsAreAsked` follow.

**Change application** (`ChangeApplyProofs`). `ApplyInvariant` is
`Spec => []ApplyInv`. `SingleUse` is not inductive: a call in flight checked the
ledger some steps ago, and what it is about to exchange is on a disk that a loss
of power may take back. The invariant therefore says what the ledger, its file
and the calls know of each other (`LedgerInv`, with `LedgerIsTrue`); that a call
which may still exchange has a synced reservation, and that the file holds
nothing else of its grant (`UsesAreReserved`); and, for the file system that is
there *and for every one a loss of power may bring back* (`Pasts`), that its
entries are well formed (`WellFormed`), that the entry that was live first gets
its name back only by a loss of power (`OriginalStaysAway`) and that a candidate
is its own call's (`CandidatesAreOwn`). A failed record is true because the copy it speaks of can
become live in no past (`RecordsAreTrue`). `LedgerStaysTrue` (of
the whole records; a torn tail is refused at open),
`ChangeIsAppliedOnce` and `OutcomesAreTrue` follow, under `Spec`, with any
number of crashes and losses of power. `TreesAreKept` and `EditsAreKept` are
about `MCSpec`, in which the power does not fail in a rough scene (two grants,
faults, an edit) and the other scenes have neither faults nor edits (`SceneInv`):
finding 3 shows that a loss of power breaks them otherwise. They hold for every
value of the other constants. The proof showed a fault of an earlier model: an
append to a full journal is refused before it writes
(`change_apply_journal.cpp:530`), so nothing of it may reach the disk
(`Written`).

**Managed session** (`SessionReceiptsProofs`, first part). `ManagedInvariant` is
`ManagedSpec => []ManagedInv`. That an acknowledged stop has killed the guest depends on
a mutex, two callbacks and the order in which the owner starts and joins its
threads, so the invariant has a part for each: whoever holds the monitor's mutex
is in its callback, and a finished monitor is held by nobody and has no drainer
left (`MonitorInv`); how far the owner is says which threads run and what the
guest may be (`StageInv`); a termination that has begun reaches an attached guest
or is recorded as failed (`KillInv`); past `waitpid` the guest is dead and past
`finish_draining` the drainer is done (`WaiterInv`). The bytes that are read,
hashed, counted and stored agree (`DrainInv`), the ring holds the last of them in
order from its head (`RingInv`), and the receipt is built from these
(`ReceiptInv`). `ReportsTrue` and `StopsEffective` follow, for every size of the
ring, any output and any number of callers of `stop`. `append_output`'s loop is
a recursive function in the model; what it computes is proved by taking the
least step at which it would be wrong (`LeastOf`), an induction that needs no
theorem with an operator for a parameter.

**Remote validation** (`SessionServicesProofs`, first part). `RemoteInvariant` is
`RemoteSpec => []RemoteInv`. A request that waits for docker holds `mutex_`, so
its session stays known, its key unanswered and a place for its answer free, and
a start is still a start when its command returns (`WaitingInv`). The codes of
containers and the ends that sessions and stored results report are codes with
which a container ended by itself or under the watchdog's `docker stop`
(`CodesInv`, `ReplaysInv`), never one the client's own stop or cleanup gave it,
because a session whose container was stopped is not `running` when `wait` looks;
and every answer is the stored result of its key (`AnswersInv`); a process that is down remembers neither (`DownInv`). While it
serves, the staging directories are those of the sessions (`StagesInv`), and a
container no failed command left behind is its session's and is watched, in the
watchdog's hand, or about to be removed by the start that failed (`BoxesInv`).
The watchdog cleans without the mutex, so the record it is about to mark no
longer counts as a watch. `RemainsOwned` and `AnswersTrue` follow, for any number of
sessions, epochs, requests, crashes and failing docker commands. The assumption on
`Requests` says that a frame names a session and an epoch and that its numbers
are unsigned, as the types of `wire::validation_payload` make them. The lists are
filtered by a recursive function (`Those` of `Selection`), whose facts are in
`SelectionProofs` and are proved like those of `append_output`.

**Launch** (`SessionLaunchProofs`, first part). `LaunchInvariant` is
`Spec => []LaunchInv`. Parent and child are two sequences of steps that meet at
one byte in a pipe, so the invariant says what the position of one implies for
the other: how far the parent is says which steps are done (`ParentInv`, with
`Passed`) and which checks of the binding held (`BindInv`); an acknowledged
child, or one past its handshake, has every guarding step behind it
(`ReleaseInv`, with `Guards`); how far the child is says what its root, its
filter, its descriptor table and its program are (`ChildInv`). That a step comes
after another for every kind of job is a lemma about the two orders
(`ServerOrder`, `AgentOrder`, `PassthroughChildOrder`), that the path of the
program and the target of a mount resolve to what was bound one about
`build_rootfs` (`ProgramIsNamed`, `MountIsNamed`). `LaunchSafety`
(`LaunchIsSafe`) follows, for any jobs, layouts of the inherited descriptors,
faults, kills and replacements of the program. `LaunchAssumption` gives a job
the types of its configuration, and says that only a managed launch has session
mounts.

**Session filesystem** (`SessionLaunchProofs`, second part).
`FilesystemInvariant` is `FilesystemSpec => []FsInv`. That a retained tree is in
its stage or in an image a recovery will find is not inductive: a cleanup
removes the image because of what `finalize_retained` did some steps ago, a
sweep because of what a dead daemon left. The invariant says what holds of a
part whatever its session does, in memory *and as of the last fsync*
(`PartInv`); what the running operation means for the parts it has done and for
those still to do (`OpInv`); what the place it has come to means for the part it
is at (`PlaceInv`); and which sessions have a record, a guest or a receipt
(`SessionInv`). An object that knows of metadata and has returned no manifest is
the only one whose image still holds what a guest wrote (`Pristine`); every
other one is destroyed only over a durable stage (`Kept`). A loss of power can
make an image older, never a stage, and only where a recovery will mount it
(`Recoverable`). A step touches one
part of one session; the framing lemmas (`UntouchedPart`, `UntouchedOp`,
`UntouchedPlace`, `OtherPart`) carry the rest over. `FilesystemSafety`
(`RetainedContentSurvives`) follows, for any sessions, plans, failing calls,
deaths of the daemon and losses of power. `FilesystemAssumption` says that a
plan is a sequence of grants whose copies have names.

**Path exposure** (`SessionLaunchProofs`, third part). `ExposureInvariant` is
`ExposureSpec => []ExposureInv`. That a daemon's maps are what its journal
replays to says nothing about the next daemon, which reads the file with another
policy and may find a record behind the end that a failed cut-back left. So the
invariant is about every log a later daemon may find (`Logs`: the file, the file
with a whole record behind its end, the file with the record in hand). Such a
log is `LogSound`: every policy that accepts it gets the same maps from it; they
name one exposure per key and one answer per request, every generation but the
latest is over, every exposure is inside a root that allows it, and every
creation and revocation a caller was told of is in them; a policy that covers
another accepts what that one accepts, and one that covers them all accepts it.
`OpenInv` ties the maps of the running daemon to its own replay, `GrantInv` is
what a grant in hand was checked for before the mutex was released. The replay
is a recursive function; `ReplayAppend`, one record more is one turn more, is
proved by a least counterexample as the facts of `Selection` are.
`ExposureSafety` (`ExposuresAreKept`) and `GrantsResolveTruly` (the action
property `ResolvedIsGranted`) follow, for any creations, revocations, policies,
failing appends and cut-backs, deaths and changes of the tree.
`ExposureAssumption` says that paths are sequences of names in the tree and that
byte counts and lifetimes are unsigned.

**Output pump** (`SessionServicesProofs`, second part; it rests on the same
facts about loops). `PumpInvariant` is `PumpSpec => []PumpInv`. Each byte the
child wrote is in one place: received, queued, buffered or in the pipe, in that
order (`StreamInv`, which holds whatever fails). That the worker decided to read
some steps ago, while a receiver took frames or a stop came in, is what
`DecidedInv` is about: the buffer it reads on to holds no whole frame and is no
longer than a frame may be, so a read can bring it over the limit by one chunk
at most, and an end of file that finds something in it finds a broken frame.
`EndInv` says what the errors about the end mean, `ToldInv` what the receiver was
told. The loop of `queue_buffered_frames_locked` and the frames on the wire
(`Flat`) are recursive functions; `QueueFacts` says that the loop loses nothing,
keeps the queue's bound and goes on until nothing can be queued, `FlatConcat`
that a receiver taking a frame changes nothing else. `PumpFaithful`
(`PumpIsFaithful`) follows, for any outputs, limits, chunks and faults.

**Guest gateways** (`SessionServicesProofs`, third part). `ServiceInvariant` and
`GatewayInvariant` are `MCSpec => []ServiceInv` and `MCSpec => []GatewayInv`; the
two are kept by `Next` and by `NetNext` on their own, so that `MCInit` exercises
one gateway at a time is not used. A worker of the local-service proxy releases
an answer after many steps during which the guest writes, files are replaced and
the session is dropped. `KnownInv` says which connection and which endpoint it
works for; `PinnedInv` that the peer it rechecked is the one that was pinned, so
a host path replaced between the two changes nothing; `GrantsInv` that no grant
reaches an endpoint; `AuditInv` that what it delivers was recorded.
`PipeliningPoisons` is not inductive: that an early frame costs the guest its
stream depends on the frame still being there at the next boundary.
`GuestStreamInv` counts them: every frame the guest wrote waits, is being
answered or was, and once it has pipelined one more is waiting behind the frame
under way. `OwnInv` says which identities the session
recorded for its directory and sockets, and what a rollback or the destructor has
looked at and not yet unlinked (`BoundInv`, `MadeInv`, `LookedInv`,
`UnlinkedInv`): an object of its own is found by the comparison of identities
unless a failing preparation forgot it, and one that took a name can go only in
the windows the property names. For the network gateways the invariant
says what a thread has established by the step it stands at: a tunnel's address
was dialled by a rule that covers the host, and nothing goes through it before
its event (`ProxyInv`, with `Dialled` and `Covers`); the endpoint's thread has
checked the nonce, recorded the event, read the whole body, found its upstream
allowed and its certificate right, in that order (`EndpointInv`). `RuleCovers`
is about `matching_rule`: the rule it selects covers the request label by label,
never a part of a label. `NothingPassesUncheckedHolds`,
`ExchangesAreFramedHolds` and `TeardownIsExactHolds` follow, for any endpoints,
rules, requests, answers, numbers of workers and clients, and faults.
`ServiceAssumption` says that connections and aliases are numbers, that 1 is the
inherited stream and 0 no alias; `GatewayAssumption` that 0 is no client and that
the hosts of a proxy are sequences of labels.

**Host commands** (`HostCommandsProofs`). Each of the four parts has an inductive
invariant of its own (`PolicyInvariant`, `SetupInvariant`, `KernelInvariant`,
`JournalInvariant`); `CommandsStep` combines them, with the parts that are not
active stuttering, and does not use that `MCInit` exercises one at a time.

- *Policy.* A command derives its update, looks once more and only then renames
  it into place. `LockHeld` says who may, `UpdateSound` that past the last look
  the policy is still the one the update was derived from; together they give
  `PolicyFileAdvances` (`RevisionsAdvance`). `CopySound` follows a copy through
  its staging: what is published is the two halves that were verified, and of two
  stagings of one name only one seals (`SnapshotInv`). `LaunchInv` says that a
  policy the daemon has loaded is the file's or has an older revision, so equal
  revisions mean equal policies, which is what a plan that was admitted before a
  restart is checked by.
- *Setup.* `SuccessIsUsable` and the two parts of `UndoIsExact` need to know what
  each step has found and made. `StageInv` says this of directories, key, policy
  and configuration, for a fresh host and for one that was set up before;
  `CreatedInv` that a setup has changed only what it created and that this was
  not there; a key is never without its state directory, so a directory that was
  left unrestricted stands in the way of a setup and of nothing that was finished;
  `LedgerSound` that what the ledger says is owned is not a file of
  somebody else which looks like setup's, so a cleanup that finds it unchanged may
  remove it. `SetupUndoesExactly` follows.
- *Kernel.* A client reads whatever frame comes next. `ExchangeInv` says that only
  the pending request carries the last number, so an answer that matches is this
  task's; `RunsInv` that every call on its way to a server was checked and is
  `Owed` a record; `TaskInv` and `RepliesInv` that a result is sent once, after
  its event and for a tool that ran.
- *Journal.* `FileInv` says, for a file no write stopped half way in, what it holds
  at each step of a record: whole lines, the newest ones, within the cap with room
  for the record to come. It is lost once a write tears the file or a sink starts
  from a size that is no longer the file's (`torn`); `LastInv`, that
  the last acknowledged event ends the file, survives that for the first sink.
  `RetainedIs` and `RetainedKeeps` say of `truncate_oldest`
  that what it keeps are the file's last whole lines, within its budget.

`HostCommandsAreSound` (`HostIsSound`) follows, for any commands, versions,
options, servers, answers, caps and faults. `PolicyAssumption` and
`SetupAssumption` keep the tags apart from values; `KernelAssumption` says that
upstreams are not named like the other parts of a run and that a call which can be
decoded names a tool; `JournalAssumption` that an earlier journal is lines in the
order of their events, the last perhaps unfinished, as the sink writes them.

Only model-checked:

- every liveness property: fairness and `ENABLED` are out of the prover's reach;
- `NothingIsLeftOver` of the filesystem: it bounds the sum of the quotas of what
  is mounted, a fold over a set, and its part about recovery is stated for runs
  in which no call failed.

## Findings

1. *A clock set back makes the registry unreadable* (`registry_clock_back`).
   `mark_starting` and `mark_managed_starting` compare the clock with the ends of
   the authorization and of the plan, not with `authorized_at_ms`;
   `valid_record_shape` demands `starting_at_ms >= authorized_at_ms` on the way
   back. If the wall clock is set back between `reserve_start` and
   `mark_starting`, the registry stores a record its own recovery refuses, and no
   daemon can open it again.
2. *Shutdown with a live session uses a destroyed producer* (`runtime_shutdown`).
   `receipt_audit_unix_server::implementation` declares `config`, which owns the
   runtime, before `protocol`, which owns the producer, so the protocol is
   destroyed first. Each live session's reservation keeps the producer alive
   until `commit_terminal` releases it; the finalizer then calls `mark_exited`
   through the pointer it kept. The other runtime properties are about what such
   a run would have done had the object still been there.
3. *The baseline is removed before the outcome is durable* (`apply_unsynced`).
   `recover_record` runs because the daemon died, or the `fsync` failed, between
   the exchange and its `fsync`; it finds the exchange in the directory, appends
   a synced `applied` record and removes the baseline without syncing the
   directory. In the same way `change_apply_journal::open` accepts a whole record
   whose `fsync` never happened. A loss of power can then leave the old entry
   under an applied record, or a new entry without its record and its baseline.
   `TreesSurvive` shows that without a loss of power no harm is done.
4. *An agent can outlive its supervisor* (`launch_orphan`). The child arms its
   parent-death signal and then reads the acknowledgement. The parent may have
   written that byte before the child ran at all; if it dies before the signal
   is armed, the byte is still in the pipe and the agent is executed as an
   orphan. The comment at `clone_spawner.cpp:1386` says the read covers this
window, and `docs/architecture.md:242` that the signal terminates the child if
the supervisor dies.

### Observations without a run

- *Change application.* With a change that leaves the tree as it was, recovery
  takes a committed exchange for a prepared candidate, the discard refuses it,
  and the reservation stays pending for ever (the last case of `Blocked`).
- *Session filesystem.* A cleanup of a retained copy that is interrupted during
  recovery is not always retryable (`ephemeral_copy.cpp:1223`); `Wedged` lists
  the remains that no later start gets past without a hand. Nothing syncs a
  mounted image: a loss of power takes guest writes from it, and when a stage
  was already published from the newer tree, `stage` finds a conflict at every
  later start (`ephemeral_copy.cpp:1675`).
- *Registry, change ledger.* A death in an append can leave a partial record;
  the registry and the ledger then refuse to open until somebody repairs the
  file.
- *Remote validation.* `wait` looks at the session's clock and inspects the
  container afterwards. When the watchdog stops the container in between, the
  answer is `finished` with the code the program gave to SIGTERM (0 or 143, or
  137), not `timed_out` (`remote_validation_executor.cpp:905`, `:910`, `:1069`).
- *Local-service proxy.* Every removal looks at a name and then unlinks the name
  (`local_service_proxy.cpp:212`, `:478`, `:491`): an object that takes the name
  in between goes in place of the session's own. A directory that cannot be
  opened after `mkdirat` is removed by name without a look (`:1168`, `:1175`). An
  object that takes a name before its identity is recorded is recorded as the
  session's (`:1163`, `:1203`). A socket whose preparation fails after its `chmod`
  stays, with its directory, because the rollback compares the mode too.
- *CONNECT proxy.* The relay's `::write` (`egress_proxy.cpp:123`) has no
  deadline: a peer that stops reading holds the tunnel, and the destructor that
  joins it (`Held`, exempt from `GatewaysEnd`). It has no `MSG_NOSIGNAL` either:
  with the default action of `SIGPIPE` a peer that is gone ends the process.
- *Setup.* A death between `create_directories` and `chmod` (`setup.cpp:250`), or
  a failing `chmod`, leaves a directory with the mode of the umask, which every
  later setup refuses (`:238`, `:274`) until somebody restricts or removes it.
- *Snapshots.* When the last `chmod` of a snapshot fails, `remove_all` cannot
  remove what is in directories already read-only (`runtime_snapshot.cpp:760`):
  an unsealed snapshot may stay, which later stagings refuse.
- *Managed session.* `termination_started_` is set before a kill that may fail;
  no later stop tries again (`mon.failed` in `StopIsEffective`).
- *Audit journal.* A write that fails half way leaves a partial line, to which
  the next record is glued, and bytes `current_bytes_` does not count; a later
  truncation then reads a window that ends too early and drops the newest
  acknowledged record. After a failed rewrite every record fails until the
  journal is reopened; a death between `ftruncate` and the rewrite loses the
  journal; an event larger than the cap is acknowledged and not written; a line
  that begins exactly at the window's edge is dropped. The size is read before
  the lock is taken (`jsonl_sink.cpp:278`, `:286`, `:294`): a process that opens
  the journal while another one writes and closes it counts from a stale size,
  may then pass the cap, or cut a window that ends before the newest lines.
  `TrailIsKept` is stated outside these cases (`torn`, `dropped`).
- *Kernel.* Malformed `tools/call` parameters, and garbage, mis-shaped or quoted
  answers of a server, give an error text that `encode_response_with_error`
  refuses, which ends the loop and the run, although `server.cpp` means not to
  let bad input do so. One unasked frame of a server makes every later call to
  it fail (never answer wrongly). There is no deadline on a silent server. A
  write to a server or an agent that is gone may kill the process with
  `SIGPIPE`, which leaves its runtime directory. A call that was answered with
  an error may still have run.

## Not modelled

Kernel interfaces (namespaces, mounts, seccomp) beyond success and failure,
byte-level copying, parsing and encoding of JSON, HTTP and TLS, hashing,
terminal rendering, operator output: single calls without an order to get wrong,
or out of TLC's reach. The Apple container runtime is disabled by a constant:
every operation returns before its first effect. The remote session runtime is
never operational. The terminal methods of the Linux runtime (read, write,
resize, signal) do not change a session's state; what they read is in
`ManagedSession`. The manifest, authorization and trust documents of change
application are verified or refused as a whole. The alias registry of schema 1
plans, the observation-intent Unix server, library bundles, the refinement
template and the native skill home are left for later. `PROJECT.json` says for
each component what is left.

Hazards known and not covered by a property: the registry's `max_records` and
the change ledger's size keep no room for the records that close what was
opened; a journal file that died without its header, and a torn last record of
the change ledger, are refused by every later daemon; a clock behind
`reserved_at_ms` delays recovery's receipt.

## Plan

Modelled and checked: the registry with its abstract lifecycle, the receipt
journal, the Linux runtime, change application, path exposure, session
filesystem, launch, pump, managed session, remote validation, gateways, policy
and setup commands, kernel and audit. Left, in this order:

1. Theorems about `NothingIsLeftOver` of the filesystem, first its part
   `ClosedLeavesNothing`.
2. An abstract specification of `ChangeApply`, "each change moves once from
   pending to applied or failed", which `RecordsAreTrue` nearly states.
3. The runtime over `SessionRegistry` and `ReceiptJournal` instead of their
   abstractions, and its refinement to `SessionLifecycle`.
4. The alias registry, the observation-intent server, library bundles.
