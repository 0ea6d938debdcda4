------------------------- MODULE HostCommandsProofs -------------------------
(* Proofs about the operator's commands, for all constants: the policy they  *)
(* write and what a plan may launch under it, setup and its undoing, the     *)
(* kernel that mediates a contained agent's tool calls, and the journal the  *)
(* kernel writes; and, of the commands together, that what they leave behind *)
(* can be relied on.                                                         *)
EXTENDS MCHostCommands, SelectionProofs, SequenceTheorems, TLAPS


-----------------------------------------------------------------------------
(* The session policy.                                                     *)

Targets == Versions \cup {Installed}
Policies == [revision : Nat, options : Options, target : Targets]
Staging == {"stage", "materialize", "copy", "verify", "publish", "seal", "link", "resolve"}
Running == [pc : Staging \cup {"lock", "derive", "check", "activate"}, options : Options,
            planned : Targets, target : Targets \cup {None}, exists : BOOLEAN, relink : BOOLEAN,
            copy : Seq(Versions), update : Policies \cup {None}, previous : Policies \cup {None}]
Snapshots == [content : Seq(Versions), sealed : BOOLEAN]

PolicyType ==
    /\ source \in Versions /\ trusted \in BOOLEAN
    /\ policy \in Policies \cup {None} /\ daemon \in Policies \cup {None}
    /\ snaps \in [Versions -> Snapshots \cup {None}]
    /\ cmd \in [Commands -> Running \cup {Idle}]

\* Whoever may still rewrite the policy holds the lock.
LockHeld(c, k) ==
    k.pc \in {"derive", "check", "activate"} \/ (k.pc \in Staging /\ k.options.kind # "stage") =>
      lock = c
\* An update takes the revision after the policy it was derived from, and past
\* the last look that policy is still in place.
UpdateSound(k) ==
    /\ k.pc \in Staging \cup {"check", "activate"} /\ k.update # None =>
         k.update.revision = (IF k.previous = None THEN 0 ELSE k.previous.revision) + 1
    /\ k.pc \in {"check", "activate"} => k.update # None
    /\ k.pc = "activate" => policy = k.previous
UpdateInv == \A c \in Commands : LockHeld(c, cmd[c]) /\ UpdateSound(cmd[c])

\* What a copy holds at each step of a staging.
CopySound(k) ==
    /\ k.pc \in {"lock", "derive", "stage", "materialize"} => k.copy = <<>>
    /\ k.pc \in {"materialize", "copy", "verify", "publish", "seal"} => k.target \in Versions
    /\ k.pc = "copy" => Len(k.copy) = 1
    /\ k.pc = "verify" => Len(k.copy) = 2
    /\ k.pc = "publish" => k.copy = <<k.target, k.target>>
    /\ k.pc = "seal" => snaps[k.target] # None
SnapshotInv ==
    /\ SnapshotIsWhole
    /\ \A c \in Commands : CopySound(cmd[c])
    /\ \A c, d \in Commands :
         At(c, "seal") /\ At(d, "seal") /\ cmd[c].target = cmd[d].target => c = d

\* A policy that was loaded is the file's, or has an older revision.
Loaded(p) ==
    p # None => /\ p \in Policies /\ policy # None /\ p.revision <= policy.revision
                /\ p.revision = policy.revision => p = policy
LaunchInv ==
    /\ Loaded(daemon)
    /\ plan # None =>
         /\ plan.admitted # None /\ Loaded(plan.admitted)
         /\ plan.document.revision = plan.admitted.revision
         /\ daemon # None /\ daemon.revision = plan.admitted.revision => daemon = plan.admitted
    /\ LaunchIsAuthorized

PolicyInv == PolicyType /\ UpdateInv /\ SnapshotInv /\ LaunchInv

LEMMA NoneIsNone ==
    None \notin Commands \cup Versions \cup Policies \cup Snapshots /\ Installed \notin Versions
BY PolicyAssumption DEF Installed, Policies, Targets, Snapshots

LEMMA TargetType == source \in Versions => launch_target \in Targets
BY DEF launch_target, plan_runtime_snapshot, Targets

LEMMA IdleIsIdle == Idle.pc = "idle" /\ "idle" \notin Staging \cup {"lock", "derive", "check", "activate"}
BY DEF Idle, Staging

LEMMA RunningType ==
    ASSUME PolicyType, NEW c \in Commands, cmd[c].pc # "idle"
    PROVE  cmd[c] \in Running
BY DEF PolicyType, Idle

\* A step of a command changes its own state only.
Steps(c) == AcquireLock(c) \/ Step(c) \/ Crash(c)
Mine(c) ==
    /\ cmd' = [cmd EXCEPT ![c] = cmd'[c]]
    /\ cmd'[c] \in Running \cup {Idle}
    /\ UNCHANGED <<source, trusted, service>>

LEMMA EndOf ==
    ASSUME PolicyType, NEW c \in Commands, End(c)
    PROVE  cmd' = [cmd EXCEPT ![c] = cmd'[c]] /\ cmd'[c] = Idle /\ (lock = c \/ lock' = lock)
BY DEF PolicyType, End

LEMMA GotoOf ==
    ASSUME PolicyType, NEW c \in Commands, cmd[c] \in Running,
           NEW pc \in Staging \cup {"lock", "derive", "check", "activate"}, Goto(c, pc)
    PROVE  /\ cmd' = [cmd EXCEPT ![c] = cmd'[c]] /\ cmd'[c] = [cmd[c] EXCEPT !.pc = pc]
           /\ cmd'[c] \in Running
<1>1. cmd' = [cmd EXCEPT ![c] = [cmd[c] EXCEPT !.pc = pc]]
  BY DEF Goto, PolicyType
<1>2. cmd'[c] = [cmd[c] EXCEPT !.pc = pc]
  BY <1>1 DEF PolicyType
<1>3. cmd'[c] \in Running
  BY <1>2 DEF Running
<1> QED
  BY <1>1, <1>2, <1>3

\* What becomes of a command that derives or stages.
LEMMA Derived ==
    ASSUME PolicyType, NEW c \in Commands, DerivePolicyUpdate(c)
    PROVE  \/ End(c)
           \/ /\ cmd' = [cmd EXCEPT ![c] = cmd'[c]] /\ lock' = lock
              /\ cmd'[c] = [cmd[c] EXCEPT !.pc = "stage", !.update = derive_policy_update(c),
                                          !.previous = policy]
              /\ cmd'[c] \in Running
              /\ derive_policy_update(c) # None =>
                   derive_policy_update(c).revision = (IF policy = None THEN 0 ELSE policy.revision) + 1
<1> DEFINE u == derive_policy_update(c)
<1>0. cmd[c] \in Running /\ policy \in Policies \cup {None}
  BY RunningType DEF DerivePolicyUpdate, At, PolicyType
<1>1. u \in Policies \cup {None}
  BY <1>0 DEF derive_policy_update, Policies, Running
<1>2. u # None => u.revision = (IF policy = None THEN 0 ELSE policy.revision) + 1
  BY <1>0 DEF derive_policy_update, Policies
<1>3. CASE End(c)
  BY <1>3
<1>4. CASE /\ cmd' = [cmd EXCEPT ![c].pc = "stage", ![c].update = u, ![c].previous = policy]
           /\ UNCHANGED lock
  <2> HIDE DEF u
  <2>1. cmd' = [cmd EXCEPT ![c] = [cmd[c] EXCEPT !.pc = "stage", !.update = u, !.previous = policy]]
    BY <1>4 DEF PolicyType
  <2>2. cmd'[c] = [cmd[c] EXCEPT !.pc = "stage", !.update = u, !.previous = policy]
    BY <2>1 DEF PolicyType
  <2>3. cmd'[c] \in Running
    BY <1>0, <1>1, <2>2 DEF Running, Staging
  <2> QED
    BY <1>2, <1>4, <2>1, <2>2, <2>3 DEF u
<1> QED
  BY <1>3, <1>4 DEF DerivePolicyUpdate

LEMMA Staged ==
    ASSUME PolicyType, NEW c \in Commands, Stage(c)
    PROVE  \/ End(c)
           \/ /\ cmd' = [cmd EXCEPT ![c] = cmd'[c]] /\ lock' = lock
              /\ cmd'[c] = [cmd[c] EXCEPT !.target = launch_target, !.exists = entry # None,
                                !.relink = entry # launch_target,
                                !.pc = IF trusted THEN "link" ELSE "materialize"]
              /\ cmd'[c] \in Running
<1> DEFINE k == [cmd[c] EXCEPT !.target = launch_target, !.exists = entry # None,
                               !.relink = entry # launch_target,
                               !.pc = IF trusted THEN "link" ELSE "materialize"]
<1>0. cmd[c] \in Running /\ launch_target \in Targets
  BY RunningType, TargetType DEF Stage, At, PolicyType
<1>1. CASE End(c)
  BY <1>1
<1>2. CASE /\ cmd' = [cmd EXCEPT ![c].target = launch_target,
                                 ![c].exists = entry # None,
                                 ![c].relink = entry # launch_target,
                                 ![c].pc = IF trusted THEN "link" ELSE "materialize"]
           /\ UNCHANGED lock
  <2>1. cmd' = [cmd EXCEPT ![c] = k]
    BY <1>2 DEF PolicyType
  <2>2. cmd'[c] = k
    BY <2>1 DEF PolicyType
  <2>3. k \in Running
    BY <1>0 DEF Running, Staging
  <2> QED
    BY <1>2, <2>1, <2>2, <2>3
<1> QED
  BY <1>1, <1>2 DEF Stage

LEMMA Copied ==
    ASSUME PolicyType, NEW c \in Commands, CopyRoot(c)
    PROVE  /\ cmd' = [cmd EXCEPT ![c] = cmd'[c]] /\ lock' = lock
           /\ cmd'[c] = [cmd[c] EXCEPT !.copy = Append(cmd[c].copy, source),
                               !.pc = IF cmd[c].copy = <<>> THEN "copy" ELSE "verify"]
           /\ cmd'[c] \in Running
<1> DEFINE k == [cmd[c] EXCEPT !.copy = Append(cmd[c].copy, source),
                               !.pc = IF cmd[c].copy = <<>> THEN "copy" ELSE "verify"]
<1>0. cmd[c] \in Running /\ source \in Versions
  BY RunningType DEF CopyRoot, At, PolicyType
<1>1. cmd' = [cmd EXCEPT ![c] = k]
  BY DEF CopyRoot, PolicyType
<1>2. cmd'[c] = k
  BY <1>1 DEF PolicyType
<1>3. Append(cmd[c].copy, source) \in Seq(Versions)
  BY <1>0 DEF Running
<1>4. k \in Running
  BY <1>0, <1>3 DEF Running, Staging
<1> QED
  BY <1>1, <1>2, <1>4 DEF CopyRoot, files

\* The steps that only move on, end, or both, in one form.
Moves(c, pc) == cmd' = [cmd EXCEPT ![c] = cmd'[c]] /\ cmd'[c] = [cmd[c] EXCEPT !.pc = pc] /\ cmd'[c] \in Running
Ends(c) == cmd' = [cmd EXCEPT ![c] = cmd'[c]] /\ cmd'[c] = Idle
PlainStep(c) ==
    \/ AcquireLock(c) \/ ReuseSnapshot(c) \/ VerifyCopy(c) \/ PublishSnapshot(c) \/ SealSnapshot(c)
    \/ LinkEntry(c) \/ ResolveEntry(c) \/ CheckCurrent(c) \/ ActivatePolicy(c) \/ Crash(c)

LEMMA PlainMoves ==
    ASSUME PolicyType, NEW c \in Commands, PlainStep(c)
    PROVE  /\ cmd[c] \in Running
           /\ \/ Ends(c) /\ (lock = c \/ lock' = lock)
              \/ \E pc \in Staging \cup {"derive", "check", "activate"} :
                   /\ Moves(c, pc)
                   /\ \/ AcquireLock(c) /\ At(c, "lock") /\ pc = "derive" /\ lock = None /\ lock' = c
                      \/ ReuseSnapshot(c) /\ At(c, "materialize") /\ pc = "link" /\ lock' = lock
                      \/ VerifyCopy(c) /\ At(c, "verify") /\ pc = "publish" /\ lock' = lock
                      \/ PublishSnapshot(c) /\ At(c, "publish") /\ pc \in {"seal", "link"} /\ lock' = lock
                      \/ SealSnapshot(c) /\ At(c, "seal") /\ pc = "link" /\ lock' = lock
                      \/ LinkEntry(c) /\ At(c, "link") /\ pc = "resolve" /\ lock' = lock
                      \/ ResolveEntry(c) /\ At(c, "resolve") /\ pc = "check" /\ lock' = lock
                            /\ cmd[c].options.kind # "stage" /\ cmd[c].update # None
                      \/ CheckCurrent(c) /\ At(c, "check") /\ pc = "activate" /\ lock' = lock
                            /\ policy = cmd[c].previous
<1>0. cmd[c] \in Running
  BY RunningType DEF PlainStep, AcquireLock, ReuseSnapshot, VerifyCopy, PublishSnapshot, SealSnapshot,
     LinkEntry, ResolveEntry, CheckCurrent, ActivatePolicy, Crash, At
<1>e. ASSUME End(c) PROVE Ends(c) /\ (lock = c \/ lock' = lock)
  BY <1>e, EndOf DEF Ends
<1>g. ASSUME NEW pc \in Staging \cup {"derive", "check", "activate"}, Goto(c, pc) PROVE Moves(c, pc)
  BY <1>0, <1>g, GotoOf DEF Moves
<1>s. {"link", "publish", "seal", "resolve"} \subseteq Staging
  BY DEF Staging
<1>1. CASE AcquireLock(c)
  BY <1>0, <1>e, <1>g, <1>s, <1>1 DEF AcquireLock
<1>2. CASE ReuseSnapshot(c)
  BY <1>0, <1>e, <1>g, <1>s, <1>2 DEF ReuseSnapshot
<1>3. CASE VerifyCopy(c)
  BY <1>0, <1>e, <1>g, <1>s, <1>3 DEF VerifyCopy
<1>4. CASE PublishSnapshot(c)
  BY <1>0, <1>e, <1>g, <1>s, <1>4 DEF PublishSnapshot
<1>5. CASE SealSnapshot(c)
  BY <1>0, <1>e, <1>g, <1>s, <1>5 DEF SealSnapshot, Fails
<1>6. CASE LinkEntry(c)
  BY <1>0, <1>e, <1>g, <1>s, <1>6 DEF LinkEntry
<1>7. CASE ResolveEntry(c)
  BY <1>0, <1>e, <1>g, <1>s, <1>7 DEF ResolveEntry
<1>8. CASE CheckCurrent(c)
  BY <1>0, <1>e, <1>g, <1>s, <1>8 DEF CheckCurrent, Fails
<1>9. CASE ActivatePolicy(c)
  BY <1>0, <1>e, <1>g, <1>s, <1>9 DEF ActivatePolicy
<1>10. CASE Crash(c)
  BY <1>0, <1>e, <1>g, <1>s, <1>10 DEF Crash, Fails
<1> QED
  BY <1>1, <1>2, <1>3, <1>4, <1>5, <1>6, <1>7, <1>8, <1>9, <1>10 DEF PlainStep

LEMMA BeginMoves ==
    ASSUME PolicyType, NEW c \in Commands, NEW o \in Options, Begin(c, o)
    PROVE  /\ cmd' = [cmd EXCEPT ![c] = cmd'[c]] /\ cmd'[c] \in Running
           /\ cmd'[c].pc \in {"stage", "lock"} /\ (cmd'[c].pc = "stage" => cmd'[c].options.kind = "stage")
           /\ cmd'[c].copy = <<>> /\ cmd'[c].update = None
<1> DEFINE k == [pc |-> IF o.kind = "stage" THEN "stage" ELSE "lock", options |-> o,
          planned |-> launch_target, target |-> None, exists |-> FALSE,
          relink |-> FALSE, copy |-> <<>>, update |-> None, previous |-> None]
<1>1. cmd' = [cmd EXCEPT ![c] = k] /\ cmd'[c] = k
  BY DEF Begin, PolicyType
<1>2. launch_target \in Targets
  BY TargetType DEF PolicyType
<1>3. <<>> \in Seq(Versions)
  OBVIOUS
<1>4. k \in Running
  BY <1>2, <1>3 DEF Running, Staging
<1>5. k.pc \in {"stage", "lock"} /\ (k.pc = "stage" => k.options.kind = "stage") /\ k.copy = <<>> /\ k.update = None
  OBVIOUS
<1> QED
  BY <1>1, <1>4, <1>5

\* A command's step, and what it leaves alone.
ActsOn(c) == (\E o \in Options : Begin(c, o)) \/ AcquireLock(c) \/ Step(c) \/ Crash(c)

LEMMA ActMoves ==
    ASSUME PolicyType, NEW c \in Commands, ActsOn(c)
    PROVE  /\ cmd' = [cmd EXCEPT ![c] = cmd'[c]] /\ cmd'[c] \in Running \cup {Idle}
           /\ lock' = lock \/ lock = c \/ (lock = None /\ lock' = c)
           /\ UNCHANGED <<source, trusted, service>>
<1>1. CASE \E o \in Options : Begin(c, o)
  BY <1>1, BeginMoves DEF Begin, files
<1>2. CASE PlainStep(c)
  <2>1. /\ cmd' = [cmd EXCEPT ![c] = cmd'[c]] /\ cmd'[c] \in Running \cup {Idle}
        /\ lock' = lock \/ lock = c \/ (lock = None /\ lock' = c)
    BY <1>2, PlainMoves DEF Moves, Ends
  <2>2. UNCHANGED <<source, trusted, service>>
    BY <1>2 DEF PlainStep, AcquireLock, ReuseSnapshot, VerifyCopy, PublishSnapshot, SealSnapshot,
       LinkEntry, ResolveEntry, CheckCurrent, ActivatePolicy, Crash, KeepRest
  <2> QED
    BY <2>1, <2>2
<1>3. CASE DerivePolicyUpdate(c)
  BY <1>3, Derived, EndOf DEF DerivePolicyUpdate, KeepRest
<1>4. CASE Stage(c)
  BY <1>4, Staged, EndOf DEF Stage, KeepRest
<1>5. CASE CopyRoot(c)
  BY <1>5, Copied DEF CopyRoot, KeepRest
<1> QED
  BY <1>1, <1>2, <1>3, <1>4, <1>5 DEF ActsOn, Step, PlainStep

\* Who writes the policy, and who the snapshots.
LEMMA ActWrites ==
    ASSUME PolicyType, NEW c \in Commands, ActsOn(c)
    PROVE  /\ policy' = policy \/ ActivatePolicy(c)
           /\ snaps' = snaps \/ PublishSnapshot(c) \/ SealSnapshot(c)
BY DEF ActsOn, Begin, AcquireLock, Step, DerivePolicyUpdate, Stage, ReuseSnapshot, CopyRoot, VerifyCopy,
   PublishSnapshot, SealSnapshot, LinkEntry, ResolveEntry, CheckCurrent, ActivatePolicy, Crash, files

Hosts ==
    \/ \E v \in Versions : UpgradeHarness(v)
    \/ \E o \in Options : EditPolicy(o)
    \/ StartDaemon \/ StopDaemon
    \/ \E s \in PlanShapes, r \in 1 .. MaxRevision, t \in Versions \cup {Installed},
          x \in now + 1 .. now + MaxTtl : AdmitPlan(s, r, t, x)
    \/ Launch \/ DropPlan \/ Tick

LEMMA HostLeaves ==
    ASSUME Hosts
    PROVE  UNCHANGED <<cmd, lock, snaps>>
BY DEF Hosts, UpgradeHarness, EditPolicy, StartDaemon, StopDaemon, AdmitPlan, Launch, DropPlan, Tick,
   KeepHost, files

LEMMA NextSplit == Next <=> (\E c \in Commands : ActsOn(c)) \/ Hosts
BY DEF Next, ActsOn, Hosts

LEMMA EditType ==
    ASSUME PolicyType, NEW o \in Options, EditPolicy(o)
    PROVE  /\ policy \in Policies /\ policy' \in Policies /\ policy'.revision = policy.revision + 1
           /\ policy' # None /\ UNCHANGED service
<1>1. policy \in Policies /\ policy' = [policy EXCEPT !.revision = policy.revision + 1, !.options = o]
  BY DEF EditPolicy, PolicyType
<1>2. policy.revision + 1 \in Nat
  BY <1>1 DEF Policies
<1>3. policy' \in Policies /\ policy'.revision = policy.revision + 1
  <2> DEFINE n == policy.revision + 1
  <2> HIDE DEF n
  <2>1. policy' = [policy EXCEPT !.revision = n, !.options = o] /\ n \in Nat
    BY <1>1, <1>2 DEF n
  <2>2. policy' \in Policies /\ policy'.revision = n
    BY <1>1, <2>1 DEF Policies
  <2> QED
    BY <2>2 DEF n
<1> QED
  BY <1>1, <1>3, NoneIsNone DEF EditPolicy

LEMMA SnapType ==
    ASSUME PolicyType, SnapshotInv, NEW c \in Commands, PublishSnapshot(c) \/ SealSnapshot(c)
    PROVE  snaps' \in [Versions -> Snapshots \cup {None}]
<1>0. cmd[c] \in Running /\ cmd[c].target \in Versions
  <2>1. cmd[c].pc \in {"publish", "seal"}
    BY DEF PublishSnapshot, SealSnapshot, At
  <2> QED
    BY <2>1, RunningType DEF SnapshotInv, CopySound
<1>1. cmd[c].copy \in Seq(Versions)
  BY <1>0 DEF Running
<1>2. CASE PublishSnapshot(c)
  <2>1. [content |-> cmd[c].copy, sealed |-> FALSE] \in Snapshots
    BY <1>1 DEF Snapshots
  <2> QED
    BY <1>0, <1>2, <2>1 DEF PublishSnapshot, PolicyType
<1>3. CASE SealSnapshot(c)
  <2>1. snaps[cmd[c].target] \in Snapshots
    BY <1>0, <1>3 DEF SnapshotInv, CopySound, SealSnapshot, At, PolicyType
  <2>2. [snaps[cmd[c].target] EXCEPT !.sealed = TRUE] \in Snapshots
    BY <2>1 DEF Snapshots
  <2> QED
    BY <1>0, <1>3, <2>2 DEF SealSnapshot, PolicyType
<1> QED
  BY <1>2, <1>3

LEMMA PolicyTypeKeeps ==
    ASSUME PolicyType, SnapshotInv, [Next]_vars
    PROVE  PolicyType'
<1>1. CASE UNCHANGED vars
  BY <1>1 DEF PolicyType, vars, files, service
<1>2. ASSUME NEW c \in Commands, ActsOn(c) PROVE PolicyType'
  <2>1. policy' \in Policies \cup {None}
    <3>1. CASE policy' = policy
      BY <3>1 DEF PolicyType
    <3>2. CASE ActivatePolicy(c)
      <4>1. cmd[c] \in Running /\ policy' = cmd[c].update
        BY <3>2, RunningType DEF ActivatePolicy, At
      <4> QED
        BY <4>1 DEF Running
    <3> QED
      BY <1>2, <3>1, <3>2, ActWrites
  <2>2. snaps' \in [Versions -> Snapshots \cup {None}]
    BY <1>2, ActWrites, SnapType DEF PolicyType
  <2>3. cmd' \in [Commands -> Running \cup {Idle}] /\ UNCHANGED <<source, trusted, daemon>>
    BY <1>2, ActMoves DEF PolicyType, service
  <2> QED
    BY <2>1, <2>2, <2>3 DEF PolicyType
<1>3. CASE Hosts
  <2>1. UNCHANGED <<cmd, lock, snaps>>
    BY <1>3, HostLeaves
  <2>2. /\ source' \in Versions /\ trusted' \in BOOLEAN
        /\ policy' \in Policies \cup {None} /\ daemon' \in Policies \cup {None}
    BY <1>3, EditType DEF PolicyType, Hosts, UpgradeHarness, EditPolicy, StartDaemon, StopDaemon, AdmitPlan,
       Launch, DropPlan, Tick, KeepHost, files, service
  <2> QED
    BY <2>1, <2>2 DEF PolicyType
<1> QED
  BY <1>1, <1>2, <1>3, NextSplit

-----------------------------------------------------------------------------
(* Revisions. *)

LEMMA OwnUpdate ==
    ASSUME PolicyType, UpdateInv, NEW c \in Commands, ActsOn(c)
    PROVE  LockHeld(c, cmd[c])' /\ UpdateSound(cmd[c])'
<1>0. LockHeld(c, cmd[c]) /\ UpdateSound(cmd[c])
  BY DEF UpdateInv
<1>i. ASSUME cmd'[c] = Idle PROVE LockHeld(c, cmd[c])' /\ UpdateSound(cmd[c])'
  BY <1>i, IdleIsIdle DEF LockHeld, UpdateSound
<1>1. CASE \E o \in Options : Begin(c, o)
  <2>1. /\ cmd'[c].pc \in {"stage", "lock"} /\ (cmd'[c].pc = "stage" => cmd'[c].options.kind = "stage")
        /\ cmd'[c].update = None
    BY <1>1, BeginMoves
  <2> QED
    BY <2>1 DEF LockHeld, UpdateSound, Staging
<1>2. CASE PlainStep(c)
  <2>1. CASE Ends(c)
    BY <1>i, <2>1 DEF Ends
  <2>2. ASSUME NEW pc \in Staging \cup {"derive", "check", "activate"}, Moves(c, pc),
               \/ AcquireLock(c) /\ At(c, "lock") /\ pc = "derive" /\ lock = None /\ lock' = c
               \/ /\ lock' = lock /\ pc \in Staging /\ cmd[c].pc \in Staging
               \/ /\ ResolveEntry(c) /\ At(c, "resolve") /\ pc = "check" /\ lock' = lock
                  /\ cmd[c].options.kind # "stage" /\ cmd[c].update # None
               \/ /\ CheckCurrent(c) /\ At(c, "check") /\ pc = "activate" /\ lock' = lock
                  /\ policy = cmd[c].previous
        PROVE LockHeld(c, cmd[c])' /\ UpdateSound(cmd[c])'
    <3>0. cmd[c] \in Running
      BY <1>2, PlainMoves
    <3>1. /\ cmd'[c].pc = pc /\ cmd'[c].options = cmd[c].options
          /\ cmd'[c].update = cmd[c].update /\ cmd'[c].previous = cmd[c].previous
      BY <2>2, <3>0 DEF Moves, Running
    <3>2. CASE AcquireLock(c) /\ At(c, "lock") /\ pc = "derive" /\ lock = None /\ lock' = c
      BY <3>1, <3>2 DEF LockHeld, UpdateSound, Staging
    <3>3. CASE lock' = lock /\ pc \in Staging /\ cmd[c].pc \in Staging
      <4>1. pc \notin {"derive", "check", "activate"}
        BY <3>3 DEF Staging
      <4> QED
        BY <1>0, <3>1, <3>3, <4>1 DEF LockHeld, UpdateSound
    <3>4. CASE /\ ResolveEntry(c) /\ At(c, "resolve") /\ pc = "check" /\ lock' = lock
               /\ cmd[c].options.kind # "stage" /\ cmd[c].update # None
      <4>1. "resolve" \in Staging /\ "check" \notin Staging
        BY DEF Staging
      <4> QED
        BY <1>0, <3>1, <3>4, <4>1 DEF LockHeld, UpdateSound, At
    <3>5. CASE /\ CheckCurrent(c) /\ At(c, "check") /\ pc = "activate" /\ lock' = lock
               /\ policy = cmd[c].previous
      <4>1. policy' = policy
        BY <3>5 DEF CheckCurrent
      <4> QED
        BY <1>0, <3>1, <3>5, <4>1 DEF LockHeld, UpdateSound, At
    <3> QED
      BY <2>2, <3>2, <3>3, <3>4, <3>5
  <2>3. {"materialize", "link", "verify", "publish", "seal", "resolve"} \subseteq Staging
    BY DEF Staging
  <2> QED
    BY <1>2, <2>1, <2>2, <2>3, PlainMoves DEF At
<1>3. CASE DerivePolicyUpdate(c)
  <2>0. cmd[c] \in Running /\ cmd[c].pc = "derive" /\ lock = c /\ policy' = policy
    BY <1>0, <1>3, RunningType DEF DerivePolicyUpdate, At, LockHeld
  <2>1. CASE End(c)
    BY <1>i, <2>1, EndOf
  <2>2. CASE ~End(c)
    <3>1. /\ lock' = lock
          /\ cmd'[c] = [cmd[c] EXCEPT !.pc = "stage", !.update = derive_policy_update(c),
                                      !.previous = policy]
          /\ derive_policy_update(c) # None =>
               derive_policy_update(c).revision = (IF policy = None THEN 0 ELSE policy.revision) + 1
      BY <1>3, <2>2, Derived
    <3>2. /\ cmd'[c].pc = "stage" /\ cmd'[c].update = derive_policy_update(c) /\ cmd'[c].previous = policy
      BY <2>0, <3>1 DEF Running
    <3> QED
      BY <2>0, <3>1, <3>2 DEF LockHeld, UpdateSound
  <2> QED
    BY <2>1, <2>2
<1>4. CASE Stage(c)
  <2>0. cmd[c] \in Running /\ cmd[c].pc = "stage"
    BY <1>4, RunningType DEF Stage, At
  <2>1. CASE End(c)
    BY <1>i, <2>1, EndOf
  <2>2. CASE ~End(c)
    <3>1. /\ lock' = lock
          /\ cmd'[c] = [cmd[c] EXCEPT !.target = launch_target, !.exists = entry # None,
                                !.relink = entry # launch_target,
                                !.pc = IF trusted THEN "link" ELSE "materialize"]
      BY <1>4, <2>2, Staged
    <3>2. /\ cmd'[c].pc \in {"link", "materialize"} /\ cmd'[c].options = cmd[c].options
          /\ cmd'[c].update = cmd[c].update /\ cmd'[c].previous = cmd[c].previous
      BY <2>0, <3>1 DEF Running
    <3> QED
      BY <1>0, <2>0, <3>1, <3>2 DEF LockHeld, UpdateSound, Staging
  <2> QED
    BY <2>1, <2>2
<1>5. CASE CopyRoot(c)
  <2>0. cmd[c] \in Running /\ cmd[c].pc \in {"materialize", "copy"}
    BY <1>5, RunningType DEF CopyRoot, At
  <2>1. /\ cmd'[c].pc \in {"copy", "verify"} /\ cmd'[c].options = cmd[c].options /\ lock' = lock
        /\ cmd'[c].update = cmd[c].update /\ cmd'[c].previous = cmd[c].previous
    BY <1>5, <2>0, Copied DEF Running
  <2> QED
    BY <1>0, <2>0, <2>1 DEF LockHeld, UpdateSound, Staging
<1> QED
  BY <1>1, <1>2, <1>3, <1>4, <1>5 DEF ActsOn, Step, PlainStep

LEMMA UpdateKeeps ==
    ASSUME PolicyType, UpdateInv, [Next]_vars
    PROVE  UpdateInv'
<1>1. CASE UNCHANGED vars
  BY <1>1 DEF UpdateInv, LockHeld, UpdateSound, vars, files
<1>2. ASSUME NEW c \in Commands, ActsOn(c), NEW d \in Commands, d # c
      PROVE  LockHeld(d, cmd[d])' /\ UpdateSound(cmd[d])'
  <2>0. LockHeld(d, cmd[d]) /\ UpdateSound(cmd[d]) /\ d # None
    BY NoneIsNone DEF UpdateInv
  <2>1. cmd'[d] = cmd[d] /\ (lock' = lock \/ lock # d)
    BY <1>2, <2>0, ActMoves DEF PolicyType
  <2>2. LockHeld(d, cmd[d])'
    BY <2>0, <2>1 DEF LockHeld
  <2>3. CASE policy' = policy
    BY <2>0, <2>1, <2>2, <2>3 DEF UpdateSound
  <2>4. CASE ActivatePolicy(c)
    <3>1. lock = c
      BY <2>4 DEF UpdateInv, LockHeld, ActivatePolicy, At
    <3>2. cmd[d].pc # "activate"
      BY <1>2, <2>0, <3>1 DEF LockHeld
    <3> QED
      BY <2>0, <2>1, <2>2, <3>2 DEF UpdateSound
  <2> QED
    BY <1>2, <2>3, <2>4, ActWrites
<1>3. ASSUME NEW c \in Commands, ActsOn(c) PROVE UpdateInv'
  BY <1>2, <1>3, OwnUpdate DEF UpdateInv
<1>4. CASE Hosts
  <2>1. UNCHANGED <<cmd, lock>>
    BY <1>4, HostLeaves
  <2>2. policy' = policy \/ \A c \in Commands : cmd[c].pc # "activate"
    BY <1>4 DEF Hosts, UpgradeHarness, EditPolicy, StartDaemon, StopDaemon, AdmitPlan, Launch, DropPlan,
       Tick, KeepHost, files, At
  <2> QED
    BY <2>1, <2>2 DEF UpdateInv, LockHeld, UpdateSound
<1> QED
  BY <1>1, <1>3, <1>4, NextSplit

\* Each change of the policy file takes the next revision.
Advances == policy' # policy => policy'.revision = (IF policy = None THEN 0 ELSE policy.revision) + 1

LEMMA PolicyAdvances ==
    ASSUME PolicyType, UpdateInv, [Next]_vars
    PROVE  Advances
<1>1. ASSUME NEW c \in Commands, ActivatePolicy(c) PROVE Advances
  BY <1>1 DEF UpdateInv, UpdateSound, ActivatePolicy, At, Advances
<1>2. ASSUME NEW o \in Options, EditPolicy(o) PROVE Advances
  BY <1>2, EditType DEF Advances, EditPolicy
<1>3. CASE Hosts
  BY <1>2, <1>3 DEF Hosts, UpgradeHarness, StartDaemon, StopDaemon, AdmitPlan, Launch, DropPlan, Tick,
     KeepHost, files, Advances
<1>4. CASE UNCHANGED vars
  BY <1>4 DEF Advances, vars, files
<1> QED
  BY <1>1, <1>3, <1>4, NextSplit, ActWrites DEF Advances

-----------------------------------------------------------------------------
(* Snapshots. *)

\* What a command's own step does to its copy and to the snapshot of its name.
LEMMA OwnCopy ==
    ASSUME PolicyType, SnapshotInv, NEW c \in Commands, ActsOn(c)
    PROVE  /\ CopySound(cmd[c])' /\ SnapshotIsWhole'
           /\ cmd'[c].pc = "seal" => PublishSnapshot(c) /\ snaps[cmd'[c].target] = None
           /\ \A d \in Versions : snaps'[d] = snaps[d] \/ (snaps[d] = None /\ snaps'[d] # None) \/
                                  (SealSnapshot(c) /\ d = cmd[c].target)
<1>0. CopySound(cmd[c]) /\ SnapshotIsWhole /\ snaps \in [Versions -> Snapshots \cup {None}]
  BY DEF SnapshotInv, PolicyType
<1>i. ASSUME cmd'[c] = Idle PROVE CopySound(cmd[c])' /\ cmd'[c].pc # "seal"
  BY <1>i, IdleIsIdle DEF CopySound
<1>1. CASE \E o \in Options : Begin(c, o)
  <2>1. cmd'[c].pc \in {"stage", "lock"} /\ cmd'[c].copy = <<>>
    BY <1>1, BeginMoves
  <2>2. snaps' = snaps
    BY <1>1 DEF Begin, files
  <2> QED
    BY <1>0, <2>1, <2>2 DEF CopySound, SnapshotIsWhole
<1>2. CASE AcquireLock(c) \/ ReuseSnapshot(c) \/ LinkEntry(c) \/ ResolveEntry(c) \/ CheckCurrent(c)
           \/ ActivatePolicy(c) \/ Crash(c)
  <2>1. snaps' = snaps
    BY <1>2 DEF AcquireLock, ReuseSnapshot, LinkEntry, ResolveEntry, CheckCurrent, ActivatePolicy, Crash
  <2>2. CASE Ends(c)
    BY <1>0, <1>i, <2>1, <2>2 DEF Ends, SnapshotIsWhole
  <2>3. CASE ~Ends(c)
    <3>0. cmd[c] \in Running /\ cmd[c].pc # "publish" /\ cmd[c].pc # "verify" /\ cmd[c].pc # "seal"
      BY <1>2, <2>3, PlainMoves, EndOf, RunningType DEF PlainStep, AcquireLock, ReuseSnapshot, LinkEntry,
         ResolveEntry, CheckCurrent, ActivatePolicy, Crash, Fails, At, Ends
    <3>1. PICK pc \in Staging \cup {"derive", "check", "activate"} :
             /\ Moves(c, pc)
             /\ pc \in {"derive", "link", "resolve", "check", "activate"}
             /\ pc = "derive" => cmd[c].pc = "lock"
      BY <1>2, <2>3, <3>0, PlainMoves DEF PlainStep, At
    <3>2. cmd'[c].pc = pc /\ cmd'[c].copy = cmd[c].copy
      BY <3>0, <3>1 DEF Moves, Running
    <3> QED
      BY <1>0, <2>1, <3>1, <3>2 DEF CopySound, SnapshotIsWhole
  <2> QED
    BY <2>2, <2>3
<1>3. CASE VerifyCopy(c)
  <2>0. cmd[c] \in Running /\ cmd[c].pc = "verify" /\ snaps' = snaps
    BY <1>3, RunningType DEF VerifyCopy, At
  <2>1. CASE snapshot_tree_digest(cmd[c].copy) = cmd[c].target
    <3>1. Goto(c, "publish")
      BY <1>3, <2>1 DEF VerifyCopy
    <3>2. cmd'[c] = [cmd[c] EXCEPT !.pc = "publish"]
      BY <2>0, <3>1, GotoOf DEF Staging
    <3>3. cmd'[c].pc = "publish" /\ cmd'[c].copy = cmd[c].copy /\ cmd'[c].target = cmd[c].target
      BY <2>0, <3>2 DEF Running
    <3>4. cmd[c].target \in Versions /\ Len(cmd[c].copy) = 2 /\ cmd[c].copy \in Seq(Versions)
      BY <1>0, <2>0 DEF CopySound, Running
    <3>5. cmd[c].copy = <<cmd[c].target, cmd[c].target>>
      <4>1. cmd[c].target # None
        BY <3>4, NoneIsNone
      <4>2. cmd[c].copy[1] = cmd[c].target /\ cmd[c].copy[2] = cmd[c].target
        BY <2>1, <4>1 DEF snapshot_tree_digest
      <4> QED
        BY <3>4, <4>2
    <3> QED
      BY <1>0, <2>0, <3>3, <3>4, <3>5 DEF CopySound, SnapshotIsWhole
  <2>2. CASE snapshot_tree_digest(cmd[c].copy) # cmd[c].target
    <3>1. cmd'[c] = Idle
      BY <1>3, <2>2, EndOf DEF VerifyCopy
    <3> QED
      BY <1>0, <1>i, <2>0, <3>1 DEF SnapshotIsWhole
  <2> QED
    BY <2>1, <2>2
<1>4. CASE PublishSnapshot(c)
  <2>0. /\ cmd[c] \in Running /\ cmd[c].pc = "publish" /\ cmd[c].target \in Versions
        /\ cmd[c].copy = <<cmd[c].target, cmd[c].target>>
    BY <1>0, <1>4, RunningType DEF PublishSnapshot, At, CopySound
  <2>1. CASE /\ snaps[cmd[c].target] = None
             /\ snaps' = [snaps EXCEPT ![cmd[c].target] = [content |-> cmd[c].copy, sealed |-> FALSE]]
             /\ Goto(c, "seal")
    <3>1. cmd'[c] = [cmd[c] EXCEPT !.pc = "seal"]
      BY <2>0, <2>1, GotoOf DEF Staging
    <3>2. cmd'[c].pc = "seal" /\ cmd'[c].target = cmd[c].target
      BY <2>0, <3>1 DEF Running
    <3>3. snaps'[cmd[c].target] = [content |-> cmd[c].copy, sealed |-> FALSE]
      BY <1>0, <2>0, <2>1
    <3>4. snaps'[cmd[c].target] # None
      <4>1. cmd[c].copy \in Seq(Versions)
        BY <2>0 DEF Running
      <4>2. [content |-> cmd[c].copy, sealed |-> FALSE] \in Snapshots
        BY <4>1 DEF Snapshots
      <4> QED
        BY <3>3, <4>2, NoneIsNone
    <3>5. CopySound(cmd[c])'
      BY <2>0, <3>2, <3>4 DEF CopySound
    <3>6. SnapshotIsWhole'
      BY <1>0, <2>0, <2>1, <3>3 DEF SnapshotIsWhole
    <3> QED
      BY <1>0, <1>4, <2>0, <2>1, <3>2, <3>4, <3>5, <3>6
  <2>2. CASE snaps' = snaps /\ (Goto(c, "link") \/ End(c))
    <3>1. CASE End(c)
      BY <1>0, <1>i, <2>2, <3>1, EndOf DEF SnapshotIsWhole
    <3>2. CASE Goto(c, "link")
      <4>1. cmd'[c] = [cmd[c] EXCEPT !.pc = "link"]
        BY <2>0, <3>2, GotoOf DEF Staging
      <4>2. cmd'[c].pc = "link"
        BY <2>0, <4>1 DEF Running
      <4> QED
        BY <1>0, <2>2, <4>2 DEF CopySound, SnapshotIsWhole
    <3> QED
      BY <2>2, <3>1, <3>2
  <2> QED
    BY <1>4, <2>1, <2>2 DEF PublishSnapshot
<1>5. CASE SealSnapshot(c)
  <2>0. /\ cmd[c] \in Running /\ cmd[c].pc = "seal" /\ cmd[c].target \in Versions
        /\ snaps[cmd[c].target] \in Snapshots
    BY <1>0, <1>5, RunningType DEF SealSnapshot, At, CopySound
  <2>1. CASE snaps' = [snaps EXCEPT ![cmd[c].target].sealed = TRUE] /\ Goto(c, "link")
    <3>1. cmd'[c] = [cmd[c] EXCEPT !.pc = "link"]
      BY <2>0, <2>1, GotoOf DEF Staging
    <3>2. cmd'[c].pc = "link"
      BY <2>0, <3>1 DEF Running
    <3>3. snaps'[cmd[c].target].content = snaps[cmd[c].target].content
      BY <1>0, <2>0, <2>1 DEF Snapshots
    <3>4. \A d \in Versions : d # cmd[c].target => snaps'[d] = snaps[d]
      BY <1>0, <2>1
    <3>5. SnapshotIsWhole'
      <4>1. snaps[cmd[c].target].content = <<cmd[c].target, cmd[c].target>>
        BY <1>0, <1>5, <2>0 DEF SnapshotIsWhole, CopySound
      <4> QED
        BY <1>0, <3>3, <3>4, <4>1 DEF SnapshotIsWhole
    <3> QED
      BY <1>5, <3>2, <3>4, <3>5 DEF CopySound
  <2>2. CASE snaps' = [snaps EXCEPT ![cmd[c].target] = None] /\ Fails(c)
    <3>1. cmd'[c] = Idle
      BY <2>2, EndOf DEF Fails
    <3>2. \A d \in Versions : d # cmd[c].target => snaps'[d] = snaps[d]
      BY <1>0, <2>2
    <3>3. snaps'[cmd[c].target] = None
      BY <1>0, <2>0, <2>2
    <3>4. SnapshotIsWhole'
      BY <1>0, <3>2, <3>3 DEF SnapshotIsWhole
    <3> QED
      BY <1>5, <1>i, <3>1, <3>2, <3>4
  <2>3. CASE snaps' = snaps /\ Fails(c)
    <3>1. cmd'[c] = Idle
      BY <2>3, EndOf DEF Fails
    <3> QED
      BY <1>0, <1>5, <1>i, <2>3, <3>1 DEF SnapshotIsWhole
  <2> QED
    BY <1>5, <2>1, <2>2, <2>3 DEF SealSnapshot
<1>6. CASE DerivePolicyUpdate(c)
  <2>0. cmd[c] \in Running /\ cmd[c].pc = "derive" /\ snaps' = snaps
    BY <1>6, RunningType DEF DerivePolicyUpdate, At
  <2>1. CASE End(c)
    BY <1>0, <1>i, <2>0, <2>1, EndOf DEF SnapshotIsWhole
  <2>2. CASE ~End(c)
    <3>1. cmd'[c].pc = "stage" /\ cmd'[c].copy = cmd[c].copy
      BY <1>6, <2>0, <2>2, Derived DEF Running
    <3> QED
      BY <1>0, <2>0, <3>1 DEF CopySound, SnapshotIsWhole
  <2> QED
    BY <2>1, <2>2
<1>7. CASE Stage(c)
  <2>0. cmd[c] \in Running /\ cmd[c].pc = "stage" /\ snaps' = snaps
    BY <1>7, RunningType DEF Stage, At
  <2>1. CASE End(c)
    BY <1>0, <1>i, <2>0, <2>1, EndOf DEF SnapshotIsWhole
  <2>2. CASE ~End(c)
    <3>1. /\ cmd'[c].pc = (IF trusted THEN "link" ELSE "materialize") /\ cmd'[c].copy = cmd[c].copy
          /\ cmd'[c].target = launch_target
      <4>1. cmd'[c] = [cmd[c] EXCEPT !.target = launch_target, !.exists = entry # None,
                                !.relink = entry # launch_target,
                                !.pc = IF trusted THEN "link" ELSE "materialize"]
        BY <1>7, <2>2, Staged
      <4> QED
        BY <2>0, <4>1 DEF Running
    <3>2. ~trusted => launch_target \in Versions
      BY DEF launch_target, closure_launch_is_trusted, plan_runtime_snapshot, PolicyType
    <3> QED
      BY <1>0, <2>0, <3>1, <3>2 DEF CopySound, SnapshotIsWhole
  <2> QED
    BY <2>1, <2>2
<1>8. CASE CopyRoot(c)
  <2>0. cmd[c] \in Running /\ cmd[c].pc \in {"materialize", "copy"} /\ snaps' = snaps
    BY <1>8, RunningType DEF CopyRoot, At, files
  <2>1. /\ cmd'[c].pc = (IF cmd[c].copy = <<>> THEN "copy" ELSE "verify")
        /\ cmd'[c].copy = Append(cmd[c].copy, source) /\ cmd'[c].target = cmd[c].target
    BY <1>8, <2>0, Copied DEF Running
  <2>2. Len(cmd'[c].copy) = Len(cmd[c].copy) + 1 /\ cmd[c].copy \in Seq(Versions)
    BY <2>0, <2>1 DEF Running, PolicyType
  <2>3. cmd[c].target \in Versions /\ (cmd[c].copy = <<>> \/ Len(cmd[c].copy) = 1)
    BY <1>0, <2>0 DEF CopySound
  <2>4. Len(<<>>) = 0
    OBVIOUS
  <2>5. CASE cmd[c].copy = <<>>
    BY <1>0, <2>0, <2>1, <2>2, <2>3, <2>4, <2>5 DEF CopySound, SnapshotIsWhole
  <2>6. CASE cmd[c].copy # <<>>
    BY <1>0, <2>0, <2>1, <2>2, <2>3, <2>6 DEF CopySound, SnapshotIsWhole
  <2> QED
    BY <2>5, <2>6
<1> QED
  BY <1>1, <1>2, <1>3, <1>4, <1>5, <1>6, <1>7, <1>8 DEF ActsOn, Step

LEMMA SnapshotKeeps ==
    ASSUME PolicyType, SnapshotInv, [Next]_vars
    PROVE  SnapshotInv'
<1>1. CASE UNCHANGED vars \/ Hosts
  <2>1. UNCHANGED <<cmd, snaps>>
    BY <1>1, HostLeaves DEF vars, files
  <2> QED
    BY <2>1 DEF SnapshotInv, SnapshotIsWhole, CopySound, At
<1>2. ASSUME NEW c \in Commands, ActsOn(c) PROVE SnapshotInv'
  <2>0. /\ CopySound(cmd[c])' /\ SnapshotIsWhole'
        /\ cmd'[c].pc = "seal" => PublishSnapshot(c) /\ snaps[cmd'[c].target] = None
        /\ \A d \in Versions : snaps'[d] = snaps[d] \/ (snaps[d] = None /\ snaps'[d] # None) \/
                               (SealSnapshot(c) /\ d = cmd[c].target)
    BY <1>2, OwnCopy
  <2>1. \A d \in Commands : d # c => cmd'[d] = cmd[d]
    BY <1>2, ActMoves DEF PolicyType
  <2>2. ASSUME NEW d \in Commands, d # c PROVE CopySound(cmd[d])'
    <3>0. CopySound(cmd[d]) /\ cmd'[d] = cmd[d]
      BY <2>1, <2>2 DEF SnapshotInv
    <3>1. ASSUME cmd[d].pc = "seal" PROVE snaps'[cmd[d].target] # None
      <4>1. cmd[d].target \in Versions /\ snaps[cmd[d].target] # None
        BY <3>0, <3>1 DEF CopySound
      <4>2. ~(SealSnapshot(c) /\ cmd[d].target = cmd[c].target)
        BY <2>2, <3>1 DEF SnapshotInv, SealSnapshot, At
      <4> QED
        BY <2>0, <4>1, <4>2
    <3> QED
      BY <3>0, <3>1 DEF CopySound
  <2>3. ASSUME NEW d \in Commands, d # c, cmd'[d].pc = "seal", cmd'[c].pc = "seal"
        PROVE  cmd'[d].target # cmd'[c].target
    BY <2>0, <2>1, <2>3 DEF SnapshotInv, CopySound
  <2>4. \A d, e \in Commands :
          cmd'[d].pc = "seal" /\ cmd'[e].pc = "seal" /\ cmd'[d].target = cmd'[e].target => d = e
    BY <2>1, <2>3 DEF SnapshotInv, At
  <2> QED
    BY <2>0, <2>2, <2>4 DEF SnapshotInv, At
<1> QED
  BY <1>1, <1>2, NextSplit

-----------------------------------------------------------------------------
(* Launches. *)

LEMMA LoadedStays ==
    ASSUME PolicyType, NEW p, Loaded(p), p \in Policies \cup {None},
           policy' = policy \/ (policy' \in Policies /\ policy' # None /\ Advances)
    PROVE  Loaded(p)'
<1>1. CASE policy' = policy
  BY <1>1 DEF Loaded
<1>2. CASE policy' # policy /\ p # None
  <2>1. p \in Policies /\ policy \in Policies /\ policy # None /\ p.revision <= policy.revision
    BY <1>2 DEF Loaded, PolicyType
  <2>2. p.revision \in Nat /\ policy.revision \in Nat
    BY <2>1 DEF Policies
  <2>3. policy'.revision = policy.revision + 1
    BY <1>2, <2>1 DEF Advances
  <2>4. p.revision < policy'.revision
    BY <2>1, <2>2, <2>3
  <2>5. p.revision <= policy'.revision /\ p.revision # policy'.revision
    BY <2>2, <2>3, <2>4
  <2> QED
    BY <1>2, <2>1, <2>5 DEF Loaded
<1>3. CASE p = None
  BY <1>3 DEF Loaded
<1> QED
  BY <1>1, <1>2, <1>3

LEMMA LaunchKeeps ==
    ASSUME PolicyType, UpdateInv, SnapshotInv, LaunchInv, [Next]_vars
    PROVE  LaunchInv'
<1>0. Advances
  BY PolicyAdvances
<1>a. plan # None => plan.admitted \in Policies
  BY DEF LaunchInv, Loaded
<1>1. CASE UNCHANGED service /\ (policy' = policy \/ (policy' \in Policies /\ policy' # None))
  <2>1. Loaded(daemon)' /\ UNCHANGED <<daemon, plan, launched>>
    <3>1. UNCHANGED <<daemon, plan, launched>>
      BY <1>1 DEF service
    <3>2. Loaded(daemon) /\ daemon \in Policies \cup {None}
      BY DEF LaunchInv, PolicyType
    <3>3. ASSUME NEW p \in Policies \cup {None}, Loaded(p) PROVE Loaded(p)'
      BY <1>0, <1>1, <3>3, LoadedStays
    <3> QED
      BY <3>1, <3>2, <3>3 DEF Loaded
  <2>2. plan # None => Loaded(plan.admitted)'
    <3>1. ASSUME NEW p \in Policies \cup {None}, Loaded(p) PROVE Loaded(p)'
      BY <1>0, <1>1, <3>1, LoadedStays
    <3>2. plan # None => Loaded(plan.admitted) /\ plan.admitted \in Policies \cup {None}
      BY <1>a DEF LaunchInv
    <3> QED
      BY <2>1, <3>1, <3>2 DEF Loaded
  <2> QED
    BY <2>1, <2>2 DEF LaunchInv, LaunchIsAuthorized, Loaded
<1>2. ASSUME NEW c \in Commands, ActsOn(c) PROVE LaunchInv'
  <2>1. UNCHANGED service
    BY <1>2, ActMoves
  <2>2. CASE ActivatePolicy(c)
    <3>1. cmd[c] \in Running /\ cmd[c].update # None /\ policy' = cmd[c].update
      BY <2>2, RunningType DEF ActivatePolicy, At, UpdateInv, UpdateSound
    <3>2. policy' \in Policies /\ policy' # None
      BY <3>1 DEF Running
    <3> QED
      BY <1>1, <2>1, <3>2
  <2> QED
    BY <1>1, <1>2, <2>1, <2>2, ActWrites
<1>3. CASE \E v \in Versions : UpgradeHarness(v)
  BY <1>1, <1>3 DEF UpgradeHarness, files
<1>4. CASE \E o \in Options : EditPolicy(o)
  BY <1>1, <1>4, EditType
<1>5. CASE StartDaemon
  <2>1. policy # None /\ policy \in Policies /\ daemon' = policy /\ UNCHANGED <<policy, plan, launched>>
    BY <1>5 DEF StartDaemon, valid_policy, PolicyType, KeepHost, files
  <2>2. policy.revision \in Nat
    BY <2>1 DEF Policies
  <2>3. Loaded(daemon)'
    BY <2>1, <2>2 DEF Loaded
  <2> QED
    BY <2>1, <2>3 DEF LaunchInv, Loaded, LaunchIsAuthorized
<1>6. CASE StopDaemon
  BY <1>6 DEF StopDaemon, KeepHost, files, LaunchInv, Loaded, LaunchIsAuthorized
<1>7. ASSUME NEW s \in PlanShapes, NEW r \in 1 .. MaxRevision, NEW t \in Versions \cup {Installed},
             NEW x \in now + 1 .. now + MaxTtl, AdmitPlan(s, r, t, x)
      PROVE  LaunchInv'
  <2> DEFINE pl == s @@ [revision |-> r, command |-> t, expires |-> x]
  <2> HIDE DEF pl
  <2>1. /\ daemon # None /\ validate_json(daemon, pl, now)
        /\ plan' = [document |-> pl, admitted |-> daemon] /\ launched' = None
        /\ UNCHANGED <<daemon, policy>>
    BY <1>7 DEF AdmitPlan, pl, KeepHost, files
  <2>2. pl.revision = daemon.revision
    BY <2>1 DEF validate_json, same_revision
  <2>3. plan'.document = pl /\ plan'.admitted = daemon
    BY <2>1
  <2> QED
    BY <2>1, <2>2, <2>3 DEF LaunchInv, Loaded, LaunchIsAuthorized
<1>8. CASE Launch
  <2> DEFINE doc == plan.document
  <2>1. /\ daemon # None /\ plan # None /\ validate_json(daemon, doc, now) /\ plan' = None
        /\ daemon.target \in Versions => snaps[daemon.target] # None
        /\ UNCHANGED <<daemon, policy>>
    BY <1>8 DEF Launch, KeepHost, files
  <2>2. /\ launched'.admitted = plan.admitted /\ launched'.document = doc /\ launched'.at = now
        /\ launched'.launch = resolve_runtime_launch_json(daemon, doc)
        /\ launched'.ran = IF daemon.target = Installed THEN <<>> ELSE snaps[daemon.target].content
    BY <1>8 DEF Launch
  <2>3. /\ launched'.launch.policy = daemon /\ launched'.launch.target = daemon.target
        /\ launched'.launch.egress = {doc.egress} \cap daemon.options.egress
    BY <2>2 DEF resolve_runtime_launch_json
  <2>4. doc.revision = daemon.revision /\ doc.expires > now /\ doc.command = daemon.target
    BY <2>1 DEF validate_json, same_revision, runtime_template
  <2>5. daemon = plan.admitted
    BY <2>1, <2>4 DEF LaunchInv
  <2>6. daemon.target \in Versions => snaps[daemon.target].content = <<daemon.target, daemon.target>>
    BY <2>1 DEF SnapshotInv, SnapshotIsWhole
  <2>7. launched'.at < launched'.document.expires
    BY <2>2, <2>4
  <2>8. LaunchIsAuthorized'
    BY <2>2, <2>3, <2>4, <2>5, <2>6, <2>7, NoneIsNone DEF LaunchIsAuthorized
  <2> QED
    BY <2>1, <2>8 DEF LaunchInv, Loaded
<1>9. CASE DropPlan
  BY <1>9 DEF DropPlan, KeepHost, files, LaunchInv, Loaded, LaunchIsAuthorized
<1>10. CASE Tick
  BY <1>10 DEF Tick, KeepHost, files, LaunchInv, Loaded, LaunchIsAuthorized
<1>11. CASE UNCHANGED vars
  BY <1>1, <1>11 DEF vars, files
<1> QED
  BY <1>2, <1>3, <1>4, <1>5, <1>6, <1>7, <1>8, <1>9, <1>10, <1>11, NextSplit DEF Hosts

LEMMA PolicyStart == Init => PolicyInv
<1> SUFFICES ASSUME Init PROVE PolicyInv
  OBVIOUS
<1>1. \A c \in Commands : cmd[c] = Idle
  BY DEF Init
<1>2. PolicyType
  BY DEF Init, PolicyType
<1>3. UpdateInv
  BY <1>1, IdleIsIdle DEF UpdateInv, LockHeld, UpdateSound
<1>4. SnapshotInv
  BY <1>1, IdleIsIdle DEF Init, SnapshotInv, SnapshotIsWhole, CopySound, At
<1>5. LaunchInv
  BY DEF Init, LaunchInv, Loaded, LaunchIsAuthorized
<1> QED
  BY <1>2, <1>3, <1>4, <1>5 DEF PolicyInv

LEMMA PolicyKeeps == PolicyInv /\ [Next]_vars => PolicyInv' /\ Advances
BY PolicyTypeKeeps, UpdateKeeps, SnapshotKeeps, LaunchKeeps, PolicyAdvances DEF PolicyInv

\* Through overlapping policy commands, upgrades of the harness while it is
\* copied, failing calls, crashes and daemon restarts: only the holder of the
\* update lock may rewrite the policy, a published snapshot is whole, and a plan
\* is launched only as it was authorized.
THEOREM PolicyInvariant == Spec => []PolicyInv
BY PolicyStart, PolicyKeeps, PTL DEF Spec

\* Every change of the policy file takes exactly the next revision, whatever
\* commands prepared an update before the lock was theirs.
THEOREM PolicyRevisionsAdvance == Spec => RevisionsAdvance
<1>1. PolicyInv /\ [Next]_vars => [Advances]_vars
  BY PolicyKeeps
<1> QED
  BY <1>1, PolicyInvariant, PTL DEF Spec, RevisionsAdvance, Advances


-----------------------------------------------------------------------------
(* Setup.                                                                  *)

FileStates == [Files -> FileRecs \cup {Absent}]
SetupSteps == {"existing", "migrate", "validate", "audit_key", "policy", "config"} \cup Dirs
ActRecs ==
    [kind : {"setup", "adopt", "cleanup"},
     pc : SetupSteps \cup {"ledger", "write", "undo", "adopt", "confirm", "remove"},
     fresh : BOOLEAN, migrate : BOOLEAN, created : SUBSET {"audit_key", "policy", "config"},
     dirs : Seq(Dirs), 
     todo : Seq(Paths) \cup Seq([path : Paths, status : {"absent", "retained", "removable", "blocked"}]),
     ledger : Seq(Resources), before : FileStates]

\* A file of somebody else that setup could take for one it wrote.
Foreign(f) == f # Absent /\ f.by # "setup" /\ f.content # "other"
\* One key at most is on record, and what it says is owned was setup's.
LedgerSound(f, entries) ==
    /\ \A i, j \in DOMAIN entries : entries[i].digest \in Keys /\ entries[j].digest \in Keys => i = j
    /\ \A i \in DOMAIN entries :
         /\ entries[i].path \in Files => entries[i].digest # Absent
         /\ entries[i].owned /\ entries[i].path \in Files =>
              entries[i].digest # "other" /\ ~Foreign(f[entries[i].path])

HostInv ==
    /\ file \in FileStates /\ dirs \in SUBSET Dirs /\ installed \in BOOLEAN
    /\ edits \in Nat /\ setupFaults \in Nat
    /\ Content("config") \in {"absent", "torn", "current", "volatile", "other"}
    /\ Content("audit_key") \in {"absent", "torn"} \cup Keys
    /\ Content("policy") \in {"absent", "torn", "expected", "other"}
    /\ file["ledger"] # Absent => file["ledger"].by = "setup" /\ LedgerSound(file, file["ledger"].entries)
    /\ file["audit_key"] # Absent => "state_dir" \in dirs
    /\ SuccessIsUsable

\* The file being written, or about to be.
Writing(p) == act.pc = "write" /\ act.todo = <<p>>
Filing(p) == act.pc = p \/ Writing(p)
Late == {"audit_key", "policy", "config", "ledger", "write"}
\* Where a setup stands says what it has found and made.
StageInv ==
    /\ act.pc \in SetupSteps \cup {"undo"} => act.kind = "setup"
    /\ act.pc = "adopt" => act.kind = "adopt"
    /\ act.fresh => act.kind = "setup"
    /\ act.pc \in {"confirm", "remove"} => act.kind = "cleanup"
    /\ act.pc \in {"ledger", "write"} => act.kind \in {"setup", "adopt"}
    /\ act.pc = "write" =>
         \E p \in Files : act.todo = <<p>> /\ file[p] = Torn /\ (act.kind = "adopt" => p = "ledger")
    /\ act.pc = "remove" =>
         /\ ~installed /\ act.todo \in Seq(Paths) /\ act.todo # <<>>
         /\ \A p \in Files \cap Range(act.todo) : file[p] # Absent => file[p].by = "setup"
    /\ act.kind = "setup" =>
         /\ act.pc \in {"runtime_dir", "state_dir", "materializations"} \cup Late => "config_dir" \in dirs
         /\ act.pc \in {"materializations", "migrate"} \cup Late => "runtime_dir" \in dirs
         /\ act.pc \in Late => "state_dir" \in dirs
    /\ act.kind = "setup" /\ act.fresh =>
         /\ ~installed /\ act.pc \notin {"existing", "migrate", "validate"} /\ ~act.migrate
         /\ act.pc \in {"runtime_dir", "materializations"} => "state_dir" \in dirs
         /\ act.pc \in Dirs \/ Filing("audit_key") \/ Filing("policy") \/ act.pc = "config" =>
              file["config"] = Absent
         /\ Filing("policy") \/ Filing("config") \/ Filing("ledger") => valid_audit_key
         /\ Filing("config") \/ Filing("ledger") => Content("policy") = "expected"
         /\ Filing("ledger") => Content("config") = "current"
    /\ act.kind = "setup" /\ ~act.fresh =>
         /\ act.pc \notin {"state_dir", "audit_key", "policy", "config", "undo"}
         /\ act.pc = "existing" => Content("config") = (IF act.migrate THEN "volatile" ELSE "current")
         /\ act.pc = "migrate" => act.migrate /\ Content("config") = "volatile"
         /\ act.pc \notin {"existing", "migrate"} => Content("config") = "current"
         /\ act.pc \in Dirs \cup {"ledger", "write"} => valid_audit_key /\ Content("policy") = "expected"
         /\ act.pc = "write" => Writing("ledger")

\* A setup has changed only what it created, and what it created was not there.
CreatedInv ==
    act.kind = "setup" =>
      /\ act.pc \in Dirs \/ Filing("audit_key") \/ ~act.fresh => act.created = {}
      /\ Filing("policy") => act.created \subseteq {"audit_key"}
      /\ Filing("config") => "config" \notin act.created
      /\ \A p \in act.created : act.before[p] = Absent
      /\ act.pc # "undo" =>
           \A p \in Files :
             /\ p \in act.created => file[p] # Absent /\ file[p].by = "setup"
             /\ Writing(p) => act.before[p] = Absent
             /\ \/ file[p] = act.before[p] \/ p \in act.created \/ Writing(p)
                \/ p = "config" /\ act.migrate /\ Content(p) = "current"
      /\ act.pc = "undo" =>
           /\ act.todo \in Seq(Paths) /\ act.todo # <<>>
           /\ \A p \in Files :
                /\ file[p] = act.before[p] \/ p \in Range(act.todo)
                /\ p \in Range(act.todo) =>
                     act.before[p] = Absent /\ (file[p] # Absent => file[p].by = "setup")

CommandInv == act \in ActRecs /\ LedgerSound(file, act.ledger) /\ StageInv /\ CreatedInv
SetupInv == HostInv /\ (act = NoCommand \/ CommandInv)

\* What a step of setup must not do, besides breaking the invariant.
OwnStep ==
    \A p \in Files :
      file[p] # Absent /\ file'[p] = Absent /\ edits' = edits => file[p].by = "setup"
CleanStep ==
    act.pc # "idle" /\ act'.pc = "idle" /\ setupFaults' = setupFaults
      /\ act.kind = "setup" /\ result' = "refused" =>
      \A p \in Files : \/ file'[p] = act.before[p]
                       \/ p = "config" /\ act.migrate /\ file'[p].content = "current"
SetupGoal == SetupInv' /\ OwnStep /\ CleanStep

LEMMA NoFileIsAbsent ==
    /\ Absent \notin Texts /\ Absent \notin FileRecs /\ Torn \in FileRecs /\ Torn # Absent
    /\ Torn.content = "torn" /\ Torn.by = "setup" /\ Torn.entries = <<>>
<1>1. <<>> \in Seq(Resources)
  BY EmptySequence
<1>2. Torn \in FileRecs /\ Torn.content = "torn" /\ Torn.by = "setup" /\ Torn.entries = <<>>
  BY <1>1 DEF Torn, FileRecs, Texts
<1> QED
  BY <1>2, SetupAssumption

LEMMA InCommand ==
    ASSUME SetupInv, act.pc # "idle"
    PROVE  HostInv /\ CommandInv /\ act \in ActRecs
BY DEF SetupInv, CommandInv, NoCommand

LEMMA FileFacts ==
    ASSUME HostInv, NEW p \in Files
    PROVE  /\ file[p] \in FileRecs \cup {Absent} /\ Content(p) \in Texts
           /\ Content(p) = "absent" <=> file[p] = Absent
           /\ file[p] # Absent => Content(p) = file[p].content
<1>1. file[p] \in FileRecs \cup {Absent}
  BY DEF HostInv, FileStates
<1>2. file[p] \in FileRecs => file[p].content \in Texts /\ file[p].content # "absent"
  BY DEF FileRecs
<1>3. "absent" \in Texts
  BY DEF Texts
<1> QED
  BY <1>1, <1>2, <1>3 DEF Content

\* A ledger that is sound stays so while no foreign file appears.
LEMMA LedgerKept ==
    ASSUME NEW entries \in Seq(Resources), NEW f, NEW g, LedgerSound(f, entries),
           \A p \in Files : Foreign(g[p]) => Foreign(f[p])
    PROVE  LedgerSound(g, entries)
<1>1. \A i \in DOMAIN entries : entries[i] \in Resources
  OBVIOUS
<1> QED
  BY <1>1 DEF LedgerSound, Resources, Paths

\* The host, when no file changes and no directory goes.
LEMMA HostKept ==
    ASSUME HostInv, file' = file, dirs' \in SUBSET Dirs, dirs \subseteq dirs',
           installed' = installed, result' = result \/ result' = "refused",
           edits' \in Nat, setupFaults' \in Nat
    PROVE  HostInv' /\ OwnStep
BY DEF HostInv, OwnStep, Content, LedgerSound, SuccessIsUsable, Usable, load_config, valid_audit_key,
       load_setup_ledger, Readable

\* A command that ends.
LEMMA Ended ==
    ASSUME HostInv', OwnStep, act' = NoCommand,
           act.pc # "idle" /\ act.kind = "setup" /\ result' = "refused" /\ setupFaults' = setupFaults =>
             \A p \in Files : \/ file'[p] = act.before[p]
                              \/ p = "config" /\ act.migrate /\ file'[p].content = "current"
    PROVE  SetupGoal
BY DEF SetupGoal, SetupInv, CleanStep

\* One that goes on.
LEMMA GoesOn ==
    ASSUME HostInv', OwnStep, CommandInv'
    PROVE  SetupGoal
<1>1. act'.pc # "idle"
  BY DEF CommandInv, ActRecs, SetupSteps, Dirs
<1> QED
  BY <1>1 DEF SetupGoal, SetupInv, CleanStep

\* An error where nothing is undone: nothing was created.
LEMMA Refused0 ==
    ASSUME SetupInv, act.pc \in SetupSteps \cup {"ledger", "adopt", "confirm"},
           act.kind = "setup" => act.created = {}, Return("refused"), file' = file,
           dirs' \in SUBSET Dirs, dirs \subseteq dirs', edits' = edits, setupFaults' \in Nat
    PROVE  SetupGoal
<1>0. act.pc # "idle" /\ act.pc # "undo" /\ act.pc # "write"
  BY DEF SetupSteps, Dirs
<1>1. HostInv /\ CommandInv /\ act \in ActRecs
  BY <1>0, InCommand
<1>2. act' = NoCommand /\ installed' = installed /\ (result' = result \/ result' = "refused")
  BY <1>1 DEF Return, HostInv
<1>3. HostInv' /\ OwnStep
  BY <1>1, <1>2, HostKept DEF HostInv
<1>4. act.kind = "setup" =>
        \A p \in Files : file[p] = act.before[p] \/ (p = "config" /\ act.migrate /\ Content(p) = "current")
  BY <1>0, <1>1 DEF CommandInv, CreatedInv, Writing
<1>5. Content("config") = "current" => file["config"].content = "current"
  BY DEF Content
<1> QED
  BY <1>2, <1>3, <1>4, <1>5, Ended

Pcs == SetupSteps \cup {"ledger", "write", "undo", "adopt", "confirm", "remove"}

\* The command goes on at another place; its directories are counted on the way.
LEMMA Moved ==
    ASSUME HostInv, act \in ActRecs, LedgerSound(file, act.ledger), NEW pc \in Pcs, NEW made \in Seq(Dirs),
           act' = [act EXCEPT !.pc = pc, !.dirs = made],
           \A p \in Files : Foreign(file'[p]) => Foreign(file[p])
    PROVE  /\ act' \in ActRecs /\ LedgerSound(file', act'.ledger) /\ act'.pc = pc /\ act'.ledger = act.ledger
           /\ act'.kind = act.kind /\ act'.fresh = act.fresh /\ act'.migrate = act.migrate
           /\ act'.created = act.created /\ act'.todo = act.todo /\ act'.before = act.before
<1>1. /\ act' \in ActRecs /\ act'.pc = pc /\ act'.ledger = act.ledger
      /\ act'.kind = act.kind /\ act'.fresh = act.fresh /\ act'.migrate = act.migrate
      /\ act'.created = act.created /\ act'.todo = act.todo /\ act'.before = act.before
  BY DEF ActRecs, Pcs
<1>2. act.ledger \in Seq(Resources)
  BY DEF ActRecs
<1>3. LedgerSound(file', act'.ledger)
  BY <1>1, <1>2, LedgerKept
<1> QED
  BY <1>1, <1>3

LEMMA CountDirs ==
    ASSUME act \in ActRecs, NEW d \in Dirs
    PROVE  Ensured(d) \in Seq(Dirs) /\ act.dirs \in Seq(Dirs)
BY DEF Ensured, ActRecs

LEMMA ContinueIs ==
    ASSUME act \in ActRecs, NEW pc, Continue(pc)
    PROVE  act' = [act EXCEPT !.pc = pc, !.dirs = act.dirs] /\ result' = result /\ installed' = installed
BY DEF Continue, ActRecs

LEMMA ExistingKeeps ==
    ASSUME SetupInv, existing_config
    PROVE  SetupGoal
<1>0. HostInv /\ CommandInv /\ act \in ActRecs /\ act.pc = "existing"
  BY InCommand DEF existing_config, AtStep
<1>1. file' = file /\ edits' = edits /\ setupFaults' = setupFaults
  BY DEF existing_config, KeepHostEnv, counts
<1>2. act.kind = "setup" /\ ~act.fresh /\ act.created = {}
  BY <1>0 DEF CommandInv, StageInv, CreatedInv, SetupSteps, ActRecs
<1>3. CASE Return("refused") /\ dirs' = dirs
  BY <1>0, <1>1, <1>2, <1>3, Refused0 DEF HostInv, SetupSteps
<1>4. CASE \E pc \in {"migrate", "validate"}, made \in Seq(Dirs) :
             /\ act' = [act EXCEPT !.pc = pc, !.dirs = made] /\ result' = result /\ installed' = installed
             /\ dirs' = dirs \cup (IF pc = "migrate" THEN {"runtime_dir"} ELSE {})
             /\ act.migrate = (pc = "migrate")
  <2>1. PICK pc \in {"migrate", "validate"}, made \in Seq(Dirs) :
             /\ act' = [act EXCEPT !.pc = pc, !.dirs = made] /\ result' = result /\ installed' = installed
             /\ dirs' = dirs \cup (IF pc = "migrate" THEN {"runtime_dir"} ELSE {})
             /\ act.migrate = (pc = "migrate")
    BY <1>4
  <2>2. pc \in Pcs
    BY <2>1 DEF Pcs, SetupSteps
  <2>3. HostInv' /\ OwnStep
    BY <1>0, <1>1, <2>1, HostKept DEF HostInv, Dirs
  <2>4. /\ act' \in ActRecs /\ LedgerSound(file', act'.ledger) /\ act'.pc = pc
        /\ act'.kind = act.kind /\ act'.fresh = act.fresh /\ act'.migrate = act.migrate
        /\ act'.created = act.created /\ act'.todo = act.todo /\ act'.before = act.before
    BY <1>0, <1>1, <2>1, <2>2, Moved DEF CommandInv
  <2>5. StageInv'
    BY <1>0, <1>1, <1>2, <2>1, <2>4 DEF CommandInv, StageInv, SetupSteps, Late, Dirs, Filing, Writing, Content
  <2>6. CreatedInv'
    BY <1>0, <1>1, <1>2, <2>1, <2>4 DEF CommandInv, CreatedInv, Dirs, Filing, Writing, Content
  <2> QED
    BY <2>3, <2>4, <2>5, <2>6, GoesOn DEF CommandInv
<1>5. act.migrate \in BOOLEAN /\ act.dirs \in Seq(Dirs) /\ Ensured("runtime_dir") \in Seq(Dirs)
  BY <1>0, CountDirs DEF ActRecs, Dirs
<1> QED
  BY <1>0, <1>3, <1>4, <1>5, ContinueIs DEF existing_config

\* A command that goes on without touching a file.
LEMMA MovesOn ==
    ASSUME SetupInv, act.pc # "idle", NEW pc \in Pcs, NEW made \in Seq(Dirs),
           act' = [act EXCEPT !.pc = pc, !.dirs = made], result' = result, installed' = installed,
           file' = file, dirs' \in SUBSET Dirs, dirs \subseteq dirs', edits' = edits,
           setupFaults' = setupFaults
    PROVE  /\ HostInv /\ CommandInv /\ HostInv' /\ OwnStep
           /\ act \in ActRecs /\ act' \in ActRecs /\ LedgerSound(file', act'.ledger) /\ act'.pc = pc
           /\ act'.kind = act.kind /\ act'.fresh = act.fresh /\ act'.migrate = act.migrate
           /\ act'.created = act.created /\ act'.todo = act.todo /\ act'.before = act.before
           /\ StageInv' /\ CreatedInv' => SetupGoal
<1>1. HostInv /\ CommandInv /\ act \in ActRecs
  BY InCommand
<1>2. HostInv' /\ OwnStep
  BY <1>1, HostKept DEF HostInv
<1>3. /\ act' \in ActRecs /\ LedgerSound(file', act'.ledger) /\ act'.pc = pc
      /\ act'.kind = act.kind /\ act'.fresh = act.fresh /\ act'.migrate = act.migrate
      /\ act'.created = act.created /\ act'.todo = act.todo /\ act'.before = act.before
  BY <1>1, Moved DEF CommandInv
<1> QED
  BY <1>1, <1>2, <1>3, GoesOn DEF CommandInv

LEMMA MigrateKeeps ==
    ASSUME SetupInv, migrate
    PROVE  SetupGoal
<1>0. HostInv /\ CommandInv /\ act \in ActRecs /\ act.pc = "migrate"
  BY InCommand DEF migrate, AtStep
<1>1. /\ edits' = edits /\ setupFaults' = setupFaults /\ dirs' = dirs
      /\ file' = [file EXCEPT !["config"].content = "current"]
      /\ act' = [act EXCEPT !.pc = "validate", !.dirs = act.dirs] /\ result' = result
      /\ installed' = installed
  BY <1>0, ContinueIs DEF migrate, KeepHostEnv, counts
<1>2. act.kind = "setup" /\ ~act.fresh /\ act.created = {} /\ act.migrate /\ Content("config") = "volatile"
      /\ "runtime_dir" \in dirs
  BY <1>0 DEF CommandInv, StageInv, CreatedInv, SetupSteps, ActRecs
<1>3. file["config"] \in FileRecs /\ file["config"].content = "volatile" /\ file["config"] # Absent
  BY <1>0, <1>2, FileFacts, NoFileIsAbsent DEF Files
<1>4. /\ file' \in FileStates /\ file'["config"] \in FileRecs /\ file'["config"].content = "current"
      /\ file'["config"].by = file["config"].by /\ \A p \in Files : p # "config" => file'[p] = file[p]
  BY <1>0, <1>1, <1>3 DEF HostInv, FileStates, FileRecs, Texts, Files
<1>5. \A p \in Files : Foreign(file'[p]) => Foreign(file[p])
  BY <1>3, <1>4 DEF Foreign
<1>6. file["ledger"] # Absent => LedgerSound(file', file["ledger"].entries)
  <2>1. HAVE file["ledger"] # Absent
  <2>2. file["ledger"].entries \in Seq(Resources) /\ LedgerSound(file, file["ledger"].entries)
    BY <1>0, <2>1, FileFacts DEF HostInv, Files, FileRecs
  <2> QED
    BY <1>5, <2>2, LedgerKept
<1>7. file'["config"] # Absent
  BY <1>4, NoFileIsAbsent
<1>8. HostInv'
  BY <1>0, <1>1, <1>2, <1>3, <1>4, <1>6, <1>7 DEF HostInv, Content, SuccessIsUsable, Usable, load_config,
       valid_audit_key, load_setup_ledger, Readable, Files
<1>9. OwnStep
  BY <1>3, <1>4, <1>7 DEF OwnStep
<1>10. /\ act' \in ActRecs /\ LedgerSound(file', act'.ledger) /\ act'.pc = "validate"
       /\ act'.kind = act.kind /\ act'.fresh = act.fresh /\ act'.migrate = act.migrate
       /\ act'.created = act.created /\ act'.todo = act.todo /\ act'.before = act.before
  <2>1. act.dirs \in Seq(Dirs) /\ "validate" \in Pcs /\ LedgerSound(file, act.ledger)
    BY <1>0 DEF ActRecs, Pcs, SetupSteps, CommandInv
  <2> QED
    BY <1>0, <1>1, <1>5, <2>1, Moved
<1>11. StageInv'
  BY <1>0, <1>1, <1>2, <1>4, <1>7, <1>10 DEF CommandInv, StageInv, SetupSteps, Late, Dirs, Filing, Writing, Content
<1>12. CreatedInv'
  BY <1>0, <1>1, <1>2, <1>4, <1>7, <1>10 DEF CommandInv, CreatedInv, Dirs, Filing, Writing, Content
<1> QED
  BY <1>8, <1>9, <1>10, <1>11, <1>12, GoesOn DEF CommandInv

LEMMA MigrationFailsKeeps ==
    ASSUME SetupInv, MigrationFails
    PROVE  SetupGoal
<1>0. HostInv /\ CommandInv /\ act \in ActRecs /\ act.pc = "migrate"
  BY InCommand DEF MigrationFails, AtStep
<1>1. act.kind = "setup" /\ act.created = {}
  BY <1>0 DEF CommandInv, StageInv, CreatedInv, SetupSteps, ActRecs
<1> QED
  BY <1>0, <1>1, Refused0 DEF MigrationFails, HostInv, SetupSteps

LEMMA ValidateKeeps ==
    ASSUME SetupInv, validate_existing
    PROVE  SetupGoal
<1>0. HostInv /\ CommandInv /\ act \in ActRecs /\ act.pc = "validate"
  BY InCommand DEF validate_existing, AtStep
<1>1. file' = file /\ edits' = edits /\ setupFaults' = setupFaults /\ dirs' = dirs
  BY DEF validate_existing, KeepHostEnv, counts
<1>2. act.kind = "setup" /\ ~act.fresh /\ act.created = {} /\ Content("config") = "current"
  BY <1>0 DEF CommandInv, StageInv, CreatedInv, SetupSteps, ActRecs
<1>3. CASE Return("refused")
  BY <1>0, <1>1, <1>2, <1>3, Refused0 DEF HostInv, SetupSteps
<1>4. CASE Continue("config_dir") /\ valid_audit_key /\ Content("policy") = "expected"
  <2>1. act.dirs \in Seq(Dirs) /\ "config_dir" \in Pcs
    BY <1>0 DEF ActRecs, Pcs, SetupSteps, Dirs
  <2>2. act' = [act EXCEPT !.pc = "config_dir", !.dirs = act.dirs] /\ result' = result
        /\ installed' = installed
    BY <1>0, <1>4, ContinueIs
  <2>3. /\ act' \in ActRecs /\ act'.pc = "config_dir"
        /\ act'.kind = act.kind /\ act'.fresh = act.fresh /\ act'.migrate = act.migrate
        /\ act'.created = act.created /\ act'.todo = act.todo /\ act'.before = act.before
        /\ StageInv' /\ CreatedInv' => SetupGoal
    BY <1>0, <1>1, <2>1, <2>2, MovesOn DEF HostInv
  <2>4. StageInv'
    BY <1>0, <1>1, <1>2, <1>4, <2>3 DEF CommandInv, StageInv, SetupSteps, Late, Dirs, Filing, Writing,
         Content, valid_audit_key, Readable
  <2>5. CreatedInv'
    BY <1>0, <1>1, <1>2, <2>3 DEF CommandInv, CreatedInv, Dirs, Filing, Writing, Content
  <2> QED
    BY <2>3, <2>4, <2>5
<1> QED
  BY <1>3, <1>4 DEF validate_existing

LEMMA EnsureKeeps ==
    ASSUME SetupInv, NEW d \in Dirs, ensure_directory(d)
    PROVE  SetupGoal
<1>0. HostInv /\ CommandInv /\ act \in ActRecs /\ act.pc = d
  BY InCommand DEF ensure_directory, AtStep, Dirs
<1>1. /\ file' = file /\ edits' = edits /\ setupFaults' = setupFaults
      /\ dirs \subseteq dirs' /\ dirs' \in SUBSET Dirs
  BY <1>0 DEF ensure_directory, KeepHostEnv, counts, HostInv, Dirs
<1>2. act.kind = "setup" /\ act.created = {}
  BY <1>0 DEF CommandInv, StageInv, CreatedInv, SetupSteps, ActRecs
<1>3. CASE Return("refused")
  BY <1>0, <1>1, <1>2, <1>3, Refused0 DEF HostInv, SetupSteps
<1>4. CASE /\ act' = [act EXCEPT !.pc = AfterDir(d), !.dirs = Ensured(d)]
           /\ UNCHANGED <<result, installed>> /\ d \in dirs'
  <2>0. d = "materializations" => "state_dir" \in dirs'
    BY <1>0, <1>1, <1>2 DEF CommandInv, StageInv, HostInv, Dirs, valid_audit_key, Readable, Content, ActRecs
  <2>1. Ensured(d) \in Seq(Dirs) /\ act.fresh \in BOOLEAN
    BY <1>0, CountDirs DEF ActRecs
  <2>2. /\ d = "config_dir" => AfterDir(d) = (IF act.fresh THEN "state_dir" ELSE "runtime_dir")
        /\ d = "state_dir" => AfterDir(d) = "runtime_dir"
        /\ d = "runtime_dir" => AfterDir(d) = "materializations"
        /\ d = "materializations" => AfterDir(d) = (IF act.fresh THEN "audit_key" ELSE "ledger")
    BY <2>1 DEF AfterDir
  <2>3. AfterDir(d) \in Pcs
    BY <2>2 DEF Pcs, SetupSteps, Dirs
  <2>4. /\ act' \in ActRecs /\ act'.pc = AfterDir(d)
        /\ act'.kind = act.kind /\ act'.fresh = act.fresh /\ act'.migrate = act.migrate
        /\ act'.created = act.created /\ act'.todo = act.todo /\ act'.before = act.before
        /\ StageInv' /\ CreatedInv' => SetupGoal
    BY <1>0, <1>1, <1>4, <2>1, <2>3, MovesOn DEF HostInv, Dirs
  <2>5. StageInv'
    BY <1>0, <1>1, <1>2, <1>4, <2>0, <2>1, <2>2, <2>4 DEF CommandInv, StageInv, SetupSteps, Late, Dirs, Filing,
         Writing, Content, valid_audit_key, Readable
  <2>6. CreatedInv'
    BY <1>0, <1>1, <1>2, <2>1, <2>2, <2>4 DEF CommandInv, CreatedInv, Dirs, Filing, Writing, Content
  <2> QED
    BY <2>4, <2>5, <2>6
<1> QED
  BY <1>3, <1>4 DEF ensure_directory

LEMMA ConcatRange ==
    ASSUME NEW T, NEW s \in Seq(T), NEW t \in Seq(T)
    PROVE  s \o t \in Seq(T) /\ Range(s \o t) = Range(s) \cup Range(t)
<1> DEFINE c == s \o t
<1>1. /\ c \in Seq(T) /\ Len(s) \in Nat /\ Len(t) \in Nat /\ Len(c) = Len(s) + Len(t)
      /\ DOMAIN c = 1 .. Len(c) /\ DOMAIN s = 1 .. Len(s) /\ DOMAIN t = 1 .. Len(t)
      /\ \A i \in 1 .. Len(s) : c[i] = s[i]
      /\ \A i \in 1 .. Len(t) : c[Len(s) + i] = t[i]
  OBVIOUS
<1> HIDE DEF c
<1>2. \A i \in DOMAIN c : i \in DOMAIN s \/ (i - Len(s) \in DOMAIN t /\ c[i] = t[i - Len(s)])
  <2>1. TAKE i \in DOMAIN c
  <2>2. CASE i \in 1 .. Len(s)
    BY <1>1, <2>2
  <2>3. CASE i \notin 1 .. Len(s)
    <3>1. i - Len(s) \in 1 .. Len(t) /\ Len(s) + (i - Len(s)) = i
      BY <1>1, <2>3
    <3> QED
      BY <1>1, <3>1
  <2> QED
    BY <2>2, <2>3
<1>3. ASSUME NEW y \in Range(c) PROVE y \in Range(s) \cup Range(t)
  <2>1. PICK i \in DOMAIN c : y = c[i]
    BY DEF Range
  <2> QED
    BY <1>1, <1>2, <2>1 DEF Range
<1>4. ASSUME NEW y \in Range(s) \cup Range(t) PROVE y \in Range(c)
  <2>1. CASE y \in Range(s)
    <3>1. PICK i \in DOMAIN s : y = s[i]
      BY <2>1 DEF Range
    <3>2. i \in DOMAIN c /\ c[i] = y
      BY <1>1, <3>1
    <3> QED
      BY <3>2 DEF Range
  <2>2. CASE y \in Range(t)
    <3>1. PICK i \in DOMAIN t : y = t[i]
      BY <2>2 DEF Range
    <3>2. Len(s) + i \in DOMAIN c /\ c[Len(s) + i] = y
      BY <1>1, <3>1
    <3> QED
      BY <3>2 DEF Range
  <2> QED
    BY <2>1, <2>2
<1> QED
  BY <1>1, <1>3, <1>4 DEF c

LEMMA ReverseRange ==
    ASSUME NEW T, NEW s \in Seq(T)
    PROVE  /\ Reverse(s) \in Seq(T) /\ Range(Reverse(s)) \subseteq T
           /\ DOMAIN Reverse(s) = DOMAIN s
           /\ \A i \in DOMAIN s : Reverse(s)[i] = s[(Len(s) - i) + 1] /\ (Len(s) - i) + 1 \in DOMAIN s
<1>1. Len(s) \in Nat /\ DOMAIN s = 1 .. Len(s) /\ \A i \in 1 .. Len(s) : s[i] \in T
  OBVIOUS
<1>2. \A i \in 1 .. Len(s) : (Len(s) - i) + 1 \in 1 .. Len(s)
  BY <1>1
<1>3. Reverse(s) \in [1 .. Len(s) -> T] /\ \A i \in 1 .. Len(s) : Reverse(s)[i] = s[(Len(s) - i) + 1]
  BY <1>1, <1>2 DEF Reverse
<1>4. Reverse(s) \in Seq(T)
  BY <1>1, <1>3
<1> QED
  BY <1>1, <1>2, <1>3, <1>4 DEF Range

LEMMA RangeOfFew ==
    /\ Range(<<>>) = {} /\ \A x : Range(<<x>>) = {x}
    /\ \A x, y : Range(<<x, y>>) = {x, y}
    /\ \A x, y, z : Range(<<x, y, z>>) = {x, y, z}
<1>1. Range(<<>>) = {}
  BY DEF Range
<1>2. \A x : Range(<<x>>) = {x}
  BY DEF Range
<1>3. \A x, y : Range(<<x, y>>) = {x, y}
  <2>1. TAKE x, y
  <2>2. DOMAIN <<x, y>> = {1, 2} /\ <<x, y>>[1] = x /\ <<x, y>>[2] = y
    OBVIOUS
  <2> QED
    BY <2>2 DEF Range
<1>4. \A x, y, z : Range(<<x, y, z>>) = {x, y, z}
  <2>1. TAKE x, y, z
  <2>2. DOMAIN <<x, y, z>> = {1, 2, 3} /\ <<x, y, z>>[1] = x /\ <<x, y, z>>[2] = y /\ <<x, y, z>>[3] = z
    OBVIOUS
  <2> QED
    BY <2>2 DEF Range
<1> QED
  BY <1>1, <1>2, <1>3, <1>4

\* What an error undoes: of the files, those among the created ones that are
\* made before it.
LEMMA RollbackIs ==
    ASSUME act \in ActRecs, NEW at \in Files, at = "ledger" => act.fresh
    PROVE  /\ Rollback(at) \in Seq(Paths)
           /\ Range(Rollback(at)) \cap Files =
                act.created \cap (CASE at = "audit_key" -> {} [] at = "policy" -> {"audit_key"}
                                    [] at = "config" -> {"audit_key", "policy"}
                                    [] at = "ledger" -> {"audit_key", "policy", "config"})
<1>0. act.created \in SUBSET {"audit_key", "policy", "config"} /\ act.dirs \in Seq(Dirs)
  BY DEF ActRecs
<1>1. /\ <<"audit_key">> \in Seq(Paths) /\ <<"policy", "audit_key">> \in Seq(Paths)
      /\ <<"config", "policy", "audit_key">> \in Seq(Paths) /\ <<>> \in Seq(Paths)
  BY EmptySequence DEF Paths, Files
<1>2. \A s \in Seq(Paths) : Created(s) \in Seq(Paths) /\ Range(Created(s)) = Range(s) \cap act.created
  BY ThoseFacts DEF Created
<1>3. CASE at = "audit_key"
  <2>1. Rollback(at) = <<>>
    BY <1>3 DEF Rollback
  <2> QED
    BY <1>1, <1>3, <2>1, RangeOfFew
<1>4. CASE at = "policy"
  <2>1. Rollback(at) = Created(<<"audit_key">>)
    BY <1>4 DEF Rollback
  <2>2. Range(<<"audit_key">>) = {"audit_key"}
    BY RangeOfFew
  <2>3. Range(Rollback(at)) = {"audit_key"} \cap act.created /\ Rollback(at) \in Seq(Paths)
    BY <1>1, <1>2, <2>1, <2>2
  <2> QED
    BY <1>4, <2>3 DEF Files
<1>5. CASE at = "config"
  <2>1. Rollback(at) = Created(<<"policy", "audit_key">>)
    BY <1>5 DEF Rollback
  <2>2. Range(<<"policy", "audit_key">>) = {"policy", "audit_key"}
    BY RangeOfFew
  <2>3. Range(Rollback(at)) = {"policy", "audit_key"} \cap act.created /\ Rollback(at) \in Seq(Paths)
    BY <1>1, <1>2, <2>1, <2>2
  <2> QED
    BY <1>5, <2>3 DEF Files
<1>6. CASE at = "ledger"
  <2> DEFINE q == Created(<<"config", "policy", "audit_key">>)
             r == Reverse(act.dirs)
  <2>1. Rollback(at) = q \o r
    BY <1>6 DEF Rollback
  <2>2. Range(<<"config", "policy", "audit_key">>) = {"config", "policy", "audit_key"}
    BY RangeOfFew
  <2>3. q \in Seq(Paths) /\ Range(q) = {"config", "policy", "audit_key"} \cap act.created
    BY <1>1, <1>2, <2>2
  <2>4. r \in Seq(Dirs) /\ Range(r) \subseteq Dirs
    BY <1>0, ReverseRange
  <2>5. r \in Seq(Paths)
    BY <2>4 DEF Paths
  <2> HIDE DEF q, r
  <2>6. Rollback(at) \in Seq(Paths) /\ Range(Rollback(at)) = Range(q) \cup Range(r)
    BY <2>1, <2>3, <2>5, ConcatRange
  <2> QED
    BY <1>6, <2>3, <2>4, <2>6 DEF Files, Dirs
<1> QED
  BY <1>3, <1>4, <1>5, <1>6 DEF Files

\* An error after which what the command created is undone.
LEMMA RefuseKeeps ==
    ASSUME SetupInv, act.pc \in {"policy", "ledger", "write"}, NEW at \in Files, Refuse(at),
           HostInv', OwnStep, dirs' = dirs,
           \A p \in Files : Foreign(file'[p]) => Foreign(file[p]),
           act.kind = "setup" =>
             /\ \A p \in Files :
                  /\ p \in act.created => (file'[p] # Absent => file'[p].by = "setup")
                  /\ \/ file'[p] = act.before[p] \/ p \in act.created
                     \/ p = "config" /\ act.migrate /\ file'[p].content = "current"
             /\ at = "audit_key" => act.created = {}
             /\ at = "policy" => act.created \subseteq {"audit_key"}
             /\ at = "config" => "config" \notin act.created,
           ~act.fresh => at = "ledger"
    PROVE  SetupGoal
<1>0. HostInv /\ CommandInv /\ act \in ActRecs
  BY InCommand
<1>1. /\ act.fresh \in BOOLEAN /\ act.created \in SUBSET {"audit_key", "policy", "config"}
      /\ act.fresh => act.kind = "setup" /\ ~installed /\ ~act.migrate
      /\ act.kind = "setup" /\ ~act.fresh => act.created = {}
      /\ act.kind = "setup" => \A p \in act.created : act.before[p] = Absent
  BY <1>0 DEF ActRecs, CommandInv, StageInv, CreatedInv
<1>2. CASE Return("refused") /\ (act.kind = "setup" => act.created = {})
  <2>1. act' = NoCommand
    BY <1>2 DEF Return
  <2> QED
    BY <1>2, <2>1, Ended
<1>3. CASE ~act.fresh
  <2>1. Rollback(at) = <<>>
    BY <1>3 DEF Rollback
  <2> QED
    BY <1>1, <1>2, <1>3, <2>1 DEF Refuse
<1>4. CASE act.fresh
  <2>1. /\ Rollback(at) \in Seq(Paths) /\ Range(Rollback(at)) \cap Files = act.created
    <3>1. Rollback(at) \in Seq(Paths) /\ Range(Rollback(at)) \cap Files =
                act.created \cap (CASE at = "audit_key" -> {} [] at = "policy" -> {"audit_key"}
                                    [] at = "config" -> {"audit_key", "policy"}
                                    [] at = "ledger" -> {"audit_key", "policy", "config"})
      BY <1>0, <1>4, RollbackIs
    <3>2. act.kind = "setup"
      BY <1>1, <1>4
    <3> QED
      BY <1>1, <3>1, <3>2 DEF Files
  <2>2. CASE Rollback(at) = <<>>
    <3>1. act.created = {}
      BY <2>1, <2>2, EmptySequence
    <3> QED
      BY <1>2, <2>2, <3>1 DEF Refuse
  <2>3. CASE Rollback(at) # <<>>
    <3>1. /\ act' = [act EXCEPT !.pc = "undo", !.todo = Rollback(at)] /\ installed' = installed
      BY <2>3 DEF Refuse
    <3>2. /\ act' \in ActRecs /\ act'.pc = "undo" /\ act'.todo = Rollback(at)
          /\ act'.kind = act.kind /\ act'.fresh = act.fresh /\ act'.migrate = act.migrate
          /\ act'.created = act.created /\ act'.ledger = act.ledger /\ act'.before = act.before
      BY <1>0, <2>1, <3>1 DEF ActRecs
    <3>3. LedgerSound(file', act'.ledger)
      <4>1. act.ledger \in Seq(Resources) /\ LedgerSound(file, act.ledger)
        BY <1>0 DEF ActRecs, CommandInv
      <4> QED
        BY <3>2, <4>1, LedgerKept
    <3>4. StageInv'
      BY <1>1, <1>4, <3>1, <3>2 DEF StageInv, SetupSteps, Dirs, Late, Filing, Writing
    <3>5. CreatedInv'
      BY <1>1, <1>4, <2>1, <2>3, <3>2 DEF CreatedInv, Dirs, Filing, Writing, Files
    <3> QED
      BY <3>2, <3>3, <3>4, <3>5, GoesOn DEF CommandInv
  <2> QED
    BY <2>2, <2>3
<1> QED
  BY <1>1, <1>3, <1>4

\* A file that is created, empty.
LEMMA OpenedIs ==
    ASSUME HostInv, NEW p \in Files, file[p] = Absent, file' = [file EXCEPT ![p] = Torn], dirs' = dirs,
           p = "audit_key" => "state_dir" \in dirs,
           installed' = installed, result' = result, edits' = edits, setupFaults' = setupFaults
    PROVE  /\ HostInv' /\ OwnStep /\ file'[p] = Torn /\ (\A q \in Files : q # p => file'[q] = file[q])
           /\ \A q \in Files : Foreign(file'[q]) => Foreign(file[q])
<1>1. file' \in FileStates /\ file'[p] = Torn /\ \A q \in Files : q # p => file'[q] = file[q]
  BY NoFileIsAbsent DEF HostInv, FileStates
<1>2. \A q \in Files : Foreign(file'[q]) => Foreign(file[q])
  BY <1>1, NoFileIsAbsent DEF Foreign
<1>3. file'["ledger"] # Absent => file'["ledger"].by = "setup" /\ LedgerSound(file', file'["ledger"].entries)
  <2>1. CASE p = "ledger"
    BY <1>1, <2>1, NoFileIsAbsent DEF LedgerSound
  <2>2. CASE p # "ledger" /\ file'["ledger"] # Absent
    <3>1. file["ledger"].entries \in Seq(Resources) /\ LedgerSound(file, file["ledger"].entries)
          /\ file["ledger"].by = "setup" /\ file'["ledger"] = file["ledger"]
      BY <1>1, <2>2, FileFacts DEF HostInv, Files, FileRecs
    <3> QED
      BY <1>2, <3>1, LedgerKept
  <2> QED
    BY <2>1, <2>2
<1>4. \A q \in Files : Content(q)' = IF q = p THEN "torn" ELSE Content(q)
  BY <1>1, NoFileIsAbsent DEF Content
<1>5. Content(p) = "absent"
  BY DEF Content
<1>6. HostInv'
  BY <1>1, <1>3, <1>4, <1>5 DEF HostInv, SuccessIsUsable, Usable, load_config,
       valid_audit_key, load_setup_ledger, Readable, Files
<1>7. OwnStep
  BY <1>1, NoFileIsAbsent DEF OwnStep
<1> QED
  BY <1>1, <1>2, <1>6, <1>7

\* Key, policy and configuration of a fresh setup.
LEMMA SetupOpenKeeps ==
    ASSUME SetupInv, NEW p \in {"audit_key", "policy", "config"}, act.pc = p, OpenFile(p),
           dirs' = dirs, KeepHostEnv
    PROVE  SetupGoal
<1>0. HostInv /\ CommandInv /\ act \in ActRecs /\ p \in Files
  BY InCommand DEF Files
<1>1. /\ file[p] = Absent /\ file' = [file EXCEPT ![p] = Torn]
      /\ act' = [act EXCEPT !.pc = "write", !.todo = <<p>>] /\ UNCHANGED <<result, installed>>
      /\ edits' = edits /\ setupFaults' = setupFaults
  BY DEF OpenFile, KeepHostEnv, counts
<1>2. /\ HostInv' /\ OwnStep /\ file'[p] = Torn /\ (\A q \in Files : q # p => file'[q] = file[q])
      /\ \A q \in Files : Foreign(file'[q]) => Foreign(file[q])
  <2>1. p = "audit_key" => "state_dir" \in dirs
    BY <1>0 DEF CommandInv, StageInv, Late, SetupSteps
  <2> QED
    BY <1>0, <1>1, <2>1, OpenedIs
<1>3. <<p>> \in Seq(Paths)
  BY <1>0 DEF Paths
<1>4. /\ act' \in ActRecs /\ act'.pc = "write" /\ act'.todo = <<p>>
      /\ act'.kind = act.kind /\ act'.fresh = act.fresh /\ act'.migrate = act.migrate
      /\ act'.created = act.created /\ act'.ledger = act.ledger /\ act'.before = act.before
  BY <1>0, <1>1, <1>3 DEF ActRecs
<1>5. LedgerSound(file', act'.ledger)
  <2>1. act.ledger \in Seq(Resources) /\ LedgerSound(file, act.ledger)
    BY <1>0 DEF ActRecs, CommandInv
  <2> QED
    BY <1>2, <1>4, <2>1, LedgerKept
<1>6. act.kind = "setup" /\ act.fresh
  BY <1>0 DEF CommandInv, StageInv, SetupSteps, ActRecs
<1>7. \A q \in Files : Content(q)' = IF q = p THEN "torn" ELSE Content(q)
  BY <1>2, NoFileIsAbsent DEF Content
<1>8. \A q : act'.todo = <<q>> <=> q = p
  BY <1>4
<1>9. StageInv'
  BY <1>0, <1>1, <1>2, <1>4, <1>6, <1>7, <1>8 DEF CommandInv, StageInv, SetupSteps, Late, Dirs, Filing, Writing,
       valid_audit_key, Readable, Files
<1>10. CreatedInv'
  BY <1>0, <1>1, <1>2, <1>4, <1>6, <1>7, <1>8 DEF CommandInv, StageInv, CreatedInv, Dirs, Filing, Writing, Files
<1> QED
  BY <1>2, <1>4, <1>5, <1>9, <1>10, GoesOn DEF CommandInv

LEMMA CreateKeyKeeps ==
    ASSUME SetupInv, create_audit_key
    PROVE  SetupGoal
<1>0. HostInv /\ CommandInv /\ act \in ActRecs /\ act.pc = "audit_key"
  BY InCommand DEF create_audit_key, AtStep
<1>1. CASE OpenFile("audit_key")
  BY <1>0, <1>1, SetupOpenKeeps DEF create_audit_key
<1>2. CASE file' = file /\ ~OpenFile("audit_key")
  <2>1. act.kind = "setup" /\ act.fresh /\ act.created = {}
    BY <1>0 DEF CommandInv, StageInv, CreatedInv, SetupSteps, ActRecs, Filing
  <2>2. edits' = edits /\ setupFaults' = setupFaults /\ dirs' = dirs
    BY DEF create_audit_key, KeepHostEnv, counts
  <2>3. CASE Return("refused")
    BY <1>0, <1>2, <2>1, <2>2, <2>3, Refused0 DEF HostInv, SetupSteps
  <2>4. CASE Continue("policy") /\ valid_audit_key
    <3>1. act.dirs \in Seq(Dirs) /\ "policy" \in Pcs
      BY <1>0 DEF ActRecs, Pcs, SetupSteps, Dirs
    <3>2. act' = [act EXCEPT !.pc = "policy", !.dirs = act.dirs] /\ result' = result
          /\ installed' = installed
      BY <1>0, <2>4, ContinueIs
    <3>3. /\ act' \in ActRecs /\ act'.pc = "policy"
          /\ act'.kind = act.kind /\ act'.fresh = act.fresh /\ act'.migrate = act.migrate
          /\ act'.created = act.created /\ act'.todo = act.todo /\ act'.before = act.before
          /\ StageInv' /\ CreatedInv' => SetupGoal
      BY <1>0, <1>2, <2>2, <3>1, <3>2, MovesOn DEF HostInv
    <3>4. StageInv'
      BY <1>0, <1>2, <2>1, <2>2, <2>4, <3>2, <3>3 DEF CommandInv, StageInv, SetupSteps, Late, Dirs, Filing,
           Writing, Content, valid_audit_key, Readable
    <3>5. CreatedInv'
      BY <1>0, <1>2, <2>1, <2>2, <3>3 DEF CommandInv, CreatedInv, Dirs, Filing, Writing, Content
    <3> QED
      BY <3>3, <3>4, <3>5
  <2> QED
    BY <1>2, <2>3, <2>4 DEF create_audit_key
<1> QED
  BY <1>1, <1>2 DEF create_audit_key

LEMMA CreatePolicyKeeps ==
    ASSUME SetupInv, create_policy
    PROVE  SetupGoal
<1>0. HostInv /\ CommandInv /\ act \in ActRecs /\ act.pc = "policy"
  BY InCommand DEF create_policy, AtStep
<1>1. CASE OpenFile("policy")
  BY <1>0, <1>1, SetupOpenKeeps DEF create_policy
<1>2. CASE file' = file /\ ~OpenFile("policy")
  <2>1. act.kind = "setup" /\ act.fresh /\ act.created \subseteq {"audit_key"} /\ ~act.migrate
    BY <1>0 DEF CommandInv, StageInv, CreatedInv, SetupSteps, ActRecs, Filing
  <2>2. edits' = edits /\ setupFaults' = setupFaults /\ dirs' = dirs
    BY DEF create_policy, KeepHostEnv, counts
  <2>3. CASE Refuse("policy")
    <3>1. installed' = installed /\ (result' = result \/ result' = "refused")
      BY <1>0, <2>3 DEF Refuse, Return, HostInv
    <3>2. HostInv' /\ OwnStep
      BY <1>0, <1>2, <2>2, <3>1, HostKept DEF HostInv
    <3>3. /\ \A p \in Files : p \in act.created => (file[p] # Absent => file[p].by = "setup")
          /\ \A p \in Files : file[p] = act.before[p] \/ p \in act.created
      BY <1>0, <2>1 DEF CommandInv, CreatedInv, Writing
    <3> QED
      BY <1>0, <1>2, <2>1, <2>2, <2>3, <3>2, <3>3, RefuseKeeps DEF Files
  <2>4. CASE Continue("config") /\ Content("policy") = "expected"
    <3>1. act.dirs \in Seq(Dirs) /\ "config" \in Pcs
      BY <1>0 DEF ActRecs, Pcs, SetupSteps, Dirs
    <3>2. act' = [act EXCEPT !.pc = "config", !.dirs = act.dirs] /\ result' = result
          /\ installed' = installed
      BY <1>0, <2>4, ContinueIs
    <3>3. /\ act' \in ActRecs /\ act'.pc = "config"
          /\ act'.kind = act.kind /\ act'.fresh = act.fresh /\ act'.migrate = act.migrate
          /\ act'.created = act.created /\ act'.todo = act.todo /\ act'.before = act.before
          /\ StageInv' /\ CreatedInv' => SetupGoal
      BY <1>0, <1>2, <2>2, <3>1, <3>2, MovesOn DEF HostInv
    <3>4. StageInv'
      BY <1>0, <1>2, <2>1, <2>2, <2>4, <3>2, <3>3 DEF CommandInv, StageInv, SetupSteps, Late, Dirs, Filing,
           Writing, Content, valid_audit_key, Readable
    <3>5. CreatedInv'
      BY <1>0, <1>2, <2>1, <2>2, <3>3 DEF CommandInv, CreatedInv, Dirs, Filing, Writing, Content
    <3> QED
      BY <3>3, <3>4, <3>5
  <2> QED
    BY <1>2, <2>3, <2>4 DEF create_policy
<1> QED
  BY <1>1, <1>2 DEF create_policy

LEMMA CreateConfigKeeps ==
    ASSUME SetupInv, create_config
    PROVE  SetupGoal
BY SetupOpenKeeps DEF create_config, AtStep

\* The ledger setup writes, and the one adoption writes.
LEMMA LedgerMade ==
    ASSUME HostInv, NEW made, NEW owned,
           \A p \in owned \cap {"audit_key", "policy", "config"} :
             Content(p) # "other" /\ file[p].by = "setup"
    PROVE  make_setup_ledger(made, owned) \in Seq(Resources)
           /\ LedgerSound(file, make_setup_ledger(made, owned))
<1> DEFINE m == make_setup_ledger(made, owned)
           dir(d) == Resource(d, d \in made, Absent)
           own(p) == Resource(p, p \in owned, Content(p))
<1>1. ASSUME NEW d \in Dirs PROVE dir(d) \in Resources /\ dir(d).path = d /\ dir(d).digest = Absent
  BY DEF Resource, Resources, Paths
<1>2. ASSUME NEW p \in Files
      PROVE  /\ own(p) \in Resources /\ own(p).path = p /\ own(p).digest = Content(p)
             /\ own(p).owned => p \in owned
  <2>1. Content(p) \in Texts
    BY FileFacts
  <2>2. own(p) \in Resources /\ own(p).path = p /\ own(p).digest = Content(p)
    BY <2>1 DEF Resource, Resources, Paths
  <2>3. own(p).owned <=> p \in owned
    BY DEF Resource
  <2> QED
    BY <2>2, <2>3
<1>3. m = << dir("config_dir"), dir("state_dir"), dir("runtime_dir"), dir("materializations"),
             own("audit_key"), own("policy"), own("config") >>
  BY DEF make_setup_ledger
<1>4. {"config_dir", "state_dir", "runtime_dir", "materializations"} \subseteq Dirs
      /\ {"audit_key", "policy", "config"} \subseteq Files
  BY DEF Dirs, Files
<1> HIDE DEF m, dir, own
<1>5. /\ DOMAIN m = 1 .. 7 /\ m[1] = dir("config_dir") /\ m[2] = dir("state_dir") /\ m[3] = dir("runtime_dir")
      /\ m[4] = dir("materializations") /\ m[5] = own("audit_key") /\ m[6] = own("policy")
      /\ m[7] = own("config")
  BY <1>3
<1>6. m \in Seq(Resources)
  BY <1>1, <1>2, <1>3, <1>4
<1>7. \A i \in DOMAIN m : i \in {1, 2, 3, 4, 5, 6, 7}
  BY <1>5
<1>8. \A i \in {1, 2, 3, 4} : m[i].digest = Absent /\ m[i].path \in Dirs
  BY <1>1, <1>4, <1>5
<1>9. /\ m[5].path = "audit_key" /\ m[6].path = "policy" /\ m[7].path = "config"
      /\ m[5].digest = Content("audit_key") /\ m[6].digest = Content("policy")
      /\ m[7].digest = Content("config")
      /\ m[5].owned => "audit_key" \in owned
      /\ m[6].owned => "policy" \in owned
      /\ m[7].owned => "config" \in owned
  BY <1>2, <1>4, <1>5
<1>10. Content("policy") \notin Keys /\ Content("config") \notin Keys /\ Absent \notin Keys
  BY NoFileIsAbsent DEF HostInv, Keys, Texts
<1>11. \A i \in DOMAIN m : m[i].digest \in Keys => i = 5
  BY <1>7, <1>8, <1>9, <1>10
<1>12. \A p \in Files : Content(p) # Absent
  BY FileFacts, NoFileIsAbsent
<1>13. \A p \in {"audit_key", "policy", "config"} : p \in owned => Content(p) # "other" /\ ~Foreign(file[p])
  BY DEF Foreign
<1>14. \A i \in DOMAIN m :
         /\ m[i].path \in Files => m[i].digest # Absent
         /\ m[i].owned /\ m[i].path \in Files => m[i].digest # "other" /\ ~Foreign(file[m[i].path])
  <2>1. TAKE i \in DOMAIN m
  <2>2. CASE i \in {1, 2, 3, 4}
    BY <1>8, <2>2 DEF Files, Dirs
  <2>3. CASE i \in {5, 6, 7}
    BY <1>9, <1>12, <1>13, <2>3 DEF Files
  <2> QED
    BY <1>7, <2>2, <2>3
<1> QED
  BY <1>6, <1>11, <1>14 DEF LedgerSound, m

LEMMA LedgerStepKeeps ==
    ASSUME SetupInv, write_or_validate_setup_ledger
    PROVE  SetupGoal
<1>0. HostInv /\ CommandInv /\ act \in ActRecs /\ act.pc = "ledger" /\ "ledger" \in Files
  BY InCommand DEF write_or_validate_setup_ledger, AtStep, Files
<1>1. edits' = edits /\ setupFaults' = setupFaults /\ dirs' = dirs
  BY DEF write_or_validate_setup_ledger, KeepHostEnv, counts
<1>2. /\ act.kind \in {"setup", "adopt"} /\ act.fresh \in BOOLEAN
      /\ act.fresh => act.kind = "setup"
      /\ act.created \in SUBSET {"audit_key", "policy", "config"}
      /\ act.kind = "setup" /\ ~act.fresh => act.created = {}
  BY <1>0 DEF CommandInv, StageInv, CreatedInv, ActRecs
<1>3. act.kind = "setup" =>
        /\ Content("config") = "current" /\ Content("policy") = "expected" /\ valid_audit_key
        /\ {"config_dir", "state_dir", "runtime_dir"} \subseteq dirs
        /\ \A p \in Files :
             /\ p \in act.created => file[p] # Absent /\ file[p].by = "setup"
             /\ \/ file[p] = act.before[p] \/ p \in act.created
                \/ p = "config" /\ act.migrate /\ Content(p) = "current"
  <2>1. HAVE act.kind = "setup"
  <2>2. /\ Content("config") = "current" /\ Content("policy") = "expected" /\ valid_audit_key
        /\ {"config_dir", "state_dir", "runtime_dir"} \subseteq dirs
    BY <1>0, <1>2, <2>1 DEF CommandInv, StageInv, Filing, Late, Dirs
  <2>3. \A p \in Files :
             /\ p \in act.created => file[p] # Absent /\ file[p].by = "setup"
             /\ \/ file[p] = act.before[p] \/ p \in act.created
                \/ p = "config" /\ act.migrate /\ Content(p) = "current"
    BY <1>0, <2>1 DEF CommandInv, CreatedInv, Writing
  <2> QED
    BY <2>2, <2>3
<1>4. CASE /\ file["ledger"] = Absent
           /\ file' = [file EXCEPT !["ledger"] = Torn]
           /\ act' = [act EXCEPT !.pc = "write", !.todo = <<"ledger">>,
                        !.ledger = IF act.kind = "adopt" THEN act.ledger
                                   ELSE make_setup_ledger(Range(act.dirs), act.created)]
           /\ UNCHANGED <<result, installed>>
  <2> DEFINE m == IF act.kind = "adopt" THEN act.ledger
                  ELSE make_setup_ledger(Range(act.dirs), act.created)
  <2>1. /\ HostInv' /\ OwnStep /\ file'["ledger"] = Torn
        /\ (\A q \in Files : q # "ledger" => file'[q] = file[q])
        /\ \A q \in Files : Foreign(file'[q]) => Foreign(file[q])
    BY <1>0, <1>1, <1>4, OpenedIs
  <2>2. m \in Seq(Resources) /\ LedgerSound(file, m)
    <3>1. CASE act.kind = "adopt"
      BY <1>0, <3>1 DEF ActRecs, CommandInv
    <3>2. CASE act.kind = "setup"
      <4>1. \A p \in act.created \cap {"audit_key", "policy", "config"} :
              Content(p) # "other" /\ file[p].by = "setup"
        BY <1>0, <1>2, <1>3, <3>2 DEF HostInv, Keys, Files
      <4>2. make_setup_ledger(Range(act.dirs), act.created) \in Seq(Resources)
            /\ LedgerSound(file, make_setup_ledger(Range(act.dirs), act.created))
        BY <1>0, <4>1, LedgerMade
      <4> QED
        BY <3>2, <4>2
    <3> QED
      BY <1>2, <3>1, <3>2
  <2> HIDE DEF m
  <2>3. LedgerSound(file', m)
    BY <2>1, <2>2, LedgerKept
  <2>4. act' = [act EXCEPT !.pc = "write", !.todo = <<"ledger">>, !.ledger = m]
    BY <1>4 DEF m
  <2>5. <<"ledger">> \in Seq(Paths)
    BY DEF Paths, Files
  <2>6. /\ act' \in ActRecs /\ act'.pc = "write" /\ act'.todo = <<"ledger">> /\ act'.ledger = m
        /\ act'.kind = act.kind /\ act'.fresh = act.fresh /\ act'.migrate = act.migrate
        /\ act'.created = act.created /\ act'.before = act.before
    BY <1>0, <2>2, <2>4, <2>5 DEF ActRecs
  <2>7. \A q \in Files : Content(q)' = IF q = "ledger" THEN "torn" ELSE Content(q)
    BY <2>1, NoFileIsAbsent DEF Content
  <2>8. \A q : act'.todo = <<q>> <=> q = "ledger"
    BY <2>6
  <2>9. StageInv'
    BY <1>0, <1>1, <1>2, <1>3, <1>4, <2>1, <2>6, <2>7, <2>8
    DEF CommandInv, StageInv, SetupSteps, Late, Dirs, Filing, Writing, valid_audit_key, Readable, Files
  <2>10. CreatedInv'
    <3>1. act.kind = "setup" => act.before["ledger"] = Absent
      BY <1>0, <1>2, <1>3, <1>4 DEF Files
    <3>2. act.kind = "setup" => \A p \in act.created : act.before[p] = Absent
      BY <1>0 DEF CommandInv, CreatedInv
    <3> QED
      BY <1>0, <1>2, <1>3, <2>1, <2>6, <2>7, <2>8, <3>1, <3>2 DEF CreatedInv, Dirs, Filing, Writing, Files
  <2> QED
    BY <2>1, <2>3, <2>6, <2>9, <2>10, GoesOn DEF CommandInv
<1>5. CASE file' = file /\ load_setup_ledger /\ Return("ok")
  <2>1. act' = NoCommand /\ (act.kind = "adopt" => result' = result /\ installed' = installed)
        /\ (act.kind = "setup" => result' = "ok" /\ installed' = TRUE)
    BY <1>0, <1>2, <1>5 DEF Return, HostInv
  <2>2. HostInv' /\ OwnStep
    <3>1. CASE act.kind = "adopt"
      BY <1>0, <1>1, <1>5, <2>1, <3>1, HostKept DEF HostInv
    <3>2. CASE act.kind = "setup"
      BY <1>0, <1>1, <1>3, <1>5, <2>1, <3>2
      DEF HostInv, OwnStep, Content, SuccessIsUsable, Usable, load_config, valid_audit_key,
          load_setup_ledger, Readable
    <3> QED
      BY <1>2, <3>1, <3>2
  <2> QED
    BY <1>0, <1>2, <2>1, <2>2, Ended
<1>6. CASE file' = file /\ Refuse("ledger")
  <2>1. installed' = installed /\ (result' = result \/ result' = "refused")
    BY <1>0, <1>6 DEF Refuse, Return, HostInv
  <2>2. HostInv' /\ OwnStep
    BY <1>0, <1>1, <1>6, <2>1, HostKept DEF HostInv
  <2>3. Content("config") = "current" => file["config"].content = "current"
    BY DEF Content
  <2> QED
    BY <1>0, <1>1, <1>2, <1>3, <1>6, <2>2, <2>3, RefuseKeeps
<1> QED
  BY <1>4, <1>5, <1>6 DEF write_or_validate_setup_ledger

LEMMA SetupDiesKeeps ==
    ASSUME SetupInv, Dies
    PROVE  SetupGoal
<1>0. HostInv /\ CommandInv
  BY InCommand DEF Dies, AtStep
<1>1. HostInv' /\ OwnStep
  BY <1>0, HostKept DEF Dies, HostInv
<1>2. setupFaults' # setupFaults /\ act' = NoCommand
  BY <1>0 DEF Dies, HostInv
<1> QED
  BY <1>1, <1>2, Ended

\* A directory that stays with the mode the umask left it is not one of dirs.
LEMMA DirectoryFailsKeeps ==
    ASSUME SetupInv, DirectoryFails
    PROVE  SetupGoal
<1>1. /\ file' = file /\ dirs' = dirs /\ edits' = edits /\ setupFaults' = setupFaults + 1
      /\ Return("refused") \/ (act' = NoCommand /\ UNCHANGED <<result, installed>>)
  BY DEF DirectoryFails
<1>2. HostInv
  BY DEF SetupInv
<1>3. act' = NoCommand /\ installed' = installed /\ (result' = result \/ result' = "refused")
  BY <1>1, <1>2 DEF Return, HostInv
<1>4. HostInv' /\ OwnStep
  BY <1>1, <1>2, <1>3, HostKept DEF HostInv
<1>5. setupFaults' # setupFaults
  BY <1>1, <1>2 DEF HostInv
<1> QED
  BY <1>3, <1>4, <1>5, Ended

\* A key that is not on record can be had.
LEMMA FreshKeyIs ==
    ASSUME HostInv
    PROVE  FreshKey \in Keys
<1> DEFINE Free(k) == file["ledger"] # Absent => \A i \in DOMAIN file["ledger"].entries :
                                                   file["ledger"].entries[i].digest # k
<1>1. \E k \in Keys : Free(k)
  <2>1. CASE file["ledger"] = Absent
    BY <2>1 DEF Keys
  <2>2. CASE file["ledger"] # Absent /\ ~Free("k0") /\ ~Free("k1")
    <3>1. PICK i, j \in DOMAIN file["ledger"].entries :
             file["ledger"].entries[i].digest = "k0" /\ file["ledger"].entries[j].digest = "k1"
      BY <2>2
    <3>2. i = j
      BY <2>2, <3>1 DEF HostInv, LedgerSound, Keys
    <3> QED
      BY <3>1, <3>2
  <2> QED
    BY <2>1, <2>2 DEF Keys
<1> QED
  BY <1>1 DEF FreshKey

\* The file a command writes, as it stands.
LEMMA WritingIs ==
    ASSUME SetupInv, act.pc = "write"
    PROVE  /\ HostInv /\ CommandInv /\ act \in ActRecs
           /\ \E p \in Files : /\ act.todo = <<p>> /\ act.todo[1] = p /\ file[p] = Torn
                               /\ act.kind \in {"setup", "adopt"} /\ (act.kind = "adopt" => p = "ledger")
                               /\ act.kind = "setup" /\ ~act.fresh => p = "ledger"
                               /\ \A q : act.todo = <<q>> <=> q = p
<1>1. HostInv /\ CommandInv /\ act \in ActRecs
  BY InCommand
<1>2. PICK p \in Files : /\ act.todo = <<p>> /\ file[p] = Torn /\ (act.kind = "adopt" => p = "ledger")
  BY <1>1 DEF CommandInv, StageInv
<1>3. act.todo[1] = p /\ \A q : act.todo = <<q>> <=> q = p
  BY <1>2
<1>4. act.kind \in {"setup", "adopt"} /\ (act.kind = "setup" /\ ~act.fresh => p = "ledger")
  BY <1>1, <1>2, <1>3 DEF CommandInv, StageInv, Writing
<1> QED
  BY <1>1, <1>2, <1>3, <1>4

LEMMA SetupWriteKeeps ==
    ASSUME SetupInv, write_exact
    PROVE  SetupGoal
<1>0. HostInv /\ CommandInv /\ act \in ActRecs /\ act.pc = "write"
  BY WritingIs DEF write_exact, AtStep
<1>1. PICK p \in Files : /\ act.todo = <<p>> /\ act.todo[1] = p /\ file[p] = Torn
                         /\ act.kind \in {"setup", "adopt"} /\ (act.kind = "adopt" => p = "ledger")
                         /\ act.kind = "setup" /\ ~act.fresh => p = "ledger"
                         /\ \A q : act.todo = <<q>> <=> q = p
  BY <1>0, WritingIs
<1>2. dirs' = dirs /\ edits' = edits /\ setupFaults' = setupFaults
  BY DEF write_exact, counts
<1> DEFINE text == CASE p = "audit_key" -> FreshKey [] p = "policy" -> "expected"
                     [] p = "config" -> "current" [] p = "ledger" -> "entries"
           lines == IF p = "ledger" THEN act.ledger ELSE <<>>
<1>3. file' = [file EXCEPT ![p].content = text, ![p].entries = lines]
  BY <1>1 DEF write_exact
<1>4. /\ p = "audit_key" => text \in Keys
      /\ p = "policy" => text = "expected"
      /\ p = "config" => text = "current"
      /\ p = "ledger" => text = "entries"
  BY <1>0, FreshKeyIs
<1>5. text \in Texts /\ text \notin {"absent", "torn"}
  BY <1>4 DEF Texts, Keys, Files
<1>6. lines \in Seq(Resources) /\ (p = "ledger" => lines = act.ledger) /\ (p # "ledger" => lines = <<>>)
  BY <1>0, EmptySequence DEF ActRecs
<1> HIDE DEF text, lines
<1>7. /\ file' \in FileStates /\ file'[p] \in FileRecs /\ file'[p].content = text
      /\ file'[p].entries = lines /\ file'[p].by = "setup" /\ \A q \in Files : q # p => file'[q] = file[q]
  <2>1. file \in FileStates /\ file[p] \in FileRecs /\ file[p].by = "setup"
    BY <1>0, <1>1, NoFileIsAbsent DEF HostInv
  <2> DEFINE g == [[file[p] EXCEPT !.content = text] EXCEPT !.entries = lines]
  <2>2. g \in FileRecs /\ g.content = text /\ g.entries = lines /\ g.by = "setup"
    BY <1>5, <1>6, <2>1 DEF FileRecs
  <2>3. file' = [file EXCEPT ![p] = g]
    BY <1>3, <2>1 DEF FileStates
  <2> HIDE DEF g
  <2> QED
    BY <2>1, <2>2, <2>3 DEF FileStates
<1>8. file'[p] # Absent /\ \A q \in Files : Content(q)' = IF q = p THEN text ELSE Content(q)
  BY <1>7, NoFileIsAbsent DEF Content
<1>9. \A q \in Files : Foreign(file'[q]) => Foreign(file[q])
  BY <1>7 DEF Foreign
<1>10. file'["ledger"] # Absent => file'["ledger"].by = "setup" /\ LedgerSound(file', file'["ledger"].entries)
  <2>1. CASE p = "ledger"
    <3>1. act.ledger \in Seq(Resources) /\ LedgerSound(file, act.ledger)
      BY <1>0 DEF ActRecs, CommandInv
    <3> QED
      BY <1>6, <1>7, <1>9, <2>1, <3>1, LedgerKept
  <2>2. CASE p # "ledger" /\ file'["ledger"] # Absent
    <3>1. file["ledger"].entries \in Seq(Resources) /\ LedgerSound(file, file["ledger"].entries)
          /\ file["ledger"].by = "setup" /\ file'["ledger"] = file["ledger"]
      BY <1>0, <1>7, <2>2, FileFacts DEF HostInv, Files, FileRecs
    <3> QED
      BY <1>9, <3>1, LedgerKept
  <2> QED
    BY <2>1, <2>2
<1>11. OwnStep
  BY <1>7, <1>8 DEF OwnStep
<1>12. Content(p) = "torn"
  BY <1>1, NoFileIsAbsent DEF Content
<1>13. CASE p = "ledger"
  <2>1. Return("ok")
    BY <1>1, <1>13 DEF write_exact
  <2>2. act' = NoCommand /\ (act.kind = "adopt" => result' = result /\ installed' = installed)
        /\ (act.kind = "setup" => result' = "ok" /\ installed' = TRUE)
    BY <1>0, <2>1 DEF Return, HostInv
  <2>3. act.fresh \in BOOLEAN
    BY <1>0 DEF ActRecs
  <2>4. act.kind = "setup" =>
          /\ Content("config") = "current" /\ Content("policy") = "expected" /\ valid_audit_key
          /\ {"config_dir", "state_dir", "runtime_dir"} \subseteq dirs
    BY <1>0, <1>1, <1>13, <2>3 DEF CommandInv, StageInv, Filing, Writing, Late, Dirs
  <2>5. SuccessIsUsable'
    <3>1. CASE act.kind = "adopt"
      BY <1>0, <1>2, <1>4, <1>8, <1>13, <2>2, <3>1
      DEF HostInv, SuccessIsUsable, Usable, load_config, valid_audit_key, load_setup_ledger, Readable, Files
    <3>2. CASE act.kind = "setup"
      BY <1>0, <1>2, <1>4, <1>8, <1>13, <2>2, <2>4, <3>2
      DEF SuccessIsUsable, Usable, load_config, valid_audit_key, load_setup_ledger, Readable, Files
    <3> QED
      BY <1>1, <3>1, <3>2
  <2>6. HostInv'
    BY <1>0, <1>1, <1>2, <1>7, <1>8, <1>10, <1>13, <2>2, <2>5 DEF HostInv, Files
  <2> QED
    BY <1>1, <1>11, <2>2, <2>6, Ended
<1>14. CASE p # "ledger"
  <2>1. /\ act' = [act EXCEPT !.created = @ \cup {p}, !.pc = AfterFile(p), !.todo = <<>>]
        /\ UNCHANGED <<result, installed>>
    BY <1>1, <1>14 DEF write_exact
  <2>2. act.kind = "setup" /\ act.fresh /\ p \in {"audit_key", "policy", "config"}
    BY <1>0, <1>1, <1>14 DEF ActRecs, Files
  <2>3. AfterFile(p) \in Pcs /\ (p = "audit_key" => AfterFile(p) = "policy")
        /\ (p = "policy" => AfterFile(p) = "config") /\ (p = "config" => AfterFile(p) = "ledger")
    BY <2>2 DEF AfterFile, Pcs, SetupSteps
  <2>4. <<>> \in Seq(Paths)
    BY EmptySequence
  <2>5. /\ act' \in ActRecs /\ act'.pc = AfterFile(p) /\ act'.ledger = act.ledger
        /\ act'.kind = act.kind /\ act'.fresh = act.fresh /\ act'.migrate = act.migrate
        /\ act'.created = act.created \cup {p} /\ act'.before = act.before
    BY <1>0, <2>1, <2>2, <2>3, <2>4 DEF ActRecs, Pcs
  <2>6. SuccessIsUsable' /\ ~installed
    BY <1>0, <2>1, <2>2 DEF CommandInv, StageInv, SuccessIsUsable
  <2>7. HostInv'
    <3>1. file["audit_key"] # Absent => "state_dir" \in dirs
      BY <1>0 DEF HostInv
    <3>2. file'["audit_key"] # Absent => "state_dir" \in dirs'
      BY <1>1, <1>2, <1>7, <3>1, NoFileIsAbsent DEF Files
    <3> QED
      BY <1>0, <1>2, <1>4, <1>7, <1>8, <1>10, <1>14, <2>1, <2>2, <2>6, <3>2 DEF HostInv, Files
  <2>8. LedgerSound(file', act'.ledger)
    <3>1. act.ledger \in Seq(Resources) /\ LedgerSound(file, act.ledger)
      BY <1>0 DEF ActRecs, CommandInv
    <3> QED
      BY <1>9, <2>5, <3>1, LedgerKept
  <2>9. StageInv'
    BY <1>0, <1>1, <1>2, <1>4, <1>5, <1>7, <1>8, <2>1, <2>2, <2>3, <2>5, <2>6
    DEF CommandInv, StageInv, SetupSteps, Late, Dirs, Filing, Writing, valid_audit_key, Readable, Files
  <2>10. CreatedInv'
    BY <1>0, <1>1, <1>7, <1>8, <2>2, <2>3, <2>5, <2>6
    DEF CommandInv, StageInv, CreatedInv, Dirs, Filing, Writing, Files
  <2> QED
    BY <1>11, <2>5, <2>7, <2>8, <2>9, <2>10, GoesOn DEF CommandInv
<1> QED
  BY <1>13, <1>14

\* The directory of the audit key cannot be removed.
LEMMA KeyStays ==
    ASSUME file["audit_key"] # Absent
    PROVE  Entries("state_dir") # {}
<1>1. "audit_key" \in Entries("state_dir")
  BY DEF Entries
<1> QED
  BY <1>1

\* A file of setup's own is gone.
LEMMA RemovedIs ==
    ASSUME HostInv, NEW p \in Files, file' = [file EXCEPT ![p] = Absent], ~installed, installed' = installed,
           file[p] # Absent => file[p].by = "setup", dirs' = dirs, edits' = edits, setupFaults' \in Nat
    PROVE  /\ HostInv' /\ OwnStep /\ file'[p] = Absent /\ (\A q \in Files : q # p => file'[q] = file[q])
           /\ \A q \in Files : Foreign(file'[q]) => Foreign(file[q])
<1>1. file' \in FileStates /\ file'[p] = Absent /\ \A q \in Files : q # p => file'[q] = file[q]
  BY DEF HostInv, FileStates
<1>2. \A q \in Files : Foreign(file'[q]) => Foreign(file[q])
  BY <1>1 DEF Foreign
<1>3. file'["ledger"] # Absent => file'["ledger"].by = "setup" /\ LedgerSound(file', file'["ledger"].entries)
  <2>1. CASE file'["ledger"] # Absent
    <3>1. file["ledger"].entries \in Seq(Resources) /\ LedgerSound(file, file["ledger"].entries)
          /\ file["ledger"].by = "setup" /\ file'["ledger"] = file["ledger"]
      BY <1>1, <2>1, FileFacts DEF HostInv, Files, FileRecs
    <3> QED
      BY <1>2, <3>1, LedgerKept
  <2> QED
    BY <2>1
<1>4. \A q \in Files : Content(q)' = IF q = p THEN "absent" ELSE Content(q)
  BY <1>1 DEF Content
<1>5. HostInv'
  BY <1>1, <1>3, <1>4 DEF HostInv, SuccessIsUsable, Files
<1>6. OwnStep
  BY <1>1 DEF OwnStep
<1> QED
  BY <1>1, <1>2, <1>5, <1>6

\* A write that fails unlinks its file, and what was created before goes too.
LEMMA WriteFailsKeeps ==
    ASSUME SetupInv, WriteFails
    PROVE  SetupGoal
<1>0. HostInv /\ CommandInv /\ act \in ActRecs /\ act.pc = "write"
  BY WritingIs DEF WriteFails, AtStep
<1>1. PICK p \in Files : /\ act.todo = <<p>> /\ act.todo[1] = p /\ file[p] = Torn
                         /\ act.kind \in {"setup", "adopt"} /\ (act.kind = "adopt" => p = "ledger")
                         /\ act.kind = "setup" /\ ~act.fresh => p = "ledger"
                         /\ \A q : act.todo = <<q>> <=> q = p
  BY <1>0, WritingIs
<1>2. /\ file' = [file EXCEPT ![p] = Absent] /\ Refuse(p) /\ dirs' = dirs /\ edits' = edits
      /\ setupFaults' \in Nat
  BY <1>0, <1>1 DEF WriteFails, HostInv
<1>3. installed' = installed /\ (result' = result \/ result' = "refused")
  BY <1>0, <1>2 DEF Refuse, Return, HostInv
<1>4. file' \in FileStates /\ file'[p] = Absent /\ \A q \in Files : q # p => file'[q] = file[q]
  BY <1>0, <1>2 DEF HostInv, FileStates
<1>5. \A q \in Files : Foreign(file'[q]) => Foreign(file[q])
  BY <1>4 DEF Foreign
<1>6. \A q \in Files : Content(q)' = IF q = p THEN "absent" ELSE Content(q)
  BY <1>4 DEF Content
<1>7. file'["ledger"] # Absent => file'["ledger"].by = "setup" /\ LedgerSound(file', file'["ledger"].entries)
  <2>1. CASE file'["ledger"] # Absent
    <3>1. file["ledger"].entries \in Seq(Resources) /\ LedgerSound(file, file["ledger"].entries)
          /\ file["ledger"].by = "setup" /\ file'["ledger"] = file["ledger"]
      BY <1>0, <1>4, <2>1, FileFacts DEF HostInv, Files, FileRecs
    <3> QED
      BY <1>5, <3>1, LedgerKept
  <2> QED
    BY <2>1
<1>8. Content(p) = "torn"
  BY <1>1, NoFileIsAbsent DEF Content
<1>9. SuccessIsUsable'
  BY <1>0, <1>2, <1>3, <1>6, <1>8
  DEF HostInv, SuccessIsUsable, Usable, load_config, valid_audit_key, load_setup_ledger, Readable, Files
<1>10. HostInv'
  BY <1>0, <1>2, <1>3, <1>4, <1>6, <1>7, <1>9 DEF HostInv, Files
<1>11. OwnStep
  BY <1>1, <1>4, NoFileIsAbsent DEF OwnStep
<1>12. act.kind = "setup" =>
         /\ \A q \in Files :
              /\ q \in act.created => file[q] # Absent /\ file[q].by = "setup"
              /\ q = p => act.before[q] = Absent
              /\ \/ file[q] = act.before[q] \/ q \in act.created \/ q = p
                 \/ q = "config" /\ act.migrate /\ Content(q) = "current"
         /\ p = "audit_key" => act.created = {}
         /\ p = "policy" => act.created \subseteq {"audit_key"}
         /\ p = "config" => "config" \notin act.created
  BY <1>0, <1>1 DEF CommandInv, CreatedInv, Filing, Writing
<1>13. Content("config") = "current" /\ p # "config" => file'["config"].content = "current"
  BY <1>4 DEF Content, Files
<1>14. act.kind = "setup" =>
         /\ \A q \in Files :
              /\ q \in act.created => (file'[q] # Absent => file'[q].by = "setup")
              /\ \/ file'[q] = act.before[q] \/ q \in act.created
                 \/ q = "config" /\ act.migrate /\ file'[q].content = "current"
         /\ p = "audit_key" => act.created = {}
         /\ p = "policy" => act.created \subseteq {"audit_key"}
         /\ p = "config" => "config" \notin act.created
  BY <1>4, <1>8, <1>12, <1>13
<1>15. ~act.fresh => p = "ledger"
  BY <1>1
<1> QED
  BY <1>0, <1>2, <1>5, <1>10, <1>11, <1>14, <1>15, RefuseKeeps

LEMMA UndoKeeps ==
    ASSUME SetupInv, Undo
    PROVE  SetupGoal
<1>0. HostInv /\ CommandInv /\ act \in ActRecs /\ act.pc = "undo"
  BY InCommand DEF Undo, AtStep
<1>1. /\ act.kind = "setup" /\ act.fresh /\ ~installed /\ ~act.migrate
      /\ act.todo \in Seq(Paths) /\ act.todo # <<>>
      /\ \A p \in Files :
           /\ file[p] = act.before[p] \/ p \in Range(act.todo)
           /\ p \in Range(act.todo) =>
                act.before[p] = Absent /\ (file[p] # Absent => file[p].by = "setup")
      /\ \A p \in act.created : act.before[p] = Absent
  BY <1>0 DEF CommandInv, StageInv, CreatedInv, ActRecs, SetupSteps
<1>2. PICK p \in Paths : p = Head(act.todo)
  BY <1>1, HeadTailRange
<1>3. /\ Tail(act.todo) \in Seq(Paths) /\ Range(act.todo) = {p} \cup Range(Tail(act.todo))
      /\ p \in Range(act.todo)
  BY <1>1, <1>2, HeadTailRange
<1>4. /\ file' = (IF p \in Files THEN [file EXCEPT ![p] = Absent] ELSE file)
      /\ dirs' \in SUBSET Dirs /\ edits' = edits /\ setupFaults' = setupFaults
      /\ dirs' = dirs \/ (p \in Dirs /\ Entries(p) = {} /\ dirs' = dirs \ {p})
  BY <1>0, <1>2 DEF Undo, counts, HostInv
<1>5. \/ Tail(act.todo) = <<>> /\ Return("refused")
      \/ /\ Tail(act.todo) # <<>> /\ act' = [act EXCEPT !.todo = Tail(@)]
         /\ UNCHANGED <<result, installed>>
  BY DEF Undo
<1>6. installed' = installed
  BY <1>0, <1>5 DEF Return, HostInv
<1>7. /\ HostInv' /\ OwnStep /\ (\A q \in Files : q # p => file'[q] = file[q])
      /\ p \in Files => file'[p] = Absent
      /\ \A q \in Files : Foreign(file'[q]) => Foreign(file[q])
  <2>1. CASE p \in Files
    <3>1. dirs' = dirs
      BY <1>4, <2>1 DEF Files, Dirs
    <3> QED
      BY <1>0, <1>1, <1>3, <1>4, <1>6, <2>1, <3>1, RemovedIs DEF HostInv
  <2>2. CASE p \notin Files
    <3>1. file' = file
      BY <1>4, <2>2
    <3>2. file["audit_key"] # Absent => "state_dir" \in dirs'
      BY <1>0, <1>4, KeyStays DEF HostInv
    <3>3. HostInv' /\ OwnStep
      BY <1>0, <1>1, <1>4, <1>6, <3>1, <3>2 DEF HostInv, OwnStep, Content, SuccessIsUsable
    <3> QED
      BY <2>2, <3>1, <3>3
  <2> QED
    BY <2>1, <2>2
<1>8. CASE Tail(act.todo) = <<>> /\ Return("refused")
  <2>1. Range(act.todo) = {p}
    BY <1>3, <1>8, EmptySequence
  <2>2. \A q \in Files : file'[q] = act.before[q]
    BY <1>1, <1>7, <2>1
  <2>3. act' = NoCommand
    BY <1>8 DEF Return
  <2> QED
    BY <1>7, <2>2, <2>3, Ended
<1>9. CASE Tail(act.todo) # <<>> /\ act' = [act EXCEPT !.todo = Tail(@)]
  <2>1. /\ act' \in ActRecs /\ act'.pc = "undo" /\ act'.todo = Tail(act.todo)
        /\ act'.kind = act.kind /\ act'.fresh = act.fresh /\ act'.migrate = act.migrate
        /\ act'.created = act.created /\ act'.ledger = act.ledger /\ act'.before = act.before
    BY <1>0, <1>3, <1>9 DEF ActRecs
  <2>2. LedgerSound(file', act'.ledger)
    <3>1. act.ledger \in Seq(Resources) /\ LedgerSound(file, act.ledger)
      BY <1>0 DEF ActRecs, CommandInv
    <3> QED
      BY <1>7, <2>1, <3>1, LedgerKept
  <2>3. StageInv'
    BY <1>1, <1>6, <2>1 DEF StageInv, SetupSteps, Dirs, Late, Filing, Writing
  <2>4. CreatedInv'
    BY <1>1, <1>3, <1>7, <1>9, <2>1 DEF CreatedInv, Dirs, Filing, Writing
  <2> QED
    BY <1>7, <2>1, <2>2, <2>3, <2>4, GoesOn DEF CommandInv
<1> QED
  BY <1>5, <1>8, <1>9

\* A command that begins.
LEMMA StartKeeps ==
    ASSUME SetupInv, file' = file, dirs' = dirs, installed' = installed, result' = result,
           edits' = edits, setupFaults' = setupFaults, act.pc = "idle", CommandInv'
    PROVE  SetupGoal
<1>1. HostInv
  BY DEF SetupInv
<1>2. HostInv' /\ OwnStep
  BY <1>1, HostKept DEF HostInv
<1> QED
  BY <1>2, GoesOn

LEMMA NothingFound ==
    /\ <<>> \in Seq(Resources) /\ LedgerSound(file, <<>>) /\ <<>> \in Seq(Paths) /\ <<>> \in Seq(Dirs)
BY EmptySequence DEF LedgerSound

LEMMA SetupStarts ==
    ASSUME SetupInv, setup_command
    PROVE  SetupGoal
<1>0. HostInv /\ act.pc = "idle"
  BY DEF SetupInv, setup_command, AtStep
<1>1. /\ file' = file /\ dirs' = dirs /\ installed' = installed /\ result' = result
      /\ edits' = edits /\ setupFaults' = setupFaults
  BY DEF setup_command, KeepHostEnv, counts
<1> DEFINE fresh == file["config"] = Absent
           pc == IF fresh THEN "config_dir" ELSE "existing"
           old == Content("config") = "volatile"
<1>2. act' = [Started("setup", pc) EXCEPT !.fresh = fresh, !.migrate = old]
  BY DEF setup_command
<1>3. act' = [kind |-> "setup", pc |-> pc, fresh |-> fresh, migrate |-> old, created |-> {}, dirs |-> <<>>,
              todo |-> <<>>, ledger |-> <<>>, before |-> file]
  BY <1>2 DEF Started
<1>4. pc \in {"config_dir", "existing"} /\ file \in FileStates
  BY <1>0 DEF HostInv
<1>5. fresh => Content("config") = "absent" /\ ~old
  BY DEF Content
<1>6. ~fresh => Content("config") = IF old THEN "volatile" ELSE "current"
  <2>1. "config" \in Files
    BY DEF Files
  <2> QED
    BY <1>0, <2>1, FileFacts DEF setup_command, plan_setup
<1>7. /\ act'.kind = "setup" /\ act'.pc = pc /\ act'.created = {}
      /\ act'.ledger = <<>> /\ act'.before = file /\ act'.todo = <<>>
  BY <1>3
<1>8. (act'.fresh <=> fresh) /\ (act'.migrate <=> old)
  BY <1>3
<1>9. act' \in ActRecs
  BY <1>3, <1>4, NothingFound DEF ActRecs, SetupSteps, Dirs
<1>10. fresh => ~installed
  BY <1>0, <1>5 DEF HostInv, SuccessIsUsable, Usable, load_config, Readable
<1>11. /\ fresh => pc = "config_dir"
       /\ ~fresh => pc = "existing"
  OBVIOUS
<1>12. Content("config")' = Content("config") /\ file'["config"] = file["config"]
  BY <1>1 DEF Content
<1>13. LedgerSound(file', act'.ledger)
  BY <1>7 DEF LedgerSound
<1> HIDE DEF fresh, pc, old
<1>14. StageInv'
  BY <1>1, <1>5, <1>6, <1>7, <1>8, <1>10, <1>11, <1>12 
  DEF StageInv, SetupSteps, Late, Dirs, Filing, Writing, fresh
<1>15. CreatedInv'
  BY <1>1, <1>7, <1>8, <1>11 DEF CreatedInv, Dirs, Filing, Writing
<1> QED
  BY <1>0, <1>1, <1>9, <1>13, <1>14, <1>15, StartKeeps DEF CommandInv

LEMMA AdoptStarts ==
    ASSUME SetupInv, setup_adopt_command
    PROVE  SetupGoal
<1>0. HostInv /\ act.pc = "idle"
  BY DEF SetupInv, setup_adopt_command, MayStart, AtStep
<1>1. /\ file' = file /\ dirs' = dirs /\ installed' = installed /\ result' = result
      /\ edits' = edits /\ setupFaults' = setupFaults
  BY DEF setup_adopt_command, KeepCommand
<1> DEFINE m == make_setup_ledger({}, {})
<1>2. m \in Seq(Resources) /\ LedgerSound(file, m)
  BY <1>0, LedgerMade
<1>3. act' = [Started("adopt", "adopt") EXCEPT !.ledger = m]
  BY DEF setup_adopt_command
<1> HIDE DEF m
<1>4. act' = [kind |-> "adopt", pc |-> "adopt", fresh |-> FALSE, migrate |-> FALSE, created |-> {},
              dirs |-> <<>>, todo |-> <<>>, ledger |-> m, before |-> file]
  BY <1>3 DEF Started
<1>5. act'.kind = "adopt" /\ act'.pc = "adopt" /\ act'.ledger = m /\ ~act'.fresh
  BY <1>4
<1>6. act' \in ActRecs
  BY <1>0, <1>2, <1>4, NothingFound DEF ActRecs, SetupSteps, Dirs, HostInv
<1>7. StageInv' /\ CreatedInv'
  BY <1>5 DEF StageInv, CreatedInv, SetupSteps, Dirs
<1> QED
  BY <1>0, <1>1, <1>2, <1>5, <1>6, <1>7, StartKeeps DEF CommandInv

LEMMA AdoptKeeps ==
    ASSUME SetupInv, execute_setup_adoption
    PROVE  SetupGoal
<1>0. HostInv /\ CommandInv /\ act \in ActRecs /\ act.pc = "adopt"
  BY InCommand DEF execute_setup_adoption, AtStep
<1>1. file' = file /\ edits' = edits /\ setupFaults' = setupFaults /\ dirs' = dirs
  BY DEF execute_setup_adoption, KeepHostEnv, counts
<1>2. act.kind = "adopt" /\ ~act.fresh
  BY <1>0 DEF CommandInv, StageInv, ActRecs
<1>3. CASE Return("refused")
  BY <1>0, <1>1, <1>2, <1>3, Refused0 DEF HostInv
<1>4. CASE Continue("ledger")
  <2>1. act.dirs \in Seq(Dirs) /\ "ledger" \in Pcs
    BY <1>0 DEF ActRecs, Pcs
  <2>2. act' = [act EXCEPT !.pc = "ledger", !.dirs = act.dirs] /\ result' = result
        /\ installed' = installed
    BY <1>0, <1>4, ContinueIs
  <2>3. /\ act' \in ActRecs /\ act'.pc = "ledger" /\ act'.kind = act.kind /\ act'.fresh = act.fresh
        /\ StageInv' /\ CreatedInv' => SetupGoal
    BY <1>0, <1>1, <2>1, <2>2, MovesOn DEF HostInv
  <2>4. StageInv' /\ CreatedInv'
    BY <1>2, <2>3 DEF StageInv, CreatedInv, SetupSteps, Dirs
  <2> QED
    BY <2>3, <2>4
<1> QED
  BY <1>3, <1>4 DEF execute_setup_adoption

\* The daemon and the operator.
LEMMA DaemonKeeps ==
    ASSUME SetupInv, StartsServing \/ StopsServing
    PROVE  SetupGoal
<1>0. HostInv
  BY DEF SetupInv
<1>1. /\ file' = file /\ edits' = edits /\ setupFaults' = setupFaults /\ dirs' = dirs /\ act' = act
      /\ installed' = installed /\ result' = result
  BY DEF StartsServing, StopsServing, counts
<1>2. HostInv' /\ OwnStep
  BY <1>0, <1>1, HostKept DEF HostInv
<1>3. act = NoCommand \/ CommandInv
  BY DEF SetupInv
<1>4. CASE act = NoCommand
  BY <1>1, <1>2, <1>4, Ended DEF NoCommand
<1>5. CASE CommandInv
  <2>1. StageInv'
    BY <1>1, <1>5 DEF CommandInv, StageInv, Filing, Writing, Content, valid_audit_key, Readable
  <2>2. CreatedInv'
    BY <1>1, <1>5 DEF CommandInv, CreatedInv, Filing, Writing, Content
  <2>3. CommandInv'
    BY <1>1, <1>5, <2>1, <2>2 DEF CommandInv
  <2> QED
    BY <1>2, <2>3, GoesOn
<1> QED
  BY <1>3, <1>4, <1>5

LEMMA OperatorKeeps ==
    ASSUME SetupInv, Operator
    PROVE  SetupGoal
<1>0. HostInv
  BY DEF SetupInv
<1>1. /\ edits' \in Nat /\ edits' # edits /\ setupFaults' = setupFaults /\ dirs' = dirs /\ act' = act
      /\ result' = result
  BY <1>0 DEF Operator, HostInv
<1>2. OwnStep
  BY <1>1 DEF OwnStep
<1>3. act = NoCommand \/ CommandInv
  BY DEF SetupInv
<1>4. CASE file' = file /\ installed' = installed
  <2>1. HostInv'
    BY <1>0, <1>1, <1>4, HostKept DEF HostInv
  <2>2. CASE act = NoCommand
    BY <1>1, <1>2, <2>1, <2>2, Ended DEF NoCommand
  <2>3. CASE CommandInv
    <3>1. StageInv'
      BY <1>1, <1>4, <2>3 DEF CommandInv, StageInv, Filing, Writing, Content, valid_audit_key, Readable
    <3>2. CreatedInv'
      BY <1>1, <1>4, <2>3 DEF CommandInv, CreatedInv, Filing, Writing, Content
    <3>3. CommandInv'
      BY <1>1, <1>4, <2>3, <3>1, <3>2 DEF CommandInv
    <3> QED
      BY <1>2, <2>1, <3>3, GoesOn
  <2> QED
    BY <1>3, <2>2, <2>3
<1>5. CASE /\ AtStep("idle") \/ AtStep("confirm")
           /\ \E p \in Files :
                /\ file[p] # Absent
                /\ \/ file' = [file EXCEPT ![p] = Absent]
                   \/ /\ p \in {"config", "policy"}
                      /\ file' = [file EXCEPT ![p] = [Torn EXCEPT !.content = "other", !.by = "operator"]]
           /\ installed' = FALSE
  <2> DEFINE o == [Torn EXCEPT !.content = "other", !.by = "operator"]
  <2>1. PICK p \in Files :
             \/ file' = [file EXCEPT ![p] = Absent]
             \/ p \in {"config", "policy"} /\ file' = [file EXCEPT ![p] = o]
    BY <1>5
  <2>2. o \in FileRecs /\ o.content = "other" /\ o.by = "operator"
    BY NoFileIsAbsent DEF Torn, FileRecs, Texts
  <2> HIDE DEF o
  <2>3. /\ file' \in FileStates /\ (\A q \in Files : q # p => file'[q] = file[q])
        /\ file'[p] = Absent \/ (p \in {"config", "policy"} /\ file'[p] = o)
    BY <1>0, <2>1, <2>2 DEF HostInv, FileStates
  <2>4. \A q \in Files : Foreign(file'[q]) => Foreign(file[q])
    BY <2>2, <2>3 DEF Foreign
  <2>5. file'["ledger"] # Absent => file'["ledger"].by = "setup" /\ LedgerSound(file', file'["ledger"].entries)
    <3>1. CASE file'["ledger"] # Absent
      <4>1. file["ledger"].entries \in Seq(Resources) /\ LedgerSound(file, file["ledger"].entries)
            /\ file["ledger"].by = "setup" /\ file'["ledger"] = file["ledger"]
        BY <1>0, <2>3, <3>1, FileFacts DEF HostInv, Files, FileRecs
      <4> QED
        BY <2>4, <4>1, LedgerKept
    <3> QED
      BY <3>1
  <2>6. \A q \in Files : Content(q)' = IF q # p THEN Content(q) ELSE IF file'[p] = Absent THEN "absent" ELSE "other"
    BY <2>2, <2>3 DEF Content
  <2>7. HostInv'
    BY <1>0, <1>1, <1>5, <2>3, <2>5, <2>6 DEF HostInv, SuccessIsUsable, Files
  <2>8. CASE act = NoCommand
    BY <1>1, <1>2, <2>7, <2>8, Ended DEF NoCommand
  <2>9. CASE CommandInv
    <3>1. act.pc = "confirm" /\ act \in ActRecs
      BY <1>5, <2>9 DEF AtStep, CommandInv, ActRecs, SetupSteps, Dirs
    <3>2. act.kind = "cleanup" /\ ~act.fresh
      BY <2>9, <3>1 DEF CommandInv, StageInv, ActRecs
    <3>3. StageInv' /\ CreatedInv'
      BY <1>1, <3>1, <3>2 DEF StageInv, CreatedInv, SetupSteps, Dirs
    <3>4. LedgerSound(file', act'.ledger)
      <4>1. act.ledger \in Seq(Resources) /\ LedgerSound(file, act.ledger)
        BY <2>9 DEF ActRecs, CommandInv
      <4> QED
        BY <1>1, <2>4, <4>1, LedgerKept
    <3>5. CommandInv'
      BY <1>1, <3>1, <3>3, <3>4 DEF CommandInv
    <3> QED
      BY <1>2, <2>7, <3>5, GoesOn
  <2> QED
    BY <1>3, <2>8, <2>9
<1> QED
  BY <1>4, <1>5 DEF Operator

Items == [path : Paths, status : {"absent", "retained", "removable", "blocked"}]

\* What a preview says can be removed is setup's own.
LEMMA PlanIs ==
    ASSUME HostInv, file["ledger"] # Absent
    PROVE  /\ plan_setup_cleanup \in Seq(Items)
           /\ \A i \in DOMAIN plan_setup_cleanup :
                LET item == plan_setup_cleanup[i] IN
                item.status = "removable" /\ item.path \in Files =>
                  (file[item.path] # Absent => file[item.path].by = "setup")
<1> DEFINE rs == Reverse(file["ledger"].entries)
           goes == CHOOSE g : g = [i \in DOMAIN rs |->
            /\ Exists(rs[i].path) /\ rs[i].owned
            /\ IF rs[i].digest # Absent THEN unchanged(rs[i])
               ELSE /\ rs[i].path \in dirs
                    /\ \A e \in Entries(rs[i].path) :
                         e = "ledger" \/ \E j \in 1..(i - 1) : rs[j].path = e /\ g[j]]
           removable(i) == IF rs[i].digest # Absent THEN unchanged(rs[i]) ELSE goes[i]
           status(i) == IF ~Exists(rs[i].path) THEN "absent"
                        ELSE IF ~rs[i].owned THEN "retained"
                        ELSE IF removable(i) THEN "removable" ELSE "blocked"
           items == [i \in DOMAIN rs |-> [path |-> rs[i].path, status |-> status(i)]]
<1>1. plan_setup_cleanup = items
  BY DEF plan_setup_cleanup
<1>2. /\ file["ledger"].entries \in Seq(Resources) /\ LedgerSound(file, file["ledger"].entries)
  BY FileFacts DEF HostInv, Files, FileRecs
<1>3. /\ rs \in Seq(Resources) /\ DOMAIN rs = 1 .. Len(rs) /\ Len(rs) \in Nat
      /\ \A i \in DOMAIN rs : rs[i] \in Resources
  BY <1>2, ReverseRange
<1>4. \A i \in DOMAIN rs :
        /\ rs[i].path \in Files => rs[i].digest # Absent
        /\ rs[i].owned /\ rs[i].path \in Files => rs[i].digest # "other" /\ ~Foreign(file[rs[i].path])
  <2>1. TAKE i \in DOMAIN rs
  <2>2. PICK j \in DOMAIN file["ledger"].entries : rs[i] = file["ledger"].entries[j]
    BY <1>2, ReverseRange
  <2> QED
    BY <1>2, <2>2 DEF LedgerSound
<1>5. \A i \in DOMAIN rs : status(i) \in {"absent", "retained", "removable", "blocked"}
  OBVIOUS
<1>6. \A i \in DOMAIN rs : status(i) = "removable" => 
        rs[i].owned /\ (rs[i].digest # Absent => unchanged(rs[i]))
  OBVIOUS
<1> HIDE DEF goes, removable, rs, status
<1>7. \A i \in DOMAIN rs : items[i] \in Items /\ items[i].path = rs[i].path /\ items[i].status = status(i)
  BY <1>3, <1>5 DEF Items, Resources
<1>8. items \in Seq(Items) /\ DOMAIN items = DOMAIN rs
  <2>1. items \in [1 .. Len(rs) -> Items]
    BY <1>3, <1>7
  <2> QED
    BY <1>3, <2>1
<1>9. ASSUME NEW i \in DOMAIN rs, items[i].status = "removable", items[i].path \in Files,
             file[items[i].path] # Absent
      PROVE  file[items[i].path].by = "setup"
  <2>1. /\ rs[i].path \in Files /\ rs[i].owned /\ rs[i].digest # "other" /\ ~Foreign(file[rs[i].path])
        /\ Content(rs[i].path) = rs[i].digest
    BY <1>4, <1>6, <1>7, <1>9 DEF unchanged
  <2> QED
    BY <1>7, <1>9, <2>1 DEF Foreign, Content
<1> HIDE DEF items
<1> QED
  BY <1>1, <1>8, <1>9

LEMMA CleanupStarts ==
    ASSUME SetupInv, setup_cleanup_command
    PROVE  SetupGoal
<1>0. HostInv /\ act.pc = "idle"
  BY DEF SetupInv, setup_cleanup_command, MayStart, AtStep
<1>1. /\ file' = file /\ dirs' = dirs /\ installed' = installed /\ result' = result
      /\ edits' = edits /\ setupFaults' = setupFaults
  BY DEF setup_cleanup_command, KeepCommand
<1>2. file["ledger"] # Absent
  BY DEF setup_cleanup_command, load_setup_ledger, Readable, Content
<1> DEFINE m == file["ledger"].entries
           q == plan_setup_cleanup
<1>3. m \in Seq(Resources) /\ LedgerSound(file, m)
  BY <1>0, <1>2, FileFacts DEF HostInv, Files, FileRecs
<1>4. q \in Seq(Items)
  BY <1>0, <1>2, PlanIs
<1>5. act' = [Started("cleanup", "confirm") EXCEPT !.ledger = m, !.todo = q]
  BY DEF setup_cleanup_command
<1> HIDE DEF m, q
<1>6. act' = [kind |-> "cleanup", pc |-> "confirm", fresh |-> FALSE, migrate |-> FALSE, created |-> {},
              dirs |-> <<>>, todo |-> q, ledger |-> m, before |-> file]
  BY <1>5 DEF Started
<1>7. act'.kind = "cleanup" /\ act'.pc = "confirm" /\ act'.ledger = m /\ ~act'.fresh
  BY <1>6
<1>8. act' \in ActRecs
  BY <1>0, <1>3, <1>4, <1>6, NothingFound DEF ActRecs, SetupSteps, Dirs, HostInv, Items
<1>9. StageInv' /\ CreatedInv'
  BY <1>7 DEF StageInv, CreatedInv, SetupSteps, Dirs
<1> QED
  BY <1>0, <1>1, <1>3, <1>7, <1>8, <1>9, StartKeeps DEF CommandInv

\* What is confirmed is removed: files that may go, the ledger, directories.
LEMMA RemovalIs ==
    ASSUME NEW paths \in Seq(Paths)
    PROVE  /\ RemovalOrder(paths) \in Seq(Paths) /\ RemovalOrder(paths) # <<>>
           /\ Range(RemovalOrder(paths)) \cap Files \subseteq Range(paths) \cup {"ledger"}
<1> DEFINE a == Those(paths, Files)
           b == Those(paths, Dirs)
           l == <<"ledger">>
<1>1. a \in Seq(Paths) /\ Range(a) \subseteq Range(paths) /\ b \in Seq(Paths) /\ Range(b) \subseteq Range(paths)
  BY ThoseFacts
<1>2. l \in Seq(Paths) /\ Range(l) = {"ledger"}
  BY RangeOfFew DEF Paths, Files
<1> DEFINE c == a \o l
<1>3. RemovalOrder(paths) = c \o b
  BY DEF RemovalOrder
<1> HIDE DEF a, b, l
<1>4. c \in Seq(Paths) /\ Range(c) = Range(a) \cup Range(l)
  BY <1>1, <1>2, ConcatRange
<1> HIDE DEF c
<1>5. RemovalOrder(paths) \in Seq(Paths) /\ Range(RemovalOrder(paths)) = Range(c) \cup Range(b)
  BY <1>1, <1>3, <1>4, ConcatRange
<1>6. RemovalOrder(paths) # <<>>
  BY <1>2, <1>4, <1>5, EmptySequence
<1> QED
  BY <1>1, <1>2, <1>4, <1>5, <1>6

LEMMA ConfirmKeeps ==
    ASSUME SetupInv, confirm_cleanup
    PROVE  SetupGoal
<1>0. HostInv /\ CommandInv /\ act \in ActRecs /\ act.pc = "confirm"
  BY InCommand DEF confirm_cleanup, AtStep
<1>1. file' = file /\ edits' = edits /\ setupFaults' = setupFaults /\ dirs' = dirs
  BY DEF confirm_cleanup, KeepHostEnv, counts
<1>2. act.kind = "cleanup" /\ ~act.fresh
  BY <1>0 DEF CommandInv, StageInv, ActRecs
<1>3. CASE Return("refused")
  BY <1>0, <1>1, <1>2, <1>3, Refused0 DEF HostInv
<1> DEFINE yes == {i \in Range(act.todo) : i.status = "removable"}
           go == Those(act.todo, yes)
           paths == [i \in DOMAIN go |-> go[i].path]
<1>4. CASE /\ load_setup_ledger /\ plan_setup_cleanup = act.todo
           /\ act' = [act EXCEPT !.pc = "remove", !.todo = RemovalOrder(paths)]
           /\ installed' = FALSE /\ result' = result
  <2>1. file["ledger"] # Absent /\ file["ledger"].by = "setup"
    BY <1>0, <1>4 DEF load_setup_ledger, Readable, Content, HostInv
  <2>2. /\ act.todo \in Seq(Items)
        /\ \A i \in DOMAIN act.todo :
             act.todo[i].status = "removable" /\ act.todo[i].path \in Files =>
               (file[act.todo[i].path] # Absent => file[act.todo[i].path].by = "setup")
    BY <1>0, <1>4, <2>1, PlanIs
  <2>3. \A x \in yes : x.path \in Files => (file[x.path] # Absent => file[x.path].by = "setup")
    BY <2>2 DEF Range
  <2>4. go \in Seq(Items) /\ Range(go) \subseteq yes
    BY <2>2, ThoseFacts
  <2> HIDE DEF go, yes
  <2>5. /\ Len(go) \in Nat /\ DOMAIN go = 1 .. Len(go)
        /\ \A i \in DOMAIN go : go[i] \in Items /\ go[i] \in Range(go)
    BY <2>4 DEF Range
  <2>6. paths \in [1 .. Len(go) -> Paths]
    BY <2>5 DEF Items
  <2>7. paths \in Seq(Paths)
    BY <2>5, <2>6
  <2>8. \A p \in Range(paths) : p \in Files => (file[p] # Absent => file[p].by = "setup")
    BY <2>3, <2>4, <2>5 DEF Range
  <2> HIDE DEF paths
  <2>9. /\ RemovalOrder(paths) \in Seq(Paths) /\ RemovalOrder(paths) # <<>>
        /\ Range(RemovalOrder(paths)) \cap Files \subseteq Range(paths) \cup {"ledger"}
    BY <2>7, RemovalIs
  <2>10. /\ act' \in ActRecs /\ act'.pc = "remove" /\ act'.todo = RemovalOrder(paths)
         /\ act'.kind = "cleanup" /\ ~act'.fresh /\ act'.ledger = act.ledger
    BY <1>0, <1>2, <1>4, <2>9 DEF ActRecs
  <2>11. HostInv' /\ OwnStep
    BY <1>0, <1>1, <1>4 DEF HostInv, OwnStep, Content, SuccessIsUsable
  <2>12. StageInv'
    <3>1. \A p \in Files \cap Range(RemovalOrder(paths)) : file'[p] # Absent => file'[p].by = "setup"
      BY <1>1, <2>1, <2>8, <2>9
    <3> QED
      BY <1>4, <2>9, <2>10, <3>1 DEF StageInv, SetupSteps, Dirs
  <2>13. CreatedInv'
    BY <2>10 DEF CreatedInv
  <2>14. LedgerSound(file', act'.ledger)
    BY <1>0, <1>1, <2>10 DEF CommandInv
  <2> QED
    BY <2>10, <2>11, <2>12, <2>13, <2>14, GoesOn DEF CommandInv
<1> QED
  BY <1>3, <1>4 DEF confirm_cleanup

LEMMA CleanupKeeps ==
    ASSUME SetupInv, execute_setup_cleanup
    PROVE  SetupGoal
<1>0. HostInv /\ CommandInv /\ act \in ActRecs /\ act.pc = "remove"
  BY InCommand DEF execute_setup_cleanup, AtStep
<1>1. /\ act.kind = "cleanup" /\ ~act.fresh /\ ~installed
      /\ act.todo \in Seq(Paths) /\ act.todo # <<>>
      /\ \A p \in Files \cap Range(act.todo) : file[p] # Absent => file[p].by = "setup"
  BY <1>0 DEF CommandInv, StageInv, ActRecs
<1>2. PICK p \in Paths : p = Head(act.todo)
  BY <1>1, HeadTailRange
<1>3. /\ Tail(act.todo) \in Seq(Paths) /\ Range(act.todo) = {p} \cup Range(Tail(act.todo))
      /\ p \in Range(act.todo)
  BY <1>1, <1>2, HeadTailRange
<1>4. /\ file' = file \/ (p \in Files /\ file' = [file EXCEPT ![p] = Absent])
      /\ dirs' \in SUBSET Dirs /\ edits' = edits /\ setupFaults' = setupFaults
      /\ dirs' = dirs \/ (dirs' = dirs \ {p} /\ (p \in Dirs => Entries(p) = {}))
  BY <1>0, <1>2 DEF execute_setup_cleanup, KeepHostEnv, counts, HostInv
<1>5. \/ Return("refused")
      \/ /\ Tail(act.todo) # <<>> /\ act' = [act EXCEPT !.todo = Tail(@)]
         /\ UNCHANGED <<result, installed>>
  BY DEF execute_setup_cleanup
<1>6. installed' = installed
  BY <1>0, <1>1, <1>5 DEF Return, HostInv
<1>7. /\ HostInv' /\ OwnStep /\ (\A q \in Files : file'[q] = Absent \/ file'[q] = file[q])
      /\ \A q \in Files : Foreign(file'[q]) => Foreign(file[q])
  <2>1. CASE p \in Files /\ file' = [file EXCEPT ![p] = Absent]
    <3>1. file[p] # Absent => file[p].by = "setup"
      BY <1>1, <1>3, <2>1
    <3>2. /\ HostInv' /\ OwnStep /\ file'[p] = Absent /\ (\A q \in Files : q # p => file'[q] = file[q])
          /\ \A q \in Files : Foreign(file'[q]) => Foreign(file[q])
      <4>1. dirs' = dirs
        BY <1>0, <1>4, <2>1 DEF HostInv, Files, Dirs
      <4> QED
        BY <1>0, <1>1, <1>4, <1>6, <2>1, <3>1, <4>1, RemovedIs DEF HostInv
    <3> QED
      BY <3>2
  <2>2. CASE file' = file
    <3>1. file["audit_key"] # Absent => "state_dir" \in dirs'
      BY <1>0, <1>4, KeyStays DEF HostInv, Dirs
    <3> QED
      BY <1>0, <1>1, <1>4, <1>6, <2>2, <3>1 DEF HostInv, OwnStep, Content, SuccessIsUsable
  <2> QED
    BY <1>4, <2>1, <2>2
<1>8. CASE Return("refused")
  <2>1. act' = NoCommand
    BY <1>8 DEF Return
  <2> QED
    BY <1>1, <1>7, <2>1, Ended
<1>9. CASE Tail(act.todo) # <<>> /\ act' = [act EXCEPT !.todo = Tail(@)]
  <2>1. /\ act' \in ActRecs /\ act'.pc = "remove" /\ act'.todo = Tail(act.todo)
        /\ act'.kind = "cleanup" /\ ~act'.fresh /\ act'.ledger = act.ledger
    BY <1>0, <1>1, <1>3, <1>9 DEF ActRecs
  <2>2. LedgerSound(file', act'.ledger)
    <3>1. act.ledger \in Seq(Resources) /\ LedgerSound(file, act.ledger)
      BY <1>0 DEF ActRecs, CommandInv
    <3> QED
      BY <1>7, <2>1, <3>1, LedgerKept
  <2>3. StageInv'
    BY <1>1, <1>3, <1>6, <1>7, <1>9, <2>1 DEF StageInv, SetupSteps, Dirs
  <2>4. CreatedInv'
    BY <2>1 DEF CreatedInv
  <2> QED
    BY <1>7, <2>1, <2>2, <2>3, <2>4, GoesOn DEF CommandInv
<1> QED
  BY <1>5, <1>8, <1>9

LEMMA SetupBegins == SetupInit => SetupInv
<1> SUFFICES ASSUME SetupInit PROVE SetupInv
  OBVIOUS
<1>0. act = NoCommand /\ edits = 0 /\ setupFaults = 0 /\ result = "none"
  BY DEF SetupInit
<1>1. \A c, b : c \in Texts \ {"absent"} /\ b \in {"setup", "operator"} =>
         /\ Written(c, b) \in FileRecs /\ Written(c, b).content = c /\ Written(c, b).by = b
         /\ Written(c, b) # Absent
  BY NothingFound, NoFileIsAbsent DEF Written, FileRecs
<1>2. {"k0", "expected", "other", "volatile"} \subseteq Texts \ {"absent"} /\ Files = {"config", "audit_key", "policy", "ledger"}
  BY DEF Texts, Keys, Files
<1>3. CASE file = NoFiles /\ dirs \in {{}, {"config_dir"}} /\ installed = FALSE
  BY <1>0, <1>3 DEF SetupInv, HostInv, NoFiles, FileStates, Dirs, Content, SuccessIsUsable, Files
<1>4. CASE \E p \in {"audit_key", "policy"}, c \in {"k0", "expected", "other"} :
             /\ file = [NoFiles EXCEPT ![p] = Written(c, "operator")] /\ dirs \in SUBSET Dirs
             /\ installed = FALSE /\ (c = "k0" <=> p = "audit_key")
             /\ p = "audit_key" => "state_dir" \in dirs
  <2>1. PICK p \in {"audit_key", "policy"}, c \in {"k0", "expected", "other"} :
             /\ file = [NoFiles EXCEPT ![p] = Written(c, "operator")] /\ dirs \in SUBSET Dirs
             /\ installed = FALSE /\ (c = "k0" <=> p = "audit_key")
             /\ p = "audit_key" => "state_dir" \in dirs
    BY <1>4
  <2>2. Written(c, "operator") \in FileRecs /\ Written(c, "operator").content = c
        /\ Written(c, "operator") # Absent
    BY <1>1, <1>2
  <2>3. /\ file \in FileStates /\ file[p] = Written(c, "operator")
        /\ \A q \in Files : q # p => file[q] = Absent
    BY <2>1, <2>2 DEF NoFiles, FileStates, Files
  <2>4. \A q \in Files : Content(q) = IF q = p THEN c ELSE "absent"
    BY <2>2, <2>3 DEF Content
  <2> QED
    BY <1>0, <1>2, <2>1, <2>3, <2>4 DEF SetupInv, HostInv, Dirs, SuccessIsUsable, Keys
<1>5. CASE file = OldHost /\ dirs = {"config_dir", "state_dir"} /\ installed = TRUE
  <2> DEFINE l == [Written("entries", "setup") EXCEPT !.entries = OldLedger]
  <2>1. /\ DOMAIN OldLedger = 1 .. 5
        /\ OldLedger[1] = Resource("config_dir", TRUE, Absent)
        /\ OldLedger[2] = Resource("state_dir", TRUE, Absent)
        /\ OldLedger[3] = Resource("audit_key", TRUE, "k0")
        /\ OldLedger[4] = Resource("policy", TRUE, "expected")
        /\ OldLedger[5] = Resource("config", TRUE, "volatile")
    BY DEF OldLedger
  <2>3. /\ "config_dir" \in Paths /\ "state_dir" \in Paths /\ "audit_key" \in Paths /\ "policy" \in Paths
        /\ "config" \in Paths /\ "k0" \in Texts /\ "expected" \in Texts /\ "volatile" \in Texts
    BY <1>2 DEF Paths, Files, Dirs
  <2>4. /\ OldLedger[1] \in Resources /\ OldLedger[1].path = "config_dir" /\ OldLedger[1].digest = Absent
        /\ OldLedger[2] \in Resources /\ OldLedger[2].path = "state_dir" /\ OldLedger[2].digest = Absent
        /\ OldLedger[3] \in Resources /\ OldLedger[3].path = "audit_key" /\ OldLedger[3].digest = "k0"
        /\ OldLedger[4] \in Resources /\ OldLedger[4].path = "policy" /\ OldLedger[4].digest = "expected"
        /\ OldLedger[5] \in Resources /\ OldLedger[5].path = "config" /\ OldLedger[5].digest = "volatile"
    BY <2>1, <2>3 DEF Resource, Resources
  <2>10. OldLedger \in Seq(Resources)
    <3>1. PICK a, b, c, d, e : /\ OldLedger = <<a, b, c, d, e>> /\ a = OldLedger[1] /\ b = OldLedger[2]
                               /\ c = OldLedger[3] /\ d = OldLedger[4] /\ e = OldLedger[5]
      BY <2>1 DEF OldLedger
    <3>2. a \in Resources /\ b \in Resources /\ c \in Resources /\ d \in Resources /\ e \in Resources
      BY <2>4, <3>1
    <3>3. <<a, b, c, d, e>> \in Seq(Resources)
      BY <3>2
    <3> QED
      BY <3>1, <3>3
  <2>5. l \in FileRecs /\ l.content = "entries" /\ l.by = "setup" /\ l.entries = OldLedger
    BY <2>10 DEF Written, FileRecs, Texts
  <2> HIDE DEF l
  <2>6. /\ file["config"] = Written("volatile", "setup") /\ file["audit_key"] = Written("k0", "setup")
        /\ file["policy"] = Written("expected", "setup") /\ file["ledger"] = l
        /\ file = [p \in Files |-> file[p]]
    BY <1>5 DEF OldHost, Files, l
  <2>7. file \in FileStates
    BY <1>1, <1>2, <2>5, <2>6 DEF FileStates
  <2>8. /\ Content("config") = "volatile" /\ Content("audit_key") = "k0" /\ Content("policy") = "expected"
        /\ Content("ledger") = "entries"
    BY <1>1, <1>2, <2>5, <2>6, NoFileIsAbsent DEF Content
  <2>9. LedgerSound(file, l.entries)
    <3>1. \A i \in DOMAIN OldLedger : i \in {1, 2, 3, 4, 5}
      BY <2>1
    <3>3. \A p \in {"config", "audit_key", "policy"} : ~Foreign(file[p])
      BY <1>1, <1>2, <2>6 DEF Foreign
    <3>4. \A i \in DOMAIN OldLedger : OldLedger[i].digest \in Keys => i = 3
      BY <2>4, <3>1, NoFileIsAbsent DEF Keys, Texts
    <3>5. \A i \in DOMAIN OldLedger :
            /\ OldLedger[i].path \in Files => OldLedger[i].digest # Absent
            /\ OldLedger[i].path \in Files => OldLedger[i].digest # "other" /\ ~Foreign(file[OldLedger[i].path])
      BY <1>2, <2>4, <3>1, <3>3, NoFileIsAbsent
    <3> QED
      BY <2>5, <3>4, <3>5 DEF LedgerSound
  <2> QED
    BY <1>0, <1>5, <2>5, <2>6, <2>7, <2>8, <2>9
    DEF SetupInv, HostInv, Dirs, SuccessIsUsable, Usable, load_config, valid_audit_key, load_setup_ledger,
        Readable, Keys
<1> QED
  BY <1>3, <1>4, <1>5 DEF SetupInit, Dirs

LEMMA SetupStepKeeps ==
    ASSUME SetupInv, [SetupNext]_setupVars
    PROVE  SetupGoal
<1>1. CASE SetupNext
  BY <1>1, ExistingKeeps, MigrateKeeps, ValidateKeeps, EnsureKeeps, CreateKeyKeeps, CreatePolicyKeeps,
     CreateConfigKeeps, LedgerStepKeeps, SetupWriteKeeps, UndoKeeps, AdoptKeeps, ConfirmKeeps, CleanupKeeps,
     WriteFailsKeeps, DirectoryFailsKeeps, MigrationFailsKeeps, SetupDiesKeeps, SetupStarts, AdoptStarts,
     CleanupStarts, DaemonKeeps, OperatorKeeps
  DEF SetupNext, Execute
<1>2. CASE UNCHANGED setupVars
  <2>1. SetupInv'
    BY <1>2 DEF setupVars, counts, SetupInv, HostInv, CommandInv, StageInv, CreatedInv, Filing, Writing, Content,
         SuccessIsUsable, Usable, load_config, valid_audit_key, load_setup_ledger, Readable
  <2>2. OwnStep /\ CleanStep
    BY <1>2 DEF setupVars, OwnStep, CleanStep
  <2> QED
    BY <2>1, <2>2 DEF SetupGoal
<1> QED
  BY <1>1, <1>2

SetupSpec == SetupInit /\ [][SetupNext]_setupVars
\* On every host and through every crash, edit and failing call, setup keeps its
\* invariant, and with it a setup that succeeded is usable.
THEOREM SetupInvariant == SetupSpec => []SetupInv
<1>1. SetupInv /\ [SetupNext]_setupVars => SetupInv'
  BY SetupStepKeeps DEF SetupGoal
<1> QED
  BY <1>1, SetupBegins, PTL DEF SetupSpec

\* Rollback and cleanup remove only files that setup wrote, and a setup that
\* answers with an error leaves every file as it found it.
THEOREM UndoHolds == SetupSpec => OnlyOwnIsRemoved /\ FailureLeavesNothing
<1>1. SetupInv /\ [SetupNext]_setupVars => [OwnStep]_setupVars /\ [CleanStep]_setupVars
  BY SetupStepKeeps DEF SetupGoal
<1>2. SetupSpec => [][OwnStep]_setupVars /\ [][CleanStep]_setupVars
  BY <1>1, SetupInvariant, PTL DEF SetupSpec
<1> QED
  BY <1>2, PTL DEF OnlyOwnIsRemoved, FailureLeavesNothing, OwnStep, CleanStep


-----------------------------------------------------------------------------
(* The kernel.                                                             *)

Frames(o) == [id : Nat, what : {"initialize", "list", "call"}, n : Nat, r : o.asks]
Answers == [id : Nat, form : Forms \cup {"unasked"}, n : Nat]
Clients(o) == [alive : BOOLEAN, ready : BOOLEAN, last_id : Nat, inbox : Seq(Frames(o)),
               outbox : Seq(Answers), said : SUBSET Answers, unasked : Nat]
Methods(o) == {r.method : r \in o.asks}
Listable(o) == UNION {{<<s>> \o t : t \in o.tools[s]} : s \in Range(o.upstreams)}
Responses(o) ==
    [n : Nat, body : {"none", "error", "info", "tools", "denied", "tool_error", "result"}, of : Nat,
     tools : SUBSET o.allow]
Statuses == {"none", "ok", "invalid_arguments", "execution_error"}
Tasks(o) ==
    [n : Nat, method : Methods(o), r : o.asks, step : {"none", "list", "call"}, ext : Nat \ {0},
     listed : SUBSET Listable(o), reply : Responses(o), plain : BOOLEAN,
     status : Statuses]
Events(o) == [what : Methods(o) \cup {"agent_launch", "agent_exit"}, n : Nat, status : Statuses]

KernelType ==
    /\ opts \in CommandLines /\ held \in Nat /\ agent \in {"none", "alive", "gone"}
    /\ up \in [Servers -> Clients(opts)] /\ task \in Tasks(opts) \cup {NoTask}
    /\ requests \in Nat /\ replies \in Seq(Responses(opts)) /\ log \in Seq(Events(opts))

\* The agent's launch is recorded before it can run.
Launched == log # <<>> /\ log[1].what = "agent_launch"
AgentInv ==
    /\ kpc = "setup" => log = <<>>
    /\ kpc \notin {"setup"} \cup Over => Launched
    /\ agent # "none" => Launched
    /\ held <= Len(Stages) /\ (held = Len(Stages) => agent # "none")
    /\ kpc = "setup" => held < Len(Stages)
    /\ kpc = "spawn" => held + 1 = Len(Stages)

\* A request that may be sent to an upstream.
Routed(r, s) ==
    /\ r.tool \in Seq(STRING) /\ Len(r.tool) > 1 /\ Namespace(r.tool) = s
    /\ check(opts, r.tool, r.argument)
Busy == {"transact", "await", "audit", "send"}
\* What is being served, and that it is served once.
TaskInv ==
    /\ kpc \in Busy => /\ task \in Tasks(opts) /\ task.n = requests /\ requests > 0
                       /\ \A i \in DOMAIN replies : replies[i].n < requests
    /\ kpc \notin Busy \cup Over => task = NoTask
    /\ kpc \in {"transact", "await"} =>
         /\ task.step = "list" => task.ext \in DOMAIN opts.upstreams
         /\ task.step = "call" => Known(task.r.tool) /\ Routed(task.r, Namespace(task.r.tool))
         /\ task.step # "none"
    /\ kpc \in {"audit", "send"} =>
         /\ task.reply \in Responses(opts) /\ task.reply.n = task.n
         /\ task.step = "call" => task.status # "none"
         /\ task.reply.body = "result" =>
              task.reply.of = task.n /\ task.status = "ok" /\ \E c \in toolRuns : c.n = task.n
    /\ kpc = "send" /\ task.status # "none" =>
         \E e \in Range(log) : e.n = task.n /\ e.status = task.status

\* A call's event is on record, or it is still being served, or the run ends.
Owed(n) ==
    \/ kpc \in Busy /\ n = task.n /\ task.step = "call"
    \/ Logged(n) /\ n \in 1 .. requests
    \/ kpc \in Over
RunsInv ==
    /\ \A c \in toolRuns : check(opts, c.tool, c.argument) /\ Owed(c.n)
    /\ \A s \in Servers : \A f \in Range(up[s].inbox) :
         /\ f.id <= up[s].last_id
         /\ f.what = "call" => Routed(f.r, s) /\ Owed(f.n)
    /\ \A s \in Servers : \A a \in Range(up[s].outbox) \cup up[s].said : a.id <= up[s].last_id

\* Only the pending request has the last number: who answers it answers this task.
ExchangeInv ==
    kpc = "await" =>
      /\ \A f \in Range(up[Peer].inbox) : f.id = up[Peer].last_id => f.n = task.n /\ f.what = Asked
      /\ \A a \in Range(up[Peer].outbox) \cup up[Peer].said :
           a.id = up[Peer].last_id =>
             a.form = "unasked" \/ (a.n = task.n /\ (Asked = "call" => \E c \in toolRuns : c.n = task.n))

RepliesInv ==
    \A i \in DOMAIN replies :
      /\ replies[i].n \in 1 .. requests
      /\ \A j \in DOMAIN replies : replies[i].n = replies[j].n => i = j
      /\ replies[i].body = "result" =>
           /\ replies[i].of = replies[i].n
           /\ \E c \in toolRuns : c.n = replies[i].n
           /\ \E e \in Range(log) : e.n = replies[i].n /\ e.status = "ok"

KernelInv == KernelType /\ AgentInv /\ TaskInv /\ RunsInv /\ ExchangeInv /\ RepliesInv

LEMMA ConcatIs ==
    ASSUME NEW S, NEW s \in Seq(S), NEW t \in Seq(S)
    PROVE  /\ s \o t \in Seq(S) /\ Len(s \o t) = Len(s) + Len(t)
           /\ \A i \in 1 .. Len(s) : (s \o t)[i] = s[i]
           /\ \A i \in 1 .. Len(t) : (s \o t)[Len(s) + i] = t[i]
OBVIOUS

LEMMA OptionsAre ==
    ASSUME opts \in CommandLines
    PROVE  /\ opts.upstreams \in Seq(STRING \ StageNames) /\ opts.forms \subseteq Forms
           /\ Servers \subseteq STRING \ StageNames
           /\ \A r \in opts.asks :
                /\ r.plain \in BOOLEAN
                /\ r.method = "tools/call" /\ r.params \in {"valid", "cr"} => r.tool \in Seq(STRING)
<1>1. opts.upstreams \in Seq(STRING \ StageNames)
  BY KernelAssumption
<1>2. \A i \in DOMAIN opts.upstreams : opts.upstreams[i] \in STRING \ StageNames
  BY <1>1
<1> QED
  BY <1>1, <1>2, KernelAssumption DEF Servers, Range

\* The agent is the last part of a run, and no server has its name.
LEMMA StagesAre ==
    ASSUME opts \in CommandLines
    PROVE  /\ Len(Stages) \in Nat \ {0}
           /\ \A i \in 1 .. Len(Stages) : Stages[i] = "agent" => i = Len(Stages)
<1> DEFINE u == opts.upstreams
           T == STRING \cup StageNames
           m == [i \in DOMAIN u |-> u[i]]
           a == <<"runtime", "profile">>
           z == <<"audit", "proxy", "agent">>
<1>1. /\ u \in Seq(STRING \ StageNames) /\ Len(u) \in Nat /\ DOMAIN u = 1 .. Len(u)
      /\ \A i \in DOMAIN u : u[i] \in STRING \ StageNames
  BY OptionsAre
<1>2. CASE opts.mode = "run"
  <2>1. Stages = (a \o m) \o z
    BY <1>2 DEF Stages
  <2>2. m \in [1 .. Len(u) -> T]
    BY <1>1
  <2>3. m \in Seq(T) /\ Len(m) = Len(u) /\ \A i \in 1 .. Len(u) : m[i] = u[i]
    BY <1>1, <2>2
  <2>4. a \in Seq(T) /\ Len(a) = 2 /\ a[1] = "runtime" /\ a[2] = "profile"
    BY DEF StageNames
  <2>5. z \in Seq(T) /\ Len(z) = 3 /\ z[1] = "audit" /\ z[2] = "proxy" /\ z[3] = "agent"
    BY DEF StageNames
  <2> DEFINE b == a \o m
  <2> HIDE DEF m, a, z, T
  <2>6. /\ b \in Seq(T) /\ Len(b) = Len(a) + Len(m)
        /\ \A i \in 1 .. Len(a) : b[i] = a[i]
        /\ \A i \in 1 .. Len(m) : b[Len(a) + i] = m[i]
    <3>1. a \in Seq(T) /\ m \in Seq(T)
      BY <2>3, <2>4
    <3> QED
      BY <3>1, ConcatIs
  <2> HIDE DEF b
  <2>7. Len(b) \in Nat /\ \A i \in 1 .. Len(b) : b[i] # "agent"
    <3>1. Len(b) = 2 + Len(u) /\ Len(b) \in Nat
      BY <1>1, <2>3, <2>4, <2>6
    <3>2. ASSUME NEW i \in 1 .. Len(b) PROVE b[i] # "agent"
      <4>1. CASE i \in {1, 2}
        BY <2>4, <2>6, <4>1
      <4>2. CASE i > 2
        <5>1. PICK j \in 1 .. Len(u) : i = 2 + j
          <6>1. i - 2 \in 1 .. Len(u) /\ i = 2 + (i - 2)
            BY <1>1, <3>1, <4>2
          <6> QED
            BY <6>1
        <5>2. b[i] = u[j]
          BY <2>3, <2>4, <2>6, <5>1
        <5> QED
          BY <1>1, <5>2 DEF StageNames
      <4> QED
        BY <3>1, <4>1, <4>2
    <3> QED
      BY <3>1, <3>2
  <2>8. /\ Len(Stages) = Len(b) + Len(z)
        /\ \A i \in 1 .. Len(b) : Stages[i] = b[i]
        /\ \A i \in 1 .. Len(z) : Stages[Len(b) + i] = z[i]
    <3>1. Stages = b \o z
      BY <2>1 DEF b
    <3>2. b \in Seq(T) /\ z \in Seq(T)
      BY <2>5, <2>6
    <3> QED
      BY <3>1, <3>2, ConcatIs
  <2> HIDE DEF u
  <2>9. ASSUME NEW i \in 1 .. Len(Stages), Stages[i] = "agent" PROVE i = Len(Stages)
    <3>1. i \in 1 .. Len(b) + 3 /\ Len(Stages) = Len(b) + 3
      BY <2>5, <2>8
    <3>2. i \notin 1 .. Len(b)
      BY <2>7, <2>8, <2>9
    <3>3. PICK j \in {1, 2, 3} : i = Len(b) + j
      <4>1. i - Len(b) \in {1, 2, 3} /\ i = Len(b) + (i - Len(b))
        BY <2>7, <3>1, <3>2
      <4> QED
        BY <4>1
    <3>4. z[j] = "agent"
      BY <2>5, <2>8, <2>9, <3>3
    <3> QED
      BY <2>5, <3>1, <3>3, <3>4
  <2>10. Len(Stages) \in Nat \ {0}
    BY <2>5, <2>7, <2>8
  <2> QED
    BY <2>9, <2>10
<1>3. CASE opts.mode # "run"
  <2>1. Stages = <<"runtime", "profile", "audit", "proxy", "preset", "reporter", "agent">>
    BY <1>3 DEF Stages
  <2> QED
    BY <2>1
<1> QED
  BY <1>2, <1>3

LEMMA LoggedIs == \A n : Logged(n) <=> \E e \in Range(log) : e.n = n
BY DEF Logged, Range

\* An event is added at the end.
LEMMA LogGrows ==
    ASSUME KernelType, opts' = opts, log' = log \/ \E e \in Events(opts) : log' = Append(log, e)
    PROVE  /\ log' \in Seq(Events(opts)) /\ Range(log) \subseteq Range(log')
           /\ (Launched => Launched') /\ \A n : Logged(n) => Logged(n)'
<1>1. log \in Seq(Events(opts))
  BY DEF KernelType
<1>2. CASE log' = log
  BY <1>1, <1>2 DEF Launched, Logged
<1>3. CASE \E e \in Events(opts) : log' = Append(log, e)
  <2>1. PICK e \in Events(opts) : log' = Append(log, e)
    BY <1>3
  <2>2. log' \in Seq(Events(opts)) /\ Range(log') = Range(log) \cup {e}
    BY <1>1, <2>1, AppendRange
  <2>3. Launched => Launched'
    <3>1. ASSUME Launched PROVE Launched'
      <4>1. Len(log) \in Nat /\ Len(log) # 0 /\ Len(log') = Len(log) + 1
        BY <1>1, <2>1, <3>1, NoElements, AppendRange DEF Launched
      <4>2. log'[1] = log[1]
        BY <1>1, <2>1, <4>1
      <4>3. log' # <<>>
        BY <2>2, <4>1, NoElements
      <4> QED
        BY <3>1, <4>2, <4>3 DEF Launched
    <3> QED
      BY <3>1
  <2>4. \A n : Logged(n) => Logged(n)'
    <3>1. \A n : Logged(n)' <=> \E x \in Range(log') : x.n = n
      BY DEF Logged, Range
    <3> QED
      BY <2>2, <3>1, LoggedIs
  <2> QED
    BY <2>2, <2>3, <2>4
<1> QED
  BY <1>2, <1>3

\* The clients, when nothing is sent and nothing answered.
ClientsKept ==
    /\ up' \in [Servers -> Clients(opts)]
    /\ \A s \in Servers :
         /\ up'[s].last_id = up[s].last_id /\ up'[s].ready = up[s].ready
         /\ Range(up'[s].inbox) \subseteq Range(up[s].inbox)
         /\ Range(up'[s].outbox) \subseteq Range(up[s].outbox) /\ up'[s].said = up[s].said

\* The same, but a number may have been given out.
ClientsAge ==
    /\ up' \in [Servers -> Clients(opts)]
    /\ \A s \in Servers :
         /\ up[s].last_id <= up'[s].last_id
         /\ Range(up'[s].inbox) \subseteq Range(up[s].inbox)
         /\ Range(up'[s].outbox) \subseteq Range(up[s].outbox) /\ up'[s].said = up[s].said

LEMMA KeptIsAged ==
    ASSUME KernelType, ClientsKept
    PROVE  ClientsAge
<1>1. \A s \in Servers : up[s] \in Clients(opts)
  BY DEF KernelType
<1>2. \A s \in Servers : up[s].last_id \in Nat
  BY <1>1 DEF Clients
<1>3. ASSUME NEW s \in Servers
      PROVE  up[s].last_id <= up'[s].last_id
  <2>1. up'[s].last_id = up[s].last_id
    BY DEF ClientsKept
  <2>2. up[s].last_id \in Nat
    BY <1>2
  <2> QED
    BY <2>1, <2>2
<1>4. ASSUME NEW s \in Servers
      PROVE  /\ Range(up'[s].inbox) \subseteq Range(up[s].inbox)
             /\ Range(up'[s].outbox) \subseteq Range(up[s].outbox) /\ up'[s].said = up[s].said
  BY DEF ClientsKept
<1>5. up' \in [Servers -> Clients(opts)]
  BY DEF ClientsKept
<1> QED
  BY <1>3, <1>4, <1>5 DEF ClientsAge

LEMMA RunsKept ==
    ASSUME KernelInv, opts' = opts, ClientsAge, toolRuns' = toolRuns, \A n : Owed(n) => Owed(n)'
    PROVE  RunsInv'
<1>1. Servers' = Servers
  BY DEF Servers
<1>2. \A r, s : Routed(r, s)' <=> Routed(r, s)
  BY DEF Routed
<1>3. \A s \in Servers :
        /\ up[s] \in Clients(opts) /\ up'[s] \in Clients(opts)
        /\ up[s].last_id \in Nat /\ up'[s].last_id \in Nat
        /\ (\A f \in Range(up[s].inbox) : f.id \in Nat)
        /\ (\A a \in Range(up[s].outbox) \cup up[s].said : a.id \in Nat)
  <2>1. \A s \in Servers : up[s] \in Clients(opts) /\ up'[s] \in Clients(opts)
    BY DEF KernelInv, KernelType, ClientsAge
  <2>2. ASSUME NEW s \in Servers
        PROVE  /\ up[s].last_id \in Nat /\ up'[s].last_id \in Nat
               /\ (\A f \in Range(up[s].inbox) : f.id \in Nat)
               /\ (\A a \in Range(up[s].outbox) \cup up[s].said : a.id \in Nat)
    <3>1. /\ up[s].last_id \in Nat /\ up'[s].last_id \in Nat /\ up[s].inbox \in Seq(Frames(opts))
          /\ up[s].outbox \in Seq(Answers) /\ up[s].said \subseteq Answers
      BY <2>1 DEF Clients
    <3>2. Range(up[s].inbox) \subseteq Frames(opts) /\ Range(up[s].outbox) \subseteq Answers
      BY <3>1 DEF Range
    <3> QED
      BY <3>1, <3>2 DEF Frames, Answers
  <2> QED
    BY <2>1, <2>2
<1>4. \A s \in Servers : \A f \in Range(up'[s].inbox) :
         /\ f.id <= up'[s].last_id
         /\ f.what = "call" => Routed(f.r, s) /\ Owed(f.n)
  BY <1>3 DEF KernelInv, RunsInv, ClientsAge
<1>5. \A s \in Servers : \A a \in Range(up'[s].outbox) \cup up'[s].said : a.id <= up'[s].last_id
  BY <1>3 DEF KernelInv, RunsInv, ClientsAge
<1> QED
  BY <1>1, <1>2, <1>4, <1>5 DEF KernelInv, RunsInv

\* The server a task needs.
LEMMA PeerIs ==
    ASSUME KernelInv, kpc \in {"transact", "await"}
    PROVE  Peer \in Servers /\ up[Peer] \in Clients(opts) /\ task \in Tasks(opts)
<1>1. task \in Tasks(opts) /\ task.step \in {"list", "call"}
  BY DEF KernelInv, TaskInv, Busy, Tasks
<1>0. /\ task.step = "list" => task.ext \in DOMAIN opts.upstreams
      /\ task.step = "call" => Known(task.r.tool)
  BY DEF KernelInv, TaskInv
<1>2. ASSUME task.step = "list" PROVE Peer \in Servers
  <2>1. Peer = opts.upstreams[task.ext]
    BY <1>2 DEF Peer
  <2>2. Servers = {opts.upstreams[i] : i \in DOMAIN opts.upstreams}
    BY DEF Servers, Range
  <2> QED
    BY <1>0, <1>2, <2>1, <2>2
<1>3. ASSUME task.step = "call" PROVE Peer \in Servers
  <2>1. Peer = Namespace(task.r.tool)
    BY <1>3 DEF Peer
  <2>2. Namespace(task.r.tool) \in Servers
    BY <1>0, <1>3 DEF Known
  <2> QED
    BY <2>1, <2>2
<1>4. Peer \in Servers
  BY <1>1, <1>2, <1>3
<1> QED
  BY <1>1, <1>4 DEF KernelInv, KernelType

\* A step that serves nothing and sends nothing.
LEMMA QuietKeeps ==
    ASSUME KernelInv, UNCHANGED <<opts, task, requests, toolRuns, replies>>, held' \in Nat,
           agent' \in {"none", "alive", "gone"}, ClientsAge, kpc' = "await" => ClientsKept,
           log' = log \/ \E e \in Events(opts) : log' = Append(log, e),
           \/ kpc' = kpc \/ kpc' \in Over
           \/ kpc \notin Busy \cup Over /\ kpc' \notin Busy \cup Over,
           kpc \in Over => kpc' \in Over, AgentInv'
    PROVE  KernelInv'
<1>1. /\ log' \in Seq(Events(opts)) /\ Range(log) \subseteq Range(log')
      /\ \A n : Logged(n) => Logged(n)'
  BY LogGrows DEF KernelInv
<1>2. KernelType'
  BY <1>1 DEF KernelInv, KernelType, ClientsAge, Servers
<1>3. \A n : Owed(n) => Owed(n)'
  BY <1>1 DEF Owed, Busy, Over
<1>4. RunsInv'
  BY <1>3, RunsKept
<1>5. RepliesInv'
  BY <1>1 DEF KernelInv, RepliesInv
<1>6. kpc' \in Busy => kpc' = kpc
  BY DEF Busy, Over
<1>7. Known(task.r.tool)' <=> Known(task.r.tool)
  BY DEF Known, Servers
<1>8. TaskInv'
  BY <1>1, <1>6, <1>7 DEF KernelInv, TaskInv, Routed, Busy, Over
<1>9. ExchangeInv'
  <2>1. SUFFICES ASSUME kpc' = "await" PROVE ExchangeInv'
    BY DEF ExchangeInv
  <2>2. kpc = "await"
    BY <1>6, <2>1 DEF Busy
  <2>3. Peer \in Servers /\ Peer' = Peer
    BY <2>2, PeerIs DEF Peer
  <2>4. ClientsKept /\ Asked' = Asked
    BY <2>1, <2>3 DEF Asked, ClientsKept
  <2> QED
    BY <2>2, <2>3, <2>4 DEF KernelInv, ExchangeInv, ClientsKept
<1> QED
  BY <1>2, <1>4, <1>5, <1>8, <1>9 DEF KernelInv

LEMMA StagesStay ==
    ASSUME opts' = opts
    PROVE  Stages' = Stages /\ Servers' = Servers
BY DEF Stages, Servers

\* One client's field that the invariants do not look at is set.
LEMMA ClientsStay ==
    ASSUME KernelType, up' = up
    PROVE  ClientsKept
BY DEF KernelType, ClientsKept

LEMMA ClientSet ==
    ASSUME KernelType, NEW s \in Servers, NEW b \in BOOLEAN,
           \/ up' = [up EXCEPT ![s].alive = b]
           \/ up' = [up EXCEPT ![s].alive = b, ![s].inbox = <<>>]
    PROVE  ClientsKept
<1>1. up \in [Servers -> Clients(opts)] /\ up[s] \in Clients(opts)
  BY DEF KernelType
<1>2. CASE up' = [up EXCEPT ![s].alive = b]
  <2> DEFINE v == [up[s] EXCEPT !.alive = b]
  <2>1. up' = [up EXCEPT ![s] = v]
    BY <1>2
  <2>2. /\ v \in Clients(opts) /\ v.last_id = up[s].last_id /\ v.ready = up[s].ready
        /\ v.inbox = up[s].inbox /\ v.outbox = up[s].outbox /\ v.said = up[s].said
    BY <1>1 DEF Clients
  <2> HIDE DEF v
  <2> QED
    BY <1>1, <2>1, <2>2 DEF ClientsKept
<1>3. CASE up' = [up EXCEPT ![s].alive = b, ![s].inbox = <<>>]
  <2> DEFINE v == [up[s] EXCEPT !.alive = b, !.inbox = <<>>]
  <2>1. up' = [up EXCEPT ![s] = v]
    BY <1>1, <1>3
  <2>2. <<>> \in Seq(Frames(opts)) /\ Range(<<>>) = {}
    BY DEF Range
  <2>3. /\ v \in Clients(opts) /\ v.last_id = up[s].last_id /\ v.ready = up[s].ready
        /\ v.inbox = <<>> /\ v.outbox = up[s].outbox /\ v.said = up[s].said
    BY <1>1, <2>2 DEF Clients
  <2> HIDE DEF v
  <2> QED
    BY <1>1, <2>1, <2>2, <2>3 DEF ClientsKept
<1> QED
  BY <1>2, <1>3

LEMMA EventsAre ==
    /\ [what |-> "agent_launch", n |-> 0, status |-> "ok"] \in Events(opts)
    /\ [what |-> "agent_exit", n |-> 0, status |-> "ok"] \in Events(opts)
    /\ task \in Tasks(opts) =>
         [what |-> task.method, n |-> task.n, status |-> task.status] \in Events(opts)
BY DEF Events, Tasks, Statuses

LEMMA AcquireKeeps ==
    ASSUME KernelInv, Acquire
    PROVE  KernelInv'
<1> DEFINE stage == Stages[held + 1]
<1>1. /\ opts' = opts /\ agent' = agent /\ task' = task /\ requests' = requests
      /\ toolRuns' = toolRuns /\ replies' = replies /\ log' = log
      /\ kpc = "setup" /\ held + 1 < Len(Stages)
      /\ \/ held' = held + 1 /\ kpc' = kpc
            /\ up' = IF stage \in Servers THEN [up EXCEPT ![stage].alive = TRUE] ELSE up
         \/ held' = held /\ kpc' = "unwind" /\ up' = up
  BY DEF Acquire
<1> HIDE DEF stage
<1>2. KernelType /\ opts \in CommandLines /\ held \in Nat /\ agent \in {"none", "alive", "gone"}
  BY DEF KernelInv, KernelType
<1>3. ClientsKept
  BY <1>1, <1>2, ClientSet, ClientsStay
<1>4. Len(Stages) \in Nat \ {0} /\ Stages' = Stages
  BY <1>1, <1>2, StagesAre, StagesStay
<1>5. AgentInv'
  BY <1>1, <1>2, <1>4 DEF KernelInv, AgentInv, Launched, Over
<1> QED
  BY <1>1, <1>2, <1>3, <1>5, KeptIsAged, QuietKeeps DEF Over, Busy

LEMMA RecordLaunchKeeps ==
    ASSUME KernelInv, record_launch
    PROVE  KernelInv'
<1> DEFINE e == [what |-> "agent_launch", n |-> 0, status |-> "ok"]
<1>1. /\ opts' = opts /\ agent' = agent /\ task' = task /\ requests' = requests
      /\ toolRuns' = toolRuns /\ replies' = replies /\ up' = up /\ held' = held
      /\ kpc = "setup" /\ held + 1 = Len(Stages)
      /\ \/ log' = Append(log, e) /\ kpc' = "spawn"
         \/ log' = log /\ kpc' = "unwind"
  BY DEF record_launch, Recorded
<1>2. /\ KernelType /\ opts \in CommandLines /\ held \in Nat /\ agent \in {"none", "alive", "gone"}
      /\ log = <<>>
  BY <1>1 DEF KernelInv, KernelType, AgentInv
<1>3. ClientsKept
  BY <1>1, <1>2, ClientsStay
<1>4. Len(Stages) \in Nat \ {0} /\ Stages' = Stages
  BY <1>1, <1>2, StagesAre, StagesStay
<1>5. e \in Events(opts) /\ e.what = "agent_launch"
  BY EventsAre
<1> HIDE DEF e
<1>6. kpc' = "spawn" => Launched'
  <2>1. ASSUME kpc' = "spawn" PROVE Launched'
    <3>1. log' = <<e>>
      BY <1>1, <1>2, <2>1
    <3> QED
      BY <1>5, <3>1 DEF Launched
  <2> QED
    BY <2>1
<1>7. AgentInv'
  <2>1. agent = "none"
    BY <1>1, <1>2 DEF KernelInv, AgentInv, Launched
  <2> QED
    BY <1>1, <1>2, <1>4, <1>6, <2>1 DEF KernelInv, AgentInv, Over
<1> QED
  BY <1>1, <1>2, <1>3, <1>5, <1>7, KeptIsAged, QuietKeeps DEF Over, Busy

LEMMA SpawnKeeps ==
    ASSUME KernelInv, spawn
    PROVE  KernelInv'
<1>1. /\ opts' = opts /\ task' = task /\ requests' = requests
      /\ toolRuns' = toolRuns /\ replies' = replies /\ up' = up /\ log' = log
      /\ kpc = "spawn"
      /\ \/ agent' = "alive" /\ held' = held + 1 /\ kpc' \in {"serve", "contained"}
         \/ agent' = agent /\ held' = held /\ kpc' = "unwind"
  BY DEF spawn
<1>2. /\ KernelType /\ opts \in CommandLines /\ held \in Nat /\ agent \in {"none", "alive", "gone"}
      /\ held + 1 = Len(Stages) /\ Launched
  BY <1>1 DEF KernelInv, KernelType, AgentInv, Over
<1>3. ClientsKept
  BY <1>1, <1>2, ClientsStay
<1>4. Len(Stages) \in Nat \ {0} /\ Stages' = Stages
  BY <1>1, <1>2, StagesAre, StagesStay
<1>5. AgentInv'
  BY <1>1, <1>2, <1>4 DEF AgentInv, Launched, Over
<1> QED
  BY <1>1, <1>2, <1>3, <1>5, KeptIsAged, QuietKeeps DEF Over, Busy

LEMMA WaitKeeps ==
    ASSUME KernelInv, wait \/ disconnect \/ AgentExits
    PROVE  KernelInv'
<1>1. /\ opts' = opts /\ task' = task /\ requests' = requests
      /\ toolRuns' = toolRuns /\ replies' = replies /\ up' = up /\ log' = log /\ held' = held
      /\ \/ kpc \in {"wait", "contained"} /\ agent' = "gone" /\ kpc' = "record_exit"
         \/ kpc = "serve" /\ kpc' = "wait" /\ agent' = agent
         \/ kpc' = kpc /\ agent = "alive" /\ agent' = "gone"
  BY DEF wait, disconnect, AgentExits
<1>2. /\ KernelType /\ opts \in CommandLines /\ held \in Nat /\ agent \in {"none", "alive", "gone"}
  BY <1>1 DEF KernelInv, KernelType
<1>3. ClientsKept
  BY <1>1, <1>2, ClientsStay
<1>4. Stages' = Stages /\ Launched' = Launched
  BY <1>1, StagesStay DEF Launched
<1>5. AgentInv'
  BY <1>1, <1>2, <1>4 DEF KernelInv, AgentInv, Over
<1> QED
  BY <1>1, <1>2, <1>3, <1>5, KeptIsAged, QuietKeeps DEF Over, Busy

LEMMA RecordExitKeeps ==
    ASSUME KernelInv, record_exit
    PROVE  KernelInv'
<1> DEFINE e == [what |-> "agent_exit", n |-> 0, status |-> "ok"]
<1>1. /\ opts' = opts /\ agent' = agent /\ task' = task /\ requests' = requests
      /\ toolRuns' = toolRuns /\ replies' = replies /\ up' = up /\ held' = held
      /\ kpc = "record_exit" /\ kpc' = "unwind"
      /\ (log' = Append(log, e) \/ log' = log)
  BY DEF record_exit, Recorded
<1>2. /\ KernelType /\ opts \in CommandLines /\ held \in Nat /\ agent \in {"none", "alive", "gone"}
  BY <1>1 DEF KernelInv, KernelType
<1>3. ClientsKept
  BY <1>1, <1>2, ClientsStay
<1>5. e \in Events(opts)
  BY EventsAre
<1> HIDE DEF e
<1>6. (Launched => Launched') /\ Stages' = Stages
  BY <1>1, <1>2, <1>5, LogGrows, StagesStay
<1>7. AgentInv'
  BY <1>1, <1>2, <1>6 DEF KernelInv, AgentInv, Over
<1> QED
  BY <1>1, <1>2, <1>3, <1>5, <1>7, KeptIsAged, QuietKeeps DEF Over, Busy

LEMMA UnwindKeeps ==
    ASSUME KernelInv, Unwind
    PROVE  KernelInv'
<1> DEFINE stage == Stages[held]
<1>1. /\ opts' = opts /\ task' = task /\ requests' = requests
      /\ toolRuns' = toolRuns /\ replies' = replies /\ log' = log /\ kpc = "unwind"
      /\ \/ held' = held /\ held = 0 /\ kpc' = "ended" /\ up' = up /\ agent' = agent
         \/ /\ held # 0 /\ held' = held - 1 /\ kpc' = kpc
            /\ agent' = IF stage = "agent" THEN "gone" ELSE agent
            /\ up' = IF stage \in Servers THEN [up EXCEPT ![stage].alive = FALSE] ELSE up
  BY DEF Unwind
<1>2. /\ KernelType /\ opts \in CommandLines /\ held \in Nat /\ agent \in {"none", "alive", "gone"}
      /\ held <= Len(Stages)
  BY DEF KernelInv, KernelType, AgentInv
<1>4. /\ Len(Stages) \in Nat \ {0} /\ Stages' = Stages
      /\ (held # 0 /\ stage = "agent" => held = Len(Stages))
  BY <1>1, <1>2, StagesAre, StagesStay
<1> HIDE DEF stage
<1>3. ClientsKept
  BY <1>1, <1>2, ClientSet, ClientsStay
<1>5. Launched' = Launched
  BY <1>1 DEF Launched
<1>6. held = Len(Stages) => agent # "none"
  BY DEF KernelInv, AgentInv
<1>7. agent' # "none" => agent # "none"
  BY <1>1, <1>4, <1>6
<1>8. AgentInv'
  BY <1>1, <1>2, <1>4, <1>5, <1>7 DEF KernelInv, AgentInv, Over
<1> QED
  BY <1>1, <1>2, <1>3, <1>8, KeptIsAged, QuietKeeps DEF Over, Busy

LEMMA ServerDiesKeeps ==
    ASSUME KernelInv, NEW s \in Servers, ServerDies(s)
    PROVE  KernelInv'
<1>1. /\ opts' = opts /\ agent' = agent /\ task' = task /\ requests' = requests
      /\ toolRuns' = toolRuns /\ replies' = replies /\ log' = log /\ held' = held /\ kpc' = kpc
      /\ up' = [up EXCEPT ![s].alive = FALSE, ![s].inbox = <<>>]
  BY DEF ServerDies
<1>2. /\ KernelType /\ held \in Nat /\ agent \in {"none", "alive", "gone"}
  BY DEF KernelInv, KernelType
<1>3. ClientsKept
  BY <1>1, <1>2, ClientSet
<1>4. AgentInv'
  BY <1>1, StagesStay DEF KernelInv, AgentInv, Launched
<1> QED
  BY <1>1, <1>2, <1>3, <1>4, KeptIsAged, QuietKeeps

LEMMA AnswerIs ==
    ASSUME NEW t \in Tasks(opts), NEW of \in Nat, NEW plain \in BOOLEAN, NEW status \in Statuses,
           NEW body \in {"error", "info", "tools", "denied", "tool_error", "result"}
    PROVE  /\ Answer(t, body, of, plain, status) \in Tasks(opts)
           /\ Answer(t, body, of, plain, status).n = t.n
           /\ Answer(t, body, of, plain, status).step = t.step
           /\ Answer(t, body, of, plain, status).r = t.r
           /\ Answer(t, body, of, plain, status).status = status
           /\ Answer(t, body, of, plain, status).reply \in Responses(opts)
           /\ Answer(t, body, of, plain, status).reply.n = t.n
           /\ Answer(t, body, of, plain, status).reply.body = body
           /\ Answer(t, body, of, plain, status).reply.of = of
<1> DEFINE p == [n |-> t.n, body |-> body, of |-> of, tools |-> {q \in t.listed : visible(opts, q)}]
<1>1. p \in Responses(opts) /\ p.n = t.n /\ p.body = body /\ p.of = of
  BY DEF Tasks, Responses, visible
<1>2. Answer(t, body, of, plain, status) = [t EXCEPT !.reply = p, !.plain = plain, !.status = status]
  BY DEF Answer
<1> HIDE DEF p
<1> QED
  BY <1>1, <1>2 DEF Tasks

\* The answer to the request being served is known.
LEMMA AnsweredKeeps ==
    ASSUME KernelInv, kpc \in {"transact", "await"},
           UNCHANGED <<opts, held, agent, requests, toolRuns, replies, log>>, ClientsAge, kpc' = "audit",
           NEW t \in Tasks(opts), t.n = task.n, t.step = task.step,
           NEW of \in Nat, NEW plain \in BOOLEAN, NEW status \in Statuses \ {"none"},
           NEW body \in {"error", "info", "tools", "denied", "tool_error", "result"},
           body = "result" => of = task.n /\ status = "ok" /\ \E c \in toolRuns : c.n = task.n,
           task' = Answer(t, body, of, plain, status)
    PROVE  KernelInv'
<1>1. /\ task' \in Tasks(opts) /\ task'.n = task.n /\ task'.step = task.step
      /\ task'.status = status /\ task'.reply \in Responses(opts) /\ task'.reply.n = task.n
      /\ task'.reply.body = body /\ task'.reply.of = of
  BY AnswerIs
<1>2. KernelType'
  BY <1>1 DEF KernelInv, KernelType, ClientsAge, Servers
<1>3. AgentInv'
  BY StagesStay DEF KernelInv, AgentInv, Launched, Over
<1>4. \A n : Owed(n) => Owed(n)'
  BY <1>1 DEF Owed, Busy, Over, Logged
<1>5. RunsInv'
  BY <1>4, RunsKept
<1>6. RepliesInv' /\ ExchangeInv'
  BY DEF KernelInv, RepliesInv, ExchangeInv
<1>7. TaskInv'
  BY <1>1 DEF KernelInv, TaskInv, Busy, Over
<1> QED
  BY <1>2, <1>3, <1>5, <1>6, <1>7 DEF KernelInv

\* The next exchange of the request is due.
LEMMA GoesOnKeeps ==
    ASSUME KernelInv, kpc \in {"transact", "await"},
           UNCHANGED <<opts, held, agent, requests, toolRuns, replies, log>>, ClientsAge,
           kpc' = "transact", task' \in Tasks(opts), task'.n = task.n, task'.step = task.step,
           task'.r = task.r, task'.step = "list" => task'.ext \in DOMAIN opts.upstreams
    PROVE  KernelInv'
<1>2. KernelType'
  BY DEF KernelInv, KernelType, ClientsAge, Servers
<1>3. AgentInv'
  BY StagesStay DEF KernelInv, AgentInv, Launched, Over
<1>4. \A n : Owed(n) => Owed(n)'
  BY DEF Owed, Busy, Over, Logged
<1>5. RunsInv'
  BY <1>4, RunsKept
<1>6. RepliesInv' /\ ExchangeInv'
  BY DEF KernelInv, RepliesInv, ExchangeInv
<1>7. Known(task.r.tool)' <=> Known(task.r.tool)
  BY DEF Known, Servers
<1>8. TaskInv'
  BY <1>7 DEF KernelInv, TaskInv, Busy, Over, Routed
<1> QED
  BY <1>2, <1>3, <1>5, <1>6, <1>8 DEF KernelInv

LEMMA AuditKeeps ==
    ASSUME KernelInv, audit_then_send
    PROVE  KernelInv'
<1> DEFINE e == [what |-> task.method, n |-> task.n, status |-> task.status]
<1>1. /\ opts' = opts /\ agent' = agent /\ task' = task /\ requests' = requests
      /\ toolRuns' = toolRuns /\ replies' = replies /\ up' = up /\ held' = held
      /\ kpc = "audit"
      /\ \/ log' = Append(log, e) /\ kpc' = "send"
         \/ log' = log /\ kpc' = "unwind"
  BY DEF audit_then_send, Recorded
<1>2. /\ KernelType /\ held \in Nat /\ agent \in {"none", "alive", "gone"} /\ log \in Seq(Events(opts))
      /\ task \in Tasks(opts)
  BY <1>1 DEF KernelInv, KernelType, TaskInv, Busy
<1>3. ClientsKept /\ ClientsAge
  BY <1>1, <1>2, ClientsStay, KeptIsAged
<1>4. e \in Events(opts) /\ e.n = task.n /\ e.status = task.status
  BY <1>2, EventsAre
<1> HIDE DEF e
<1>5. /\ log' \in Seq(Events(opts)) /\ Range(log) \subseteq Range(log')
      /\ (Launched => Launched') /\ (\A n : Logged(n) => Logged(n)')
  BY <1>1, <1>2, <1>4, LogGrows
<1>6. AgentInv'
  BY <1>1, <1>5, StagesStay DEF KernelInv, AgentInv, Over
<1>7. CASE kpc' = "unwind"
  BY <1>1, <1>2, <1>3, <1>6, <1>7, QuietKeeps DEF Over, Busy
<1>8. CASE kpc' = "send"
  <2>1. log' = Append(log, e)
    BY <1>1, <1>8
  <2>2. e \in Range(log')
    BY <1>2, <1>4, <2>1, AppendRange
  <2>3. KernelType'
    BY <1>1, <1>3, <1>5 DEF KernelInv, KernelType, ClientsAge, Servers
  <2>4. \A n : Owed(n) => Owed(n)'
    BY <1>1, <1>5, <1>8 DEF Owed, Busy, Over
  <2>5. RunsInv'
    BY <1>1, <1>3, <2>4, RunsKept
  <2>6. RepliesInv' /\ ExchangeInv'
    BY <1>1, <1>5, <1>8 DEF KernelInv, RepliesInv, ExchangeInv
  <2>7. TaskInv'
    BY <1>1, <1>4, <1>8, <2>2 DEF KernelInv, TaskInv, Busy, Over
  <2> QED
    BY <1>6, <2>3, <2>5, <2>6, <2>7 DEF KernelInv
<1> QED
  BY <1>1, <1>7, <1>8

LEMMA SendKeeps ==
    ASSUME KernelInv, send_reply
    PROVE  KernelInv'
<1>1. /\ opts' = opts /\ agent' = agent /\ task' = NoTask /\ requests' = requests
      /\ toolRuns' = toolRuns /\ log' = log /\ up' = up /\ held' = held
      /\ kpc = "send"
      /\ \/ kpc' \in Over /\ replies' = replies
         \/ kpc' = "serve" /\ replies' = Append(replies, task.reply)
  BY DEF send_reply, BrokenPipe, Over
<1>2. /\ KernelType /\ task \in Tasks(opts) /\ task.n = requests /\ requests \in Nat \ {0}
      /\ \A i \in DOMAIN replies : replies[i].n < requests
  BY <1>1 DEF KernelInv, KernelType, TaskInv, Busy
<1>3. /\ task.reply \in Responses(opts) /\ task.reply.n = task.n
      /\ task.step = "call" => task.status # "none"
      /\ task.reply.body = "result" =>
           task.reply.of = task.n /\ task.status = "ok" /\ \E c \in toolRuns : c.n = task.n
      /\ task.status # "none" => \E e \in Range(log) : e.n = task.n /\ e.status = task.status
  BY <1>1 DEF KernelInv, TaskInv
<1>4. ClientsAge
  BY <1>1, <1>2, ClientsStay, KeptIsAged
<1>5. AgentInv'
  BY <1>1, StagesStay DEF KernelInv, AgentInv, Launched, Over
<1>6. \A n : Owed(n) => Owed(n)'
  <2>1. task.step = "call" => Logged(task.n)
    BY <1>3, LoggedIs
  <2> QED
    BY <1>1, <1>2, <2>1 DEF Owed, Busy, Over, Logged
<1>7. RunsInv'
  BY <1>1, <1>4, <1>6, RunsKept
<1>8. ExchangeInv' /\ TaskInv'
  BY <1>1 DEF ExchangeInv, TaskInv, Busy, Over
<1>9. CASE replies' = replies
  <2>1. KernelType' /\ RepliesInv'
    BY <1>1, <1>2, <1>9 DEF KernelInv, KernelType, RepliesInv, Servers
  <2> QED
    BY <1>5, <1>7, <1>8, <2>1 DEF KernelInv
<1>10. CASE replies' = Append(replies, task.reply)
  <2>1. replies \in Seq(Responses(opts)) /\ Len(replies) \in Nat
    BY <1>2 DEF KernelType
  <2>2. /\ replies' \in Seq(Responses(opts)) /\ DOMAIN replies' = 1 .. Len(replies) + 1
        /\ DOMAIN replies = 1 .. Len(replies)
        /\ \A i \in DOMAIN replies : replies'[i] = replies[i]
        /\ replies'[Len(replies) + 1] = task.reply
    BY <1>3, <1>10, <2>1
  <2>3. KernelType'
    BY <1>1, <1>2, <2>2 DEF KernelType, Servers
  <2>4. \A i \in DOMAIN replies' : i \in DOMAIN replies \/ i = Len(replies) + 1
    BY <2>1, <2>2
  <2>5. \A i \in DOMAIN replies' : replies'[i].n \in 1 .. requests
    BY <1>2, <1>3, <2>2, <2>4 DEF KernelInv, RepliesInv
  <2>6. \A i, j \in DOMAIN replies' : replies'[i].n = replies'[j].n => i = j
    <3>1. \A i, j \in DOMAIN replies : replies[i].n = replies[j].n => i = j
      BY DEF KernelInv, RepliesInv
    <3>2. \A i \in DOMAIN replies : replies[i].n # task.reply.n /\ replies[i].n \in Nat
      BY <1>2, <1>3, <2>1 DEF KernelInv, RepliesInv
    <3> QED
      BY <2>2, <2>4, <3>1, <3>2
  <2>7. \A i \in DOMAIN replies' : replies'[i].body = "result" =>
           /\ replies'[i].of = replies'[i].n
           /\ \E c \in toolRuns : c.n = replies'[i].n
           /\ \E e \in Range(log) : e.n = replies'[i].n /\ e.status = "ok"
    BY <1>3, <2>2, <2>4 DEF KernelInv, RepliesInv
  <2>8. RepliesInv'
    BY <1>1, <2>5, <2>6, <2>7 DEF RepliesInv
  <2> QED
    BY <1>5, <1>7, <1>8, <2>3, <2>8 DEF KernelInv
<1> QED
  BY <1>1, <1>9, <1>10

LEMMA NewTaskIs ==
    ASSUME KernelType, NEW r \in opts.asks
    PROVE  /\ NewTask(r) \in Tasks(opts) /\ NewTask(r).n = requests + 1 /\ NewTask(r).step = "none"
           /\ NewTask(r).ext = 1 /\ NewTask(r).r = r
<1>1. r.method \in Methods(opts) /\ requests + 1 \in Nat
  BY DEF Methods, KernelType
<1>2. NoReply \in Responses(opts)
  BY DEF NoReply, Responses
<1> QED
  BY <1>1, <1>2 DEF NewTask, Tasks, Statuses

\* The agent's next request is answered at once, or goes to an upstream.
LEMMA TakenKeeps ==
    ASSUME KernelInv, kpc = "serve", requests' = requests + 1,
           UNCHANGED <<opts, held, agent, up, toolRuns, replies, log>>,
           \/ kpc' = kpc /\ task' = task
           \/ /\ kpc' \in {"audit", "send"} /\ task' \in Tasks(opts) /\ task'.n = requests + 1
              /\ task'.step = "none" /\ task'.reply \in Responses(opts) /\ task'.reply.n = task'.n
              /\ task'.reply.body # "result" /\ (kpc' = "send" => task'.status = "none")
           \/ /\ kpc' = "transact" /\ task' \in Tasks(opts) /\ task'.n = requests + 1
              /\ \/ task'.step = "list" /\ task'.ext \in DOMAIN opts.upstreams
                 \/ /\ task'.step = "call" /\ Namespace(task'.r.tool) \in Servers
                    /\ task'.r.tool \in Seq(STRING) /\ Len(task'.r.tool) > 1
                    /\ check(opts, task'.r.tool, task'.r.argument)
    PROVE  KernelInv'
<1>1. KernelType /\ requests \in Nat
  BY DEF KernelInv, KernelType
<1>2. KernelType'
  BY <1>1 DEF KernelType, Servers
<1>3. AgentInv'
  BY StagesStay DEF KernelInv, AgentInv, Launched, Over
<1>4. \A n : Owed(n) => Owed(n)'
  BY <1>1 DEF Owed, Busy, Over, Logged
<1>5. ClientsAge
  BY <1>1, ClientsStay, KeptIsAged
<1>6. RunsInv'
  BY <1>4, <1>5, RunsKept
<1>7. RepliesInv' /\ ExchangeInv'
  BY <1>1 DEF KernelInv, RepliesInv, ExchangeInv
<1>8. \A i \in DOMAIN replies : replies[i].n < requests + 1
  BY <1>1 DEF KernelInv, RepliesInv
<1>9. TaskInv'
  <2>1. CASE kpc' = kpc /\ task' = task
    BY <2>1 DEF KernelInv, TaskInv, Busy, Over
  <2>2. CASE kpc' \in {"audit", "send"}
    BY <1>1, <1>8, <2>2 DEF TaskInv, Busy, Over
  <2>3. CASE kpc' = "transact"
    <3>1. task'.step = "call" => Known(task.r.tool)' /\ Routed(task.r, Namespace(task.r.tool))'
      BY <2>3 DEF Known, Routed, Servers, Namespace
    <3> QED
      BY <1>1, <1>8, <2>3, <3>1 DEF TaskInv, Busy, Over
  <2> QED
    BY <2>1, <2>2, <2>3
<1> QED
  BY <1>2, <1>3, <1>6, <1>7, <1>9 DEF KernelInv

LEMMA RecvKeeps ==
    ASSUME KernelInv, recv
    PROVE  KernelInv'
<1>1. /\ kpc = "serve" /\ requests' = requests + 1
      /\ UNCHANGED <<opts, held, agent, up, toolRuns, replies, log>>
  BY DEF recv
<1>2. KernelType /\ opts \in CommandLines
  BY DEF KernelInv, KernelType
<1>3. PICK r \in opts.asks :
        \/ kpc' = kpc /\ task' = task
        \/ \E body \in {"error", "info", "tools", "denied"}, plain \in BOOLEAN \cup {r.plain},
              status \in Statuses :
             /\ task' = Answer(NewTask(r), body, 0, plain, status)
             /\ kpc' \in {"send", "audit"} /\ (kpc' = "send" => status = "none")
        \/ /\ task' = [NewTask(r) EXCEPT !.step = "list"] /\ kpc' = "transact"
           /\ opts.upstreams # <<>>
        \/ /\ task' = [NewTask(r) EXCEPT !.step = "call"] /\ kpc' = "transact"
           /\ r.method = "tools/call" /\ r.params \in {"valid", "cr"}
           /\ check(opts, r.tool, r.argument) /\ Known(r.tool)
  BY DEF recv, Audit, Statuses
<1>4. /\ r.plain \in BOOLEAN /\ opts.upstreams \in Seq(STRING \ StageNames)
      /\ r.method = "tools/call" /\ r.params \in {"valid", "cr"} => r.tool \in Seq(STRING)
  BY <1>2, OptionsAre
<1>5. /\ NewTask(r) \in Tasks(opts) /\ NewTask(r).n = requests + 1 /\ NewTask(r).step = "none"
      /\ NewTask(r).ext = 1 /\ NewTask(r).r = r
  BY <1>2, NewTaskIs
<1>6. CASE kpc' = kpc /\ task' = task
  BY <1>1, <1>6, TakenKeeps
<1>7. CASE \E body \in {"error", "info", "tools", "denied"}, plain \in BOOLEAN \cup {r.plain},
              status \in Statuses :
             /\ task' = Answer(NewTask(r), body, 0, plain, status)
             /\ kpc' \in {"send", "audit"} /\ (kpc' = "send" => status = "none")
  <2>1. PICK body \in {"error", "info", "tools", "denied"}, plain \in BOOLEAN \cup {r.plain},
              status \in Statuses :
             /\ task' = Answer(NewTask(r), body, 0, plain, status)
             /\ kpc' \in {"send", "audit"} /\ (kpc' = "send" => status = "none")
    BY <1>7
  <2>2. plain \in BOOLEAN /\ body # "result"
    BY <1>4
  <2>3. /\ task' \in Tasks(opts) /\ task'.n = requests + 1 /\ task'.step = "none"
        /\ task'.status = status /\ task'.reply \in Responses(opts) /\ task'.reply.n = task'.n
        /\ task'.reply.body # "result"
    BY <1>5, <2>1, <2>2, AnswerIs
  <2> QED
    BY <1>1, <2>1, <2>3, TakenKeeps
<1>8. CASE /\ task' = [NewTask(r) EXCEPT !.step = "list"] /\ kpc' = "transact"
           /\ opts.upstreams # <<>>
  <2>1. task' \in Tasks(opts) /\ task'.n = requests + 1 /\ task'.step = "list" /\ task'.ext = 1
    BY <1>5, <1>8 DEF Tasks
  <2>2. 1 \in DOMAIN opts.upstreams
    <3>1. Len(opts.upstreams) # 0 /\ Len(opts.upstreams) \in Nat
      BY <1>4, <1>8, NoElements
    <3> QED
      BY <1>4, <3>1
  <2> QED
    BY <1>1, <1>8, <2>1, <2>2, TakenKeeps
<1>9. CASE /\ task' = [NewTask(r) EXCEPT !.step = "call"] /\ kpc' = "transact"
           /\ r.method = "tools/call" /\ r.params \in {"valid", "cr"}
           /\ check(opts, r.tool, r.argument) /\ Known(r.tool)
  <2>1. task' \in Tasks(opts) /\ task'.n = requests + 1 /\ task'.step = "call" /\ task'.r = r
    BY <1>5, <1>9 DEF Tasks
  <2>2. r.tool \in Seq(STRING) /\ Len(r.tool) > 1 /\ Namespace(r.tool) \in Servers
    BY <1>4, <1>9 DEF Known
  <2> QED
    BY <1>1, <1>9, <2>1, <2>2, TakenKeeps
<1> QED
  BY <1>3, <1>6, <1>7, <1>8, <1>9

\* The request is on its way to the upstream.
LEMMA AskedKeeps ==
    ASSUME KernelInv, kpc = "transact", UNCHANGED <<opts, held, agent, requests, toolRuns, replies, log>>,
           kpc' = "await", task' = task,
           up' = [up EXCEPT ![Peer].last_id = @ + 1,
                            ![Peer].inbox = Append(@, [id |-> up[Peer].last_id + 1, what |-> Asked,
                                                       n |-> task.n, r |-> task.r])]
    PROVE  KernelInv'
<1> DEFINE s == Peer
           frame == [id |-> up[s].last_id + 1, what |-> Asked, n |-> task.n, r |-> task.r]
           v == [up[s] EXCEPT !.last_id = @ + 1, !.inbox = Append(@, frame)]
<1>1. /\ s \in Servers /\ up[s] \in Clients(opts) /\ task \in Tasks(opts) /\ KernelType
      /\ up \in [Servers -> Clients(opts)] /\ task.step \in {"list", "call"}
  BY PeerIs DEF KernelInv, KernelType, TaskInv, Tasks
<1>2. /\ up[s].last_id \in Nat /\ up[s].inbox \in Seq(Frames(opts)) /\ up[s].outbox \in Seq(Answers)
      /\ up[s].said \subseteq Answers
  BY <1>1 DEF Clients
<1>3. Asked \in {"initialize", "list", "call"} /\ (Asked = "call" => task.step = "call")
  BY <1>1 DEF Asked
<1>4. /\ frame \in Frames(opts) /\ frame.id = up[s].last_id + 1 /\ frame.what = Asked
      /\ frame.n = task.n /\ frame.r = task.r
  BY <1>1, <1>2, <1>3 DEF Frames, Tasks
<1>5. up' = [up EXCEPT ![s] = v]
  BY <1>1
<1> HIDE DEF frame
<1>6. /\ Append(up[s].inbox, frame) \in Seq(Frames(opts))
      /\ Range(Append(up[s].inbox, frame)) = Range(up[s].inbox) \cup {frame}
  BY <1>2, <1>4, AppendRange
<1>7. /\ v \in Clients(opts) /\ v.last_id = up[s].last_id + 1 /\ v.ready = up[s].ready
      /\ v.inbox = Append(up[s].inbox, frame) /\ v.outbox = up[s].outbox /\ v.said = up[s].said
  <2> DEFINE k == up[s].last_id + 1
             q == Append(up[s].inbox, frame)
  <2>1. v = [up[s] EXCEPT !.last_id = k, !.inbox = q]
    BY <1>1 DEF Clients
  <2>2. k \in Nat /\ q \in Seq(Frames(opts))
    BY <1>2, <1>6
  <2> HIDE DEF k, q, v
  <2>3. /\ v \in Clients(opts) /\ v.last_id = k /\ v.ready = up[s].ready
        /\ v.inbox = q /\ v.outbox = up[s].outbox /\ v.said = up[s].said
    BY <1>1, <2>1, <2>2 DEF Clients
  <2> QED
    BY <2>3 DEF k, q
<1> HIDE DEF v
<1>8. up' \in [Servers -> Clients(opts)] /\ up'[s] = v /\ \A x \in Servers : x # s => up'[x] = up[x]
  BY <1>1, <1>5, <1>7
<1>9. KernelType'
  BY <1>8 DEF KernelInv, KernelType, Servers
<1>10. AgentInv'
  BY StagesStay DEF KernelInv, AgentInv, Launched, Over
<1>11. \A n : Owed(n) => Owed(n)'
  BY DEF Owed, Busy, Over, Logged
<1>12. frame.what = "call" => Routed(frame.r, s) /\ Owed(frame.n)
  <2>1. ASSUME frame.what = "call" PROVE Routed(frame.r, s) /\ Owed(frame.n)
    <3>1. task.step = "call" /\ s = Namespace(task.r.tool)
      BY <1>3, <1>4, <2>1 DEF Peer
    <3>2. Routed(task.r, s)
      BY <3>1 DEF KernelInv, TaskInv
    <3> QED
      BY <1>4, <3>1, <3>2 DEF Owed, Busy
  <2> QED
    BY <2>1
<1>13. /\ \A f \in Range(up[s].inbox) : f.id <= up[s].last_id /\ f.id \in Nat
       /\ \A a \in Range(up[s].outbox) \cup up[s].said : a.id <= up[s].last_id /\ a.id \in Nat
  <2>1. Range(up[s].inbox) \subseteq Frames(opts) /\ Range(up[s].outbox) \subseteq Answers
    BY <1>2 DEF Range
  <2>2. /\ \A f \in Range(up[s].inbox) : f.id \in Nat
        /\ \A a \in Range(up[s].outbox) \cup up[s].said : a.id \in Nat
    BY <1>2, <2>1 DEF Frames, Answers
  <2> QED
    BY <1>1, <2>2 DEF KernelInv, RunsInv
<1> HIDE DEF s
<1>14. RunsInv'
  <2>1. \A r, x : Routed(r, x)' <=> Routed(r, x)
    BY DEF Routed
  <2>2. \A x \in Servers : \A f \in Range(up'[x].inbox) :
          /\ f.id <= up'[x].last_id
          /\ f.what = "call" => Routed(f.r, x) /\ Owed(f.n)
    <3>1. \A f \in Range(up'[s].inbox) :
            /\ f.id <= up'[s].last_id
            /\ f.what = "call" => Routed(f.r, s) /\ Owed(f.n)
      <4>1. ASSUME NEW f \in Range(up[s].inbox)
            PROVE  f.id <= up'[s].last_id /\ (f.what = "call" => Routed(f.r, s) /\ Owed(f.n))
        BY <1>1, <1>2, <1>7, <1>8, <1>13 DEF KernelInv, RunsInv
      <4>2. frame.id <= up'[s].last_id
        BY <1>2, <1>4, <1>7, <1>8
      <4> QED
        BY <1>6, <1>7, <1>8, <1>12, <4>1, <4>2
    <3> QED
      BY <1>8, <3>1 DEF KernelInv, RunsInv
  <2>3. \A x \in Servers : \A a \in Range(up'[x].outbox) \cup up'[x].said : a.id <= up'[x].last_id
    <3>1. \A a \in Range(up'[s].outbox) \cup up'[s].said : a.id <= up'[s].last_id
      BY <1>2, <1>7, <1>8, <1>13
    <3> QED
      BY <1>8, <3>1 DEF KernelInv, RunsInv
  <2>4. Servers' = Servers
    BY DEF Servers
  <2> QED
    BY <1>11, <2>1, <2>2, <2>3, <2>4 DEF KernelInv, RunsInv
<1>15. ExchangeInv'
  <2>1. Peer' = s
    BY DEF Peer, s
  <2>2. Asked' = Asked
    BY <1>7, <1>8, <2>1 DEF Asked, s
  <2>3. \A f \in Range(up'[s].inbox) : f.id = up'[s].last_id => f.n = task.n /\ f.what = Asked
    <3>1. \A f \in Range(up[s].inbox) : f.id # up'[s].last_id
      BY <1>2, <1>7, <1>8, <1>13
    <3>2. Range(up'[s].inbox) = Range(up[s].inbox) \cup {frame}
      BY <1>6, <1>7, <1>8
    <3> QED
      BY <1>4, <3>1, <3>2
  <2>4. \A a \in Range(up'[s].outbox) \cup up'[s].said : a.id # up'[s].last_id
    BY <1>2, <1>7, <1>8, <1>13
  <2> QED
    BY <2>1, <2>2, <2>3, <2>4 DEF ExchangeInv
<1>16. RepliesInv'
  BY DEF KernelInv, RepliesInv
<1>17. Known(task.r.tool)' <=> Known(task.r.tool)
  BY DEF Known, Servers
<1>18. TaskInv'
  BY <1>17 DEF KernelInv, TaskInv, Busy, Over, Routed
<1> QED
  BY <1>9, <1>10, <1>14, <1>15, <1>16, <1>18 DEF KernelInv

LEMMA ClientAges ==
    ASSUME KernelType, NEW s \in Servers, up' = [up EXCEPT ![s].last_id = @ + 1]
    PROVE  ClientsAge
<1> DEFINE v == [up[s] EXCEPT !.last_id = @ + 1]
<1>1. up \in [Servers -> Clients(opts)] /\ up[s] \in Clients(opts)
  BY DEF KernelType
<1>2. up' = [up EXCEPT ![s] = v]
  BY <1>1
<1>3. \A x \in Servers : up[x].last_id \in Nat
  BY <1>1 DEF Clients
<1>4. /\ v \in Clients(opts) /\ v.last_id = up[s].last_id + 1
      /\ v.inbox = up[s].inbox /\ v.outbox = up[s].outbox /\ v.said = up[s].said
  <2> DEFINE k == up[s].last_id + 1
  <2>1. v = [up[s] EXCEPT !.last_id = k]
    BY <1>1 DEF Clients
  <2>2. k \in Nat
    BY <1>3
  <2> HIDE DEF k, v
  <2>3. /\ v \in Clients(opts) /\ v.last_id = k
        /\ v.inbox = up[s].inbox /\ v.outbox = up[s].outbox /\ v.said = up[s].said
    BY <1>1, <2>1, <2>2 DEF Clients
  <2> QED
    BY <2>3 DEF k
<1> HIDE DEF v
<1> QED
  BY <1>1, <1>2, <1>3, <1>4 DEF ClientsAge

LEMMA TransactKeeps ==
    ASSUME KernelInv, transact
    PROVE  KernelInv'
<1>1. /\ kpc = "transact" /\ UNCHANGED <<opts, held, agent, requests, toolRuns, replies, log>>
      /\ \/ /\ up' = [up EXCEPT ![Peer].last_id = @ + 1,
                            ![Peer].inbox = Append(@, [id |-> up[Peer].last_id + 1, what |-> Asked,
                                                       n |-> task.n, r |-> task.r])]
            /\ kpc' = "await" /\ task' = task
         \/ /\ up' = [up EXCEPT ![Peer].last_id = @ + 1]
            /\ \/ kpc' = "killed" /\ task' = task
               \/ kpc' = "audit" /\ task' = Answer(task, "error", 0, TRUE, "execution_error")
  BY DEF transact, CallFails, Audit
<1>2. /\ Peer \in Servers /\ task \in Tasks(opts) /\ KernelType
      /\ held \in Nat /\ agent \in {"none", "alive", "gone"}
  BY <1>1, PeerIs DEF KernelInv, KernelType
<1>3. CASE kpc' = "await"
  BY <1>1, <1>3, AskedKeeps
<1>4. CASE kpc' # "await"
  <2>1. ClientsAge
    BY <1>1, <1>2, <1>4, ClientAges
  <2>2. CASE kpc' = "killed"
    <3>1. AgentInv'
      BY <1>1, <2>2, StagesStay DEF KernelInv, AgentInv, Launched, Over
    <3>2. task' = task
      BY <1>1, <2>2
    <3> QED
      BY <1>1, <1>2, <2>1, <2>2, <3>1, <3>2, QuietKeeps DEF Over
  <2>3. CASE kpc' = "audit"
    <3>1. task' = Answer(task, "error", 0, TRUE, "execution_error")
      BY <1>1, <2>3
    <3>2. "execution_error" \in Statuses \ {"none"} /\ 0 \in Nat /\ TRUE \in BOOLEAN
      BY DEF Statuses
    <3> QED
      BY <1>1, <1>2, <2>1, <2>3, <3>1, <3>2, AnsweredKeeps
  <2> QED
    BY <1>1, <1>4, <2>2, <2>3
<1> QED
  BY <1>3, <1>4

LEMMA OutboxDrops ==
    ASSUME KernelType, NEW s \in Servers, up[s].outbox # <<>>,
           \/ up' = [up EXCEPT ![s].outbox = Tail(@)]
           \/ up' = [up EXCEPT ![s].outbox = Tail(@), ![s].ready = TRUE]
    PROVE  ClientsAge
<1>1. up \in [Servers -> Clients(opts)] /\ up[s] \in Clients(opts)
  BY DEF KernelType
<1>2. /\ up[s].outbox \in Seq(Answers) /\ \A x \in Servers : up[x].last_id \in Nat
  BY <1>1 DEF Clients
<1> DEFINE q == Tail(up[s].outbox)
<1>3. q \in Seq(Answers) /\ Range(q) \subseteq Range(up[s].outbox)
  BY <1>2, HeadTailRange
<1>4. PICK b \in BOOLEAN : up' = [up EXCEPT ![s] = [up[s] EXCEPT !.outbox = q, !.ready = b]]
  <2>1. CASE up' = [up EXCEPT ![s].outbox = Tail(@)]
    <3>1. [up[s] EXCEPT !.outbox = q] = [up[s] EXCEPT !.outbox = q, !.ready = up[s].ready]
      BY <1>1 DEF Clients
    <3>2. up[s].ready \in BOOLEAN
      BY <1>1 DEF Clients
    <3> QED
      BY <1>1, <2>1, <3>1, <3>2
  <2>2. CASE up' = [up EXCEPT ![s].outbox = Tail(@), ![s].ready = TRUE]
    BY <1>1, <2>2
  <2> QED
    BY <2>1, <2>2
<1> HIDE DEF q
<1> DEFINE v == [up[s] EXCEPT !.outbox = q, !.ready = b]
<1>5. /\ v \in Clients(opts) /\ v.last_id = up[s].last_id
      /\ v.inbox = up[s].inbox /\ v.outbox = q /\ v.said = up[s].said
  BY <1>1, <1>3 DEF Clients
<1>6. up' = [up EXCEPT ![s] = v]
  BY <1>4
<1> HIDE DEF v
<1> QED
  BY <1>1, <1>2, <1>3, <1>5, <1>6 DEF ClientsAge

LEMMA TakenIs ==
    ASSUME NEW f \in Answers, Asked \in {"initialize", "list", "call"}
    PROVE  /\ Taken(f) \in {"plain", "illegal", "tool_error", "ok"}
           /\ Taken(f) = "ok" => f.form # "unasked" /\ f.id = up[Peer].last_id
<1>1. f.form \in {"ok", "error", "quoted", "garbage", "shape", "cr", "unasked"}
  BY DEF Answers, Forms
<1> QED
  BY <1>1 DEF Taken, parse_result, Matches

\* The tools of one server are added to the list.
LEMMA ListedIs ==
    ASSUME KernelInv, kpc = "await", NEW plain \in BOOLEAN, Peer \in Servers, task \in Tasks(opts)
    PROVE  LET more == [task EXCEPT !.listed = @ \cup {<<Peer>> \o t : t \in opts.tools[Peer]},
                                    !.plain = @ /\ plain]
           IN  /\ more \in Tasks(opts) /\ more.n = task.n /\ more.step = task.step /\ more.r = task.r
               /\ more.ext = task.ext /\ more.plain \in BOOLEAN
<1> DEFINE named == {<<Peer>> \o t : t \in opts.tools[Peer]}
           l == task.listed \cup named
           p == task.plain /\ plain
           more == [task EXCEPT !.listed = l, !.plain = p]
<1>1. named \subseteq Listable(opts)
  BY DEF Listable, Servers
<1>2. l \subseteq Listable(opts) /\ p \in BOOLEAN
  BY <1>1 DEF Tasks
<1>3. [task EXCEPT !.listed = @ \cup {<<Peer>> \o t : t \in opts.tools[Peer]},
                   !.plain = @ /\ plain] = more
  BY DEF Tasks
<1> HIDE DEF l, p, named
<1>4. /\ more \in Tasks(opts) /\ more.n = task.n /\ more.step = task.step /\ more.r = task.r
      /\ more.ext = task.ext /\ more.plain \in BOOLEAN
  BY <1>2 DEF Tasks
<1> HIDE DEF more
<1> QED
  BY <1>3, <1>4

LEMMA ReceiveKeeps ==
    ASSUME KernelInv, receive
    PROVE  KernelInv'
<1>1. /\ kpc = "await" /\ UNCHANGED <<opts, held, agent, requests, toolRuns, replies, log>>
  BY DEF receive
<1>2. /\ Peer \in Servers /\ task \in Tasks(opts) /\ KernelType /\ up[Peer] \in Clients(opts)
      /\ held \in Nat /\ agent \in {"none", "alive", "gone"} /\ opts \in CommandLines
      /\ task.n \in Nat
  BY <1>1, PeerIs DEF KernelInv, KernelType, Tasks
<1>3. Asked \in {"initialize", "list", "call"}
  BY <1>1, <1>2 DEF KernelInv, TaskInv, Asked, Tasks
<1>4. /\ "execution_error" \in Statuses \ {"none"} /\ "ok" \in Statuses \ {"none"} /\ 0 \in Nat
      /\ TRUE \in BOOLEAN /\ FALSE \in BOOLEAN
  BY DEF Statuses
<1>5. ASSUME ClientsAge, NEW plain \in BOOLEAN, CallFails(plain) PROVE KernelInv'
  <2>1. kpc' = "audit" /\ task' = Answer(task, "error", 0, plain, "execution_error")
    BY <1>5 DEF CallFails, Audit
  <2> QED
    BY <1>1, <1>2, <1>4, <1>5, <2>1, AnsweredKeeps
<1>6. CASE up[Peer].outbox = <<>>
  <2>1. up' = up /\ CallFails(TRUE)
    BY <1>6 DEF receive
  <2>2. ClientsAge
    BY <1>2, <2>1, ClientsStay, KeptIsAged
  <2> QED
    BY <1>4, <1>5, <2>1, <2>2
<1>7. CASE up[Peer].outbox # <<>>
  <2> DEFINE frame == Head(up[Peer].outbox)
             Drop == up' = [up EXCEPT ![Peer].outbox = Tail(@)]
  <2>1. frame \in Answers /\ frame \in Range(up[Peer].outbox) /\ frame.n \in Nat
    <3>1. up[Peer].outbox \in Seq(Answers)
      BY <1>2 DEF Clients
    <3>2. frame \in Answers /\ frame \in Range(up[Peer].outbox)
      BY <1>7, <3>1, HeadTailRange
    <3> QED
      BY <3>2 DEF Answers
  <2>2. /\ Taken(frame) \in {"plain", "illegal", "tool_error", "ok"}
        /\ Taken(frame) = "ok" => frame.form # "unasked" /\ frame.id = up[Peer].last_id
    BY <1>3, <2>1, TakenIs
  <2>3. (CASE Taken(frame) = "plain" -> Drop /\ CallFails(TRUE)
          [] Taken(frame) = "illegal" -> Drop /\ CallFails(FALSE)
          [] Taken(frame) = "tool_error" ->
               Drop /\ Audit /\ task' = Answer(task, "tool_error", frame.n, TRUE, "execution_error")
          [] Taken(frame) = "ok" ->
               IF Asked = "initialize" THEN Initialized(Peer)
               ELSE IF Asked = "list" THEN Drop /\ Listed(frame.form # "cr")
               ELSE Drop /\ Audit /\ task' = Answer(task, "result", frame.n, frame.form # "cr", "ok"))
    BY <1>7 DEF receive
  <2>4. Drop => ClientsAge
    BY <1>2, <1>7, OutboxDrops
  <2> HIDE DEF frame
  <2>5. CASE Taken(frame) = "plain"
    <3>1. Drop /\ CallFails(TRUE)
      BY <2>3, <2>5
    <3> QED
      BY <1>4, <1>5, <2>4, <3>1
  <2>6. CASE Taken(frame) = "illegal"
    <3>1. Drop /\ CallFails(FALSE)
      BY <2>3, <2>6
    <3> QED
      BY <1>4, <1>5, <2>4, <3>1
  <2>7. CASE Taken(frame) = "tool_error"
    <3>1. Drop /\ Audit /\ task' = Answer(task, "tool_error", frame.n, TRUE, "execution_error")
      BY <2>3, <2>7
    <3>2. kpc' = "audit" /\ ClientsAge
      BY <2>4, <3>1 DEF Audit
    <3> HIDE DEF Drop
    <3> QED
      BY <1>1, <1>2, <1>4, <2>1, <3>1, <3>2, AnsweredKeeps
  <2>8. CASE Taken(frame) = "ok"
    <3>1. /\ Asked = "initialize" => Initialized(Peer)
          /\ Asked = "list" => Drop /\ Listed(frame.form # "cr")
          /\ Asked = "call" =>
               Drop /\ Audit /\ task' = Answer(task, "result", frame.n, frame.form # "cr", "ok")
      BY <2>3, <2>8
    <3>2. CASE Asked = "initialize"
      <4>1. /\ \/ up' = [up EXCEPT ![Peer].outbox = Tail(@)]
               \/ up' = [up EXCEPT ![Peer].outbox = Tail(@), ![Peer].ready = TRUE]
            /\ \/ kpc' = "transact" /\ task' = task
               \/ kpc' = "killed" /\ task' = task
               \/ CallFails(TRUE)
        BY <3>1, <3>2 DEF Initialized
      <4>2. ClientsAge
        BY <1>2, <1>7, <4>1, OutboxDrops
      <4>3. CASE kpc' = "transact" /\ task' = task
        <5>1. task.step = "list" => task.ext \in DOMAIN opts.upstreams
          BY <1>1 DEF KernelInv, TaskInv
        <5> QED
          BY <1>1, <1>2, <4>2, <4>3, <5>1, GoesOnKeeps
      <4>4. CASE kpc' = "killed" /\ task' = task
        <5>1. AgentInv'
          BY <1>1, <4>4, StagesStay DEF KernelInv, AgentInv, Launched, Over
        <5> QED
          BY <1>1, <1>2, <4>2, <4>4, <5>1, QuietKeeps DEF Over
      <4>5. CASE CallFails(TRUE)
        BY <1>4, <1>5, <4>2, <4>5
      <4> QED
        BY <4>1, <4>3, <4>4, <4>5
    <3>3. CASE Asked = "list"
      <4> DEFINE plain == frame.form # "cr"
                 more == [task EXCEPT !.listed = @ \cup {<<Peer>> \o t : t \in opts.tools[Peer]},
                                      !.plain = @ /\ plain]
      <4>1. ClientsAge
        BY <2>4, <3>1, <3>3
      <4>2. /\ more \in Tasks(opts) /\ more.n = task.n /\ more.step = task.step /\ more.r = task.r
            /\ more.ext = task.ext /\ more.plain \in BOOLEAN
        <5>1. plain \in BOOLEAN
          OBVIOUS
        <5> HIDE DEF plain
        <5> QED
          BY <1>1, <1>2, <5>1, ListedIs
      <4>3. \/ /\ task.ext < Len(opts.upstreams)
               /\ kpc' = "transact" /\ task' = [more EXCEPT !.ext = @ + 1]
            \/ kpc' = "audit" /\ task' = Answer(more, "tools", task.n, more.plain, "ok")
        BY <3>1, <3>3 DEF Listed, Audit
      <4> HIDE DEF more
      <4>4. task.step = "list" /\ task.ext \in DOMAIN opts.upstreams
        BY <1>1, <3>3 DEF KernelInv, TaskInv, Asked
      <4>5. CASE task.ext < Len(opts.upstreams) /\ kpc' = "transact" /\ task' = [more EXCEPT !.ext = @ + 1]
        <5>1. opts.upstreams \in Seq(STRING \ StageNames)
          BY <1>2, OptionsAre
        <5>2. task.ext + 1 \in DOMAIN opts.upstreams /\ task.ext + 1 \in Nat \ {0}
          BY <4>4, <4>5, <5>1
        <5>3. task' = [more EXCEPT !.ext = task.ext + 1]
          BY <4>2, <4>5
        <5>4. /\ task' \in Tasks(opts) /\ task'.n = task.n /\ task'.step = task.step
              /\ task'.r = task.r /\ task'.ext = task.ext + 1
          BY <4>2, <5>2, <5>3 DEF Tasks
        <5> QED
          BY <1>1, <4>1, <4>5, <5>2, <5>4, GoesOnKeeps
      <4>6. CASE kpc' = "audit" /\ task' = Answer(more, "tools", task.n, more.plain, "ok")
        BY <1>1, <1>2, <1>4, <4>1, <4>2, <4>6, AnsweredKeeps
      <4> QED
        BY <4>3, <4>5, <4>6
    <3>4. CASE Asked = "call"
      <4>1. kpc' = "audit" /\ task' = Answer(task, "result", frame.n, frame.form # "cr", "ok")
        BY <3>1, <3>4 DEF Audit
      <4>2. ClientsAge
        BY <2>4, <3>1, <3>4
      <4>3. frame.n = task.n /\ \E c \in toolRuns : c.n = task.n
        BY <1>1, <2>1, <2>2, <2>8, <3>4 DEF KernelInv, ExchangeInv
      <4> DEFINE plain == frame.form # "cr"
      <4>4. plain \in BOOLEAN /\ task' = Answer(task, "result", task.n, plain, "ok")
        BY <4>1, <4>3
      <4> HIDE DEF plain
      <4> QED
        BY <1>1, <1>2, <1>4, <4>1, <4>2, <4>3, <4>4, AnsweredKeeps
    <3> QED
      BY <1>3, <3>2, <3>3, <3>4
  <2> QED
    BY <2>2, <2>5, <2>6, <2>7, <2>8
<1> QED
  BY <1>6, <1>7

\* A server says something: nothing else changes, but a call may have run.
LEMMA HeardKeeps ==
    ASSUME KernelInv, UNCHANGED <<opts, kpc, held, agent, task, requests, replies, log>>,
           toolRuns \subseteq toolRuns', up' \in [Servers -> Clients(opts)], RunsInv', ExchangeInv'
    PROVE  KernelInv'
<1>1. KernelType' /\ AgentInv'
  BY StagesStay DEF KernelInv, KernelType, Servers, AgentInv, Launched
<1>2. RepliesInv'
  BY DEF KernelInv, RepliesInv
<1>3. Known(task.r.tool)' <=> Known(task.r.tool)
  BY DEF Known, Servers
<1>4. TaskInv'
  BY <1>3 DEF KernelInv, TaskInv, Routed
<1> QED
  BY <1>1, <1>2, <1>4 DEF KernelInv

LEMMA WholeAgain ==
    ASSUME NEW T, NEW q \in Seq(T), Len(q) > 1
    PROVE  <<Head(q)>> \o Tail(q) = q
OBVIOUS

LEMMA ServeKeeps ==
    ASSUME KernelInv, NEW s \in Servers, Serve(s)
    PROVE  KernelInv'
<1> DEFINE frame == Head(up[s].inbox)
           run == [n |-> frame.n, tool |-> <<s>> \o Tail(frame.r.tool), argument |-> frame.r.argument]
<1>1. /\ up[s].inbox # <<>>
      /\ UNCHANGED <<opts, kpc, held, agent, task, requests, replies, log>>
      /\ toolRuns' = IF frame.what # "call" THEN toolRuns ELSE toolRuns \cup {run}
  BY DEF Serve
<1>2. PICK form \in opts.forms :
        up' = [up EXCEPT ![s].inbox = Tail(@),
                         ![s].outbox = Append(@, [id |-> frame.id, form |-> form, n |-> frame.n]),
                         ![s].said = {[id |-> frame.id, form |-> form, n |-> frame.n]}]
  BY DEF Serve
<1> DEFINE answer == [id |-> frame.id, form |-> form, n |-> frame.n]
           q == Tail(up[s].inbox)
           o == Append(up[s].outbox, answer)
           v == [up[s] EXCEPT !.inbox = q, !.outbox = o, !.said = {answer}]
<1>3. KernelType /\ up \in [Servers -> Clients(opts)] /\ up[s] \in Clients(opts) /\ opts \in CommandLines
  BY DEF KernelInv, KernelType
<1>4. up[s].inbox \in Seq(Frames(opts)) /\ up[s].outbox \in Seq(Answers) /\ up[s].last_id \in Nat
  BY <1>3 DEF Clients
<1>5. /\ frame \in Frames(opts) /\ frame \in Range(up[s].inbox)
      /\ q \in Seq(Frames(opts)) /\ Range(q) \subseteq Range(up[s].inbox)
  BY <1>1, <1>4, HeadTailRange
<1>6. up' = [up EXCEPT ![s] = v]
  BY <1>2, <1>3
<1> HIDE DEF frame
<1>7. /\ answer \in Answers /\ answer.id = frame.id /\ answer.n = frame.n /\ answer.form # "unasked"
  <2>1. form \in Forms /\ form # "unasked"
    BY <1>3, OptionsAre DEF Forms
  <2> QED
    BY <1>5, <2>1 DEF Answers, Frames
<1> HIDE DEF answer
<1>8. o \in Seq(Answers) /\ Range(o) = Range(up[s].outbox) \cup {answer}
  BY <1>4, <1>7, AppendRange
<1> HIDE DEF q, o
<1>9. /\ v \in Clients(opts) /\ v.last_id = up[s].last_id /\ v.ready = up[s].ready
      /\ v.inbox = q /\ v.outbox = o /\ v.said = {answer}
  <2>1. {answer} \in SUBSET Answers
    BY <1>7
  <2> QED
    BY <1>3, <1>5, <1>8, <2>1 DEF Clients
<1> HIDE DEF v
<1>10. up' \in [Servers -> Clients(opts)] /\ up'[s] = v /\ \A x \in Servers : x # s => up'[x] = up[x]
  BY <1>3, <1>6, <1>9
<1>11. \A n : Owed(n)' <=> Owed(n)
  BY <1>1 DEF Owed, Logged
<1>12. /\ frame.id <= up[s].last_id
       /\ frame.what = "call" => Routed(frame.r, s) /\ Owed(frame.n)
  BY <1>5 DEF KernelInv, RunsInv
<1>13. frame.what = "call" => check(opts, run.tool, run.argument) /\ Owed(run.n)
  <2>1. ASSUME frame.what = "call" PROVE check(opts, run.tool, run.argument) /\ Owed(run.n)
    <3>1. /\ frame.r.tool \in Seq(STRING) /\ Len(frame.r.tool) > 1 /\ Head(frame.r.tool) = s
          /\ check(opts, frame.r.tool, frame.r.argument) /\ Owed(frame.n)
      BY <1>12, <2>1 DEF Routed, Namespace
    <3>2. <<s>> \o Tail(frame.r.tool) = frame.r.tool
      BY <3>1, WholeAgain
    <3> QED
      BY <3>1, <3>2
  <2> QED
    BY <2>1
<1>14. run.n = frame.n
  OBVIOUS
<1> HIDE DEF run
<1>15. toolRuns \subseteq toolRuns' /\ \A c \in toolRuns' : check(opts, c.tool, c.argument) /\ Owed(c.n)
  BY <1>1, <1>13 DEF KernelInv, RunsInv
<1>16. RunsInv'
  <2>1. \A r, x : Routed(r, x)' <=> Routed(r, x)
    BY <1>1 DEF Routed
  <2>2. \A x \in Servers : \A f \in Range(up'[x].inbox) :
          /\ f.id <= up'[x].last_id
          /\ f.what = "call" => Routed(f.r, x) /\ Owed(f.n)
    BY <1>5, <1>9, <1>10 DEF KernelInv, RunsInv
  <2>3. \A x \in Servers : \A a \in Range(up'[x].outbox) \cup up'[x].said : a.id <= up'[x].last_id
    <3>1. \A a \in Range(up'[s].outbox) \cup up'[s].said : a.id <= up'[s].last_id
      BY <1>7, <1>8, <1>9, <1>10, <1>12 DEF KernelInv, RunsInv
    <3> QED
      BY <1>10, <3>1 DEF KernelInv, RunsInv
  <2>4. Servers' = Servers
    BY <1>1 DEF Servers
  <2>5. \A c \in toolRuns' : check(opts, c.tool, c.argument) /\ Owed(c.n)'
    BY <1>11, <1>15
  <2> QED
    BY <1>1, <1>11, <2>1, <2>2, <2>3, <2>4, <2>5 DEF RunsInv
<1>17. ExchangeInv'
  <2>1. SUFFICES ASSUME kpc = "await" PROVE ExchangeInv'
    BY <1>1 DEF ExchangeInv
  <2>2. Peer \in Servers /\ Peer' = Peer
    BY <1>1, <2>1, PeerIs DEF Peer
  <2>3. Asked' = Asked /\ up'[Peer].last_id = up[Peer].last_id
    BY <1>1, <1>9, <1>10, <2>2 DEF Asked
  <2>4. \A f \in Range(up'[Peer].inbox) : f.id = up[Peer].last_id => f.n = task.n /\ f.what = Asked
    BY <1>5, <1>9, <1>10, <2>1, <2>2 DEF KernelInv, ExchangeInv
  <2>5. \A a \in Range(up'[Peer].outbox) \cup up'[Peer].said :
           a.id = up[Peer].last_id =>
             a.form = "unasked" \/ (a.n = task.n /\ (Asked = "call" => \E c \in toolRuns' : c.n = task.n))
    <3>1. \A a \in Range(up[Peer].outbox) \cup up[Peer].said :
            a.id = up[Peer].last_id =>
             a.form = "unasked" \/ (a.n = task.n /\ (Asked = "call" => \E c \in toolRuns' : c.n = task.n))
      BY <1>15, <2>1 DEF KernelInv, ExchangeInv
    <3>2. CASE Peer # s
      BY <1>10, <2>2, <3>1, <3>2
    <3>3. CASE Peer = s
      <4>1. ASSUME answer.id = up[Peer].last_id
            PROVE  answer.n = task.n /\ (Asked = "call" => \E c \in toolRuns' : c.n = task.n)
        <5>1. frame.n = task.n /\ frame.what = Asked
          BY <1>5, <1>7, <2>1, <3>3, <4>1 DEF KernelInv, ExchangeInv
        <5>2. frame.what = "call" => run \in toolRuns'
          BY <1>1
        <5> QED
          BY <1>7, <1>14, <5>1, <5>2
      <4>2. Range(up'[Peer].outbox) \cup up'[Peer].said = Range(up[Peer].outbox) \cup {answer}
        BY <1>8, <1>9, <1>10, <3>3
      <4> QED
        BY <3>1, <4>1, <4>2
    <3> QED
      BY <3>2, <3>3
  <2> QED
    BY <1>1, <2>2, <2>3, <2>4, <2>5 DEF ExchangeInv
<1> QED
  BY <1>1, <1>10, <1>15, <1>16, <1>17, HeardKeeps

LEMMA UnaskedKeeps ==
    ASSUME KernelInv, NEW s \in Servers, Unasked(s)
    PROVE  KernelInv'
<1> DEFINE stray == [id |-> 0, form |-> "unasked", n |-> 0]
<1>1. UNCHANGED <<opts, kpc, held, agent, task, requests, toolRuns, replies, log>>
  BY DEF Unasked
<1>2. PICK frame \in {stray} \cup up[s].said :
        up' = [up EXCEPT ![s].unasked = @ + 1, ![s].outbox = Append(@, frame)]
  BY DEF Unasked
<1> DEFINE o == Append(up[s].outbox, frame)
           k == up[s].unasked + 1
           v == [up[s] EXCEPT !.unasked = k, !.outbox = o]
<1>3. KernelType /\ up \in [Servers -> Clients(opts)] /\ up[s] \in Clients(opts)
  BY DEF KernelInv, KernelType
<1>4. /\ up[s].outbox \in Seq(Answers) /\ up[s].said \subseteq Answers /\ up[s].last_id \in Nat
      /\ up[s].unasked \in Nat
  BY <1>3 DEF Clients
<1>5. up' = [up EXCEPT ![s] = v]
  BY <1>2, <1>3
<1>6. stray \in Answers /\ stray.id = 0 /\ stray.form = "unasked"
  BY DEF Answers
<1> HIDE DEF stray
<1>7. frame \in Answers
  BY <1>2, <1>4, <1>6
<1>8. o \in Seq(Answers) /\ Range(o) = Range(up[s].outbox) \cup {frame} /\ k \in Nat
  BY <1>4, <1>7, AppendRange
<1> HIDE DEF o, k
<1>9. /\ v \in Clients(opts) /\ v.last_id = up[s].last_id /\ v.ready = up[s].ready
      /\ v.inbox = up[s].inbox /\ v.outbox = o /\ v.said = up[s].said
  BY <1>3, <1>8 DEF Clients
<1> HIDE DEF v
<1>10. up' \in [Servers -> Clients(opts)] /\ up'[s] = v /\ \A x \in Servers : x # s => up'[x] = up[x]
  BY <1>3, <1>5, <1>9
<1>11. \A n : Owed(n)' <=> Owed(n)
  BY <1>1 DEF Owed, Logged
<1>12. RunsInv'
  <2>1. \A r, x : Routed(r, x)' <=> Routed(r, x)
    BY <1>1 DEF Routed
  <2>2. \A x \in Servers : \A f \in Range(up'[x].inbox) :
          /\ f.id <= up'[x].last_id
          /\ f.what = "call" => Routed(f.r, x) /\ Owed(f.n)
    BY <1>9, <1>10 DEF KernelInv, RunsInv
  <2>3. \A x \in Servers : \A a \in Range(up'[x].outbox) \cup up'[x].said : a.id <= up'[x].last_id
    <3>1. frame.id <= up[s].last_id
      BY <1>2, <1>4, <1>6 DEF KernelInv, RunsInv
    <3>2. \A a \in Range(up'[s].outbox) \cup up'[s].said : a.id <= up'[s].last_id
      BY <1>8, <1>9, <1>10, <3>1 DEF KernelInv, RunsInv
    <3> QED
      BY <1>10, <3>2 DEF KernelInv, RunsInv
  <2>4. Servers' = Servers
    BY <1>1 DEF Servers
  <2>5. \A c \in toolRuns' : check(opts, c.tool, c.argument) /\ Owed(c.n)'
    BY <1>1, <1>11 DEF KernelInv, RunsInv
  <2> QED
    BY <1>1, <1>11, <2>1, <2>2, <2>3, <2>4, <2>5 DEF RunsInv
<1>13. ExchangeInv'
  <2>1. SUFFICES ASSUME kpc = "await" PROVE ExchangeInv'
    BY <1>1 DEF ExchangeInv
  <2>2. Peer \in Servers /\ Peer' = Peer
    BY <1>1, <2>1, PeerIs DEF Peer
  <2>3. /\ Asked' = Asked /\ up'[Peer].last_id = up[Peer].last_id
        /\ up'[Peer].inbox = up[Peer].inbox
    BY <1>1, <1>9, <1>10, <2>2 DEF Asked
  <2>4. \A a \in Range(up'[Peer].outbox) \cup up'[Peer].said :
          a \in Range(up[Peer].outbox) \cup up[Peer].said \/ a = stray
    BY <1>2, <1>8, <1>9, <1>10, <2>2
  <2> QED
    BY <1>1, <1>6, <2>1, <2>2, <2>3, <2>4 DEF KernelInv, ExchangeInv
<1> QED
  BY <1>1, <1>10, <1>12, <1>13, HeardKeeps

LEMMA KernelBegins ==
    ASSUME KernelInit
    PROVE  KernelInv
<1>1. opts \in CommandLines /\ Len(Stages) \in Nat \ {0} /\ NoTask.n = 0
  BY StagesAre DEF KernelInit, NoTask
<1>2. NewServer \in Clients(opts)
  <2>1. <<>> \in Seq(Frames(opts)) /\ <<>> \in Seq(Answers) /\ {} \in SUBSET Answers
    BY EmptySequence
  <2> QED
    BY <2>1 DEF NewServer, Clients
<1>3. KernelType
  <2>1. <<>> \in Seq(Responses(opts)) /\ <<>> \in Seq(Events(opts))
    BY EmptySequence
  <2> QED
    BY <1>1, <1>2, <2>1 DEF KernelInit, KernelType
<1>4. AgentInv /\ TaskInv /\ ExchangeInv
  BY <1>1 DEF KernelInit, AgentInv, TaskInv, ExchangeInv, Over, Busy
<1>5. RepliesInv
  BY DEF KernelInit, RepliesInv
<1>6. RunsInv
  <2>1. NewServer.inbox = <<>> /\ NewServer.outbox = <<>> /\ NewServer.said = {}
    BY DEF NewServer
  <2>2. Range(<<>>) = {}
    BY DEF Range
  <2> QED
    BY <2>1, <2>2 DEF KernelInit, RunsInv
<1> QED
  BY <1>3, <1>4, <1>5, <1>6 DEF KernelInv

LEMMA KernelStepKeeps ==
    ASSUME KernelInv, [KernelNext]_kernelVars
    PROVE  KernelInv'
<1>1. CASE UNCHANGED kernelVars
  <2>1. UNCHANGED <<opts, kpc, held, agent, up, task, requests, toolRuns, replies, log>>
    BY <1>1 DEF kernelVars
  <2>2. /\ KernelType /\ held \in Nat /\ agent \in {"none", "alive", "gone"}
    BY DEF KernelInv, KernelType
  <2>3. ClientsKept /\ ClientsAge
    BY <2>1, <2>2, ClientsStay, KeptIsAged
  <2>4. AgentInv'
    BY <2>1, StagesStay DEF KernelInv, AgentInv, Launched
  <2> QED
    BY <2>1, <2>2, <2>3, <2>4, QuietKeeps
<1>2. CASE KernelNext
  BY <1>2, AcquireKeeps, RecordLaunchKeeps, SpawnKeeps, WaitKeeps, RecordExitKeeps, UnwindKeeps,
     AuditKeeps, SendKeeps, TransactKeeps, ReceiveKeeps, RecvKeeps, ServeKeeps, UnaskedKeeps,
     ServerDiesKeeps DEF KernelNext, KernelStep
<1> QED
  BY <1>1, <1>2

LEMMA KernelInvIsEnough ==
    ASSUME KernelInv
    PROVE  ToolCallsAreMediated
<1>1. \A c \in toolRuns : check(opts, c.tool, c.argument) /\ (c.n = task.n \/ Logged(c.n) \/ kpc \in Over)
  BY DEF KernelInv, RunsInv, Owed
<1>2. \A i \in DOMAIN replies : replies[i].tools \subseteq opts.allow
  <2>1. replies \in Seq(Responses(opts))
    BY DEF KernelInv, KernelType
  <2>2. \A i \in DOMAIN replies : replies[i] \in Responses(opts)
    BY <2>1
  <2> QED
    BY <2>2 DEF Responses
<1> QED
  BY <1>1, <1>2 DEF KernelInv, AgentInv, Launched, RepliesInv, ToolCallsAreMediated

KernelSpec == KernelInit /\ [][KernelNext]_kernelVars

\* Whatever the servers answer to the requests they were sent, or send unasked
\* without guessing the id of a later one, in whatever order and after whatever
\* time-out, a tool runs only if the policy allows that call, and the agent gets
\* one answer to a request, which lists or carries nothing the policy hides.
THEOREM KernelInvariant == KernelSpec => [](KernelInv /\ ToolCallsAreMediated)
<1>1. KernelSpec => []KernelInv
  BY KernelBegins, KernelStepKeeps, PTL DEF KernelSpec
<1> QED
  BY <1>1, KernelInvIsEnough, PTL


-----------------------------------------------------------------------------
(* The audit journal.                                                      *)

\* A file of whole lines.
Complete(f) == Lined(f) /\ (f # <<>> => f[Len(f)] = Newline)

JournalType ==
    /\ bytes \in Seq(Nat) /\ sink \in {"closed", "idle", "truncate", "rewrite", "write", "sync"}
    /\ current \in Nat /\ pending \in [event : Nat, size : Nat, keep : Seq(Nat)]
    /\ events \in Nat /\ acked \in Seq(Nat) /\ torn \in BOOLEAN /\ opens \in Nat
    /\ measured \in SUBSET Nat

\* The event in flight is the newest, and no other has its number.
Numbered ==
    /\ Range(acked) \subseteq 1 .. events
    /\ sink \in {"truncate", "rewrite", "write", "sync"} =>
         /\ pending.event = events /\ events > 0 /\ events \notin Range(acked)
         /\ pending.size \in EncodedSizes /\ (Bounded => pending.size <= MaxFileBytes)
    /\ opens = 0 => acked = <<>> /\ sink = "closed"
    /\ sink = "truncate" => Bounded

\* The journal's last line is the newest event's.
EndsWith(f, e) == Len(f) > 1 /\ f[Len(f)] = Newline /\ f[Len(f) - 1] = e

AckedLines == Range(acked) \ dropped

\* The file holds events up to the n-th, and with one every later one of those.
Newest(f, n, those) ==
    /\ Range(f) \subseteq 0 .. n
    /\ \A e \in Range(f) \ {Newline}, a \in those : a > e => a \in Range(f)

Cap(n) == Bounded => n <= MaxFileBytes

FileInv ==
    /\ sink = "closed" =>
         /\ Lined(bytes) /\ Newest(bytes, events, AckedLines)
         /\ \/ Complete(bytes) /\ Cap(Len(bytes))
            \/ Bounded /\ acked = <<>> /\ Len(bytes) > MaxFileBytes
    /\ sink \in {"idle", "truncate", "write", "sync"} =>
         Complete(bytes) /\ Newest(bytes, events, AckedLines) /\ current = Len(bytes) /\ Cap(Len(bytes))
    /\ sink = "write" => Cap(Len(bytes) + pending.size)
    /\ sink = "rewrite" => /\ bytes = <<>> /\ Complete(pending.keep) /\ Newest(pending.keep, events, AckedLines)
                           /\ Cap(Len(pending.keep) + pending.size)

LastInv ==
    /\ sink \in {"idle", "closed"} /\ events \in AckedLines /\ (torn => opens = 1) =>
         EndsWith(bytes, events)
    /\ sink = "sync" => EndsWith(bytes, events)

JournalInv == JournalType /\ Numbered /\ (~torn => FileInv) /\ LastInv

LEMMA MaxIs ==
    ASSUME NEW n \in Nat, NEW S, S \subseteq 0 .. n, S # {}
    PROVE  Max(S) \in S /\ \A y \in S : y <= Max(S)
<1> DEFINE T == {n - x : x \in S}
<1>1. T \subseteq Nat /\ T # {}
  <2>1. \A x \in S : n - x \in Nat
    OBVIOUS
  <2> QED
    BY <2>1
<1>2. PICK t \in T : \A y \in T : t <= y
  BY <1>1, LeastOf
<1>3. PICK x \in S : t = n - x
  BY <1>2
<1>4. \A y \in S : x >= y
  BY <1>2, <1>3
<1> QED
  BY <1>4 DEF Max

LEMMA MinIs ==
    ASSUME NEW S, S \subseteq Nat, S # {}
    PROVE  Min(S) \in S /\ \A y \in S : Min(S) <= y
<1>1. PICK x \in S : \A y \in S : x <= y
  BY LeastOf
<1> QED
  BY <1>1 DEF Min

\* The part of a file between two newlines is a file of whole lines.
LEMMA CutIs ==
    ASSUME NEW f \in Seq(Nat), Lined(f), NEW b \in Nat, NEW g \in Seq(Nat),
           b + Len(g) <= Len(f), b # 0 => f[b] = Newline,
           Len(g) # 0 => f[b + Len(g)] = Newline,
           \A i \in 1 .. Len(g) : g[i] = f[b + i]
    PROVE  Complete(g)
<1> DEFINE m == Len(g)
           l == Len(f)
<1>1. m \in Nat /\ l \in Nat /\ DOMAIN g = 1 .. m /\ DOMAIN f = 1 .. l
  OBVIOUS
<1>2. /\ \A i \in 1 .. l : f[i] \in Nat
      /\ \A i \in 1 .. m : g[i] = f[b + i] /\ b + i \in 1 .. l
  BY <1>1
<1>3. b + m <= l /\ (m # 0 => f[b + m] = 0) /\ (b # 0 => f[b] = 0)
  BY DEF Newline
<1>4. /\ \A p \in 1 .. l : f[p] = 0 => p > 1 /\ f[p - 1] # 0
      /\ \A p \in 1 .. l : f[p] # 0 =>
         /\ \E i \in 1..p : (i = 1 \/ f[i - 1] = 0) /\ \A k \in i..p : f[k] = f[p]
         /\ \E j \in (p + 1)..(l + 1) :
              (j = l + 1 \/ f[j] = 0) /\ \A k \in p..(j - 1) : f[k] = f[p]
      /\ \A p, q \in 1 .. l : p < q /\ f[q] # 0 => f[p] <= f[q]
  BY <1>1 DEF Lined, Newline
<1>5. g # <<>> => g[m] = 0
  <2>1. g # <<>> => m # 0
    BY NoElements
  <2> QED
    BY <1>1, <1>2, <1>3, <2>1
<1> HIDE DEF m, l
<1>6. ASSUME NEW p \in 1 .. m, g[p] = 0 PROVE p > 1 /\ g[p - 1] # 0
  <2>0. b + p \in 1 .. l /\ f[b + p] = 0
    BY <1>2, <1>6
  <2>1. b + p > 1 /\ f[b + p - 1] # 0
    BY <1>4, <2>0
  <2>2. p # 1
    <3>1. ASSUME p = 1 PROVE FALSE
      <4>1. b + p - 1 = b
        BY <3>1
      <4> QED
        BY <1>3, <2>1, <3>1, <4>1
    <3> QED
      BY <3>1
  <2>3. p - 1 \in 1 .. m /\ b + (p - 1) = b + p - 1
    BY <1>1, <2>2
  <2> QED
    BY <1>2, <2>1, <2>2, <2>3
<1>7. ASSUME NEW p \in 1 .. m, g[p] # 0
      PROVE  \E i \in 1..p : (i = 1 \/ g[i - 1] = 0) /\ \A k \in i..p : g[k] = g[p]
  <2>1. PICK i \in 1 .. b + p : (i = 1 \/ f[i - 1] = 0) /\ \A k \in i .. b + p : f[k] = f[b + p]
    BY <1>2, <1>4, <1>7
  <2>2. i > b
    <3>1. ASSUME i <= b PROVE FALSE
      <4>1. b \in i .. b + p /\ b # 0
        BY <3>1
      <4>2. f[b] = f[b + p]
        BY <2>1, <4>1
      <4> QED
        BY <1>2, <1>3, <1>7, <4>1, <4>2
    <3> QED
      BY <3>1
  <2> DEFINE h == i - b
  <2>3. h \in 1 .. p /\ i = b + h
    BY <2>2
  <2> HIDE DEF h
  <2>4. ASSUME h # 1 PROVE g[h - 1] = 0
    <3>1. h - 1 \in 1 .. m /\ b + (h - 1) = i - 1 /\ i # 1
      BY <1>1, <2>3, <2>4
    <3>2. g[h - 1] = f[b + (h - 1)]
      BY <1>2, <3>1
    <3> QED
      BY <2>1, <3>1, <3>2
  <2>5. ASSUME NEW k \in h .. p PROVE g[k] = g[p]
    <3>1. k \in 1 .. m /\ b + k \in i .. b + p
      BY <1>1, <2>3
    <3>2. g[k] = f[b + k] /\ f[b + k] = f[b + p] /\ g[p] = f[b + p]
      BY <1>2, <2>1, <3>1
    <3> QED
      BY <3>2
  <2> QED
    BY <2>3, <2>4, <2>5
<1>8. ASSUME NEW p \in 1 .. m, g[p] # 0
      PROVE  \E j \in (p + 1)..(m + 1) : (j = m + 1 \/ g[j] = 0) /\ \A k \in p..(j - 1) : g[k] = g[p]
  <2>1. PICK j \in (b + p + 1) .. (l + 1) :
               (j = l + 1 \/ f[j] = 0) /\ \A k \in b + p .. (j - 1) : f[k] = f[b + p]
    BY <1>2, <1>4, <1>8
  <2>2. j <= b + m
    <3>1. ASSUME j > b + m PROVE FALSE
      <4>1. b + m \in b + p .. (j - 1) /\ m # 0
        BY <1>1, <3>1
      <4>2. f[b + m] = f[b + p]
        BY <2>1, <4>1
      <4> QED
        BY <1>2, <1>3, <1>8, <4>1, <4>2
    <3> QED
      BY <1>1, <3>1
  <2> DEFINE h == j - b
  <2>3. h \in p + 1 .. m /\ j = b + h /\ j # l + 1
    BY <1>1, <1>3, <2>2
  <2> HIDE DEF h
  <2>4. h \in 1 .. m /\ g[h] = 0
    <3>1. h \in 1 .. m
      BY <1>1, <2>3
    <3> QED
      BY <1>2, <2>1, <2>3, <3>1
  <2>5. ASSUME NEW k \in p .. (h - 1) PROVE g[k] = g[p]
    <3>1. k \in 1 .. m /\ b + k \in b + p .. (j - 1)
      BY <1>1, <2>3
    <3>2. g[k] = f[b + k] /\ f[b + k] = f[b + p] /\ g[p] = f[b + p]
      BY <1>2, <2>1, <3>1
    <3> QED
      BY <3>2
  <2>6. h \in (p + 1) .. (m + 1)
    BY <1>1, <2>3
  <2> QED
    BY <2>4, <2>5, <2>6
<1>9. ASSUME NEW p \in 1 .. m, NEW q \in 1 .. m, p < q, g[q] # 0 PROVE g[p] <= g[q]
  <2>1. b + p < b + q
    BY <1>9
  <2> QED
    BY <1>2, <1>4, <1>9, <2>1
<1>10. Lined(g)
  BY <1>1, <1>6, <1>7, <1>8, <1>9 DEF Lined, Newline, m
<1> QED
  BY <1>5, <1>10 DEF Complete, Newline, m

\* A whole line behind whole lines.
WithLine(f, e, n) == f \o encoded(e, n)

LEMMA LineAdds ==
    ASSUME NEW f \in Seq(Nat), NEW e \in Nat \ {0}, NEW n \in Nat \ {0, 1}
    PROVE  /\ WithLine(f, e, n) \in Seq(Nat) /\ Len(WithLine(f, e, n)) = Len(f) + n
           /\ EndsWith(WithLine(f, e, n), e)
           /\ \A i \in 1 .. Len(f) : WithLine(f, e, n)[i] = f[i]
           /\ \A i \in (Len(f) + 1) .. (Len(f) + n - 1) : WithLine(f, e, n)[i] = e
           /\ WithLine(f, e, n)[Len(f) + n] = Newline
<1> DEFINE c == encoded(e, n)
           l == Len(f)
           g == WithLine(f, e, n)
<1>0. g = f \o c
  BY DEF WithLine
<1> HIDE DEF g
<1>1. c \in [1 .. n -> Nat] /\ \A i \in 1 .. n : c[i] = IF i = n THEN 0 ELSE e
  BY DEF encoded, Newline
<1>2. c \in Seq(Nat) /\ Len(c) = n
  BY <1>1
<1> HIDE DEF c
<1>3. /\ g \in Seq(Nat) /\ Len(g) = Len(f) + Len(c) /\ l \in Nat
      /\ \A i \in 1 .. Len(f) : g[i] = f[i]
      /\ \A i \in 1 .. Len(c) : g[Len(f) + i] = c[i]
  <2>1. c \in Seq(Nat)
    BY <1>2
  <2> QED
    BY <1>0, <2>1, ConcatIs
<1> HIDE DEF l
<1>4. /\ g \in Seq(Nat) /\ Len(g) = l + n /\ (\A i \in 1 .. l : g[i] = f[i])
      /\ \A i \in 1 .. n : g[l + i] = c[i]
  BY <1>2, <1>3 DEF l
<1>5. g[l + n] = 0
  BY <1>1, <1>4
<1>6. ASSUME NEW i \in (l + 1) .. (l + n - 1) PROVE g[i] = e
  <2>1. i - l \in 1 .. n /\ l + (i - l) = i /\ i - l # n
    BY <1>3
  <2> QED
    BY <1>1, <1>4, <2>1
<1>7. EndsWith(g, e)
  <2>1. /\ Len(g) > 1 /\ Len(g) = l + n /\ Len(g) - 1 = l + n - 1
        /\ l + n - 1 \in (l + 1) .. (l + n - 1)
    <3>1. n >= 2
      OBVIOUS
    <3>2. l \in Nat /\ Len(g) = l + n
      BY <1>3, <1>4
    <3> QED
      BY <3>1, <3>2
  <2> QED
    BY <1>5, <1>6, <2>1 DEF EndsWith, Newline
<1> QED
  BY <1>4, <1>5, <1>6, <1>7 DEF Newline, l, g

LEMMA LineCompletes ==
    ASSUME NEW f \in Seq(Nat), NEW e \in Nat \ {0}, NEW n \in Nat \ {0, 1}, Complete(f),
           Range(f) \subseteq 0 .. e
    PROVE  /\ Complete(WithLine(f, e, n))
           /\ Range(WithLine(f, e, n)) \subseteq Range(f) \cup {Newline, e}
           /\ Range(f) \cup {e} \subseteq Range(WithLine(f, e, n))
<1> DEFINE g == WithLine(f, e, n)
           l == Len(f)
           z == l + n
<1>1. /\ g \in Seq(Nat) /\ Len(g) = z /\ l \in Nat /\ (\A i \in 1 .. l : g[i] = f[i])
      /\ (\A i \in (l + 1) .. (z - 1) : g[i] = e) /\ g[z] = 0
  <2>1. /\ g \in Seq(Nat) /\ Len(g) = Len(f) + n
        /\ \A i \in 1 .. Len(f) : g[i] = f[i]
        /\ \A i \in (Len(f) + 1) .. (Len(f) + n - 1) : g[i] = e
        /\ g[Len(f) + n] = Newline
    <3>1. g \in Seq(Nat) /\ Len(g) = Len(f) + n
      BY LineAdds
    <3>2. \A i \in 1 .. Len(f) : g[i] = f[i]
      BY LineAdds
    <3>3. \A i \in (Len(f) + 1) .. (Len(f) + n - 1) : g[i] = e
      BY LineAdds
    <3>4. g[Len(f) + n] = Newline
      BY LineAdds
    <3> HIDE DEF g
    <3> QED
      BY <3>1, <3>2, <3>3, <3>4
  <2>2. Len(f) \in Nat
    OBVIOUS
  <2> HIDE DEF g
  <2> QED
    BY <2>1, <2>2 DEF Newline
<1>2. /\ DOMAIN f = 1 .. l /\ DOMAIN g = 1 .. z
      /\ \A i \in 1 .. l : f[i] \in Nat /\ f[i] <= e
  <2>1. DOMAIN f = 1 .. l /\ DOMAIN g = 1 .. z
    BY <1>1
  <2>2. \A i \in 1 .. l : f[i] \in Range(f)
    BY <2>1 DEF Range
  <2> QED
    BY <2>1, <2>2
<1>3. l # 0 => f[l] = 0
  <2>1. f # <<>> <=> l # 0
    BY NoElements
  <2> QED
    BY <2>1 DEF Complete, Newline
<1>4. /\ \A p \in 1 .. l : f[p] = 0 => p > 1 /\ f[p - 1] # 0
      /\ \A p \in 1 .. l : f[p] # 0 =>
         /\ \E i \in 1..p : (i = 1 \/ f[i - 1] = 0) /\ \A k \in i..p : f[k] = f[p]
         /\ \E j \in (p + 1)..(l + 1) :
              (j = l + 1 \/ f[j] = 0) /\ \A k \in p..(j - 1) : f[k] = f[p]
      /\ \A p, q \in 1 .. l : p < q /\ f[q] # 0 => f[p] <= f[q]
  BY <1>2 DEF Complete, Lined, Newline
<1>5. n >= 2 /\ z \in Nat /\ z - 1 \in (l + 1) .. (z - 1) /\ z > l
  <2>1. n >= 2 /\ l \in Nat
    BY <1>1
  <2> QED
    BY <2>1
<1>6. g # <<>> /\ g[Len(g)] = 0
  <2>1. Len(g) # 0
    BY <1>1, <1>5
  <2> QED
    BY <1>1, <2>1, NoElements
<1> HIDE DEF g, l, z
<1>a. /\ l \in Nat /\ (\A i \in 1 .. l : g[i] = f[i])
      /\ (\A i \in (l + 1) .. (z - 1) : g[i] = e) /\ g[z] = 0
  BY <1>1
<1>b. /\ \A p \in 1 .. l : f[p] # 0 =>
           \E i \in 1..p : (i = 1 \/ f[i - 1] = 0) /\ \A k \in i..p : f[k] = f[p]
      /\ \A p \in 1 .. l : f[p] # 0 =>
           \E j \in (p + 1)..(l + 1) : (j = l + 1 \/ f[j] = 0) /\ \A k \in p..(j - 1) : f[k] = f[p]
  BY <1>4
<1>7. \A p \in 1 .. z : p \in 1 .. l \/ p \in (l + 1) .. (z - 1) \/ p = z
  BY <1>1, <1>5
<1>8. ASSUME NEW p \in 1 .. z, g[p] = 0 PROVE p > 1 /\ g[p - 1] # 0
  <2>1. CASE p \in 1 .. l
    <3>1. p > 1 /\ f[p - 1] # 0
      BY <1>1, <1>4, <1>8, <2>1
    <3>2. p - 1 \in 1 .. l
      BY <1>1, <2>1, <3>1
    <3> QED
      BY <1>1, <3>1, <3>2
  <2>2. CASE p \in (l + 1) .. (z - 1)
    BY <1>1, <1>8, <2>2
  <2>3. CASE p = z
    BY <1>1, <1>5, <2>3
  <2> QED
    BY <1>7, <2>1, <2>2, <2>3
<1>9. ASSUME NEW p \in 1 .. z, g[p] # 0
      PROVE  \E i \in 1..p : (i = 1 \/ g[i - 1] = 0) /\ \A k \in i..p : g[k] = g[p]
  <2>1. CASE p \in 1 .. l
    <3>1. PICK i \in 1 .. p : (i = 1 \/ f[i - 1] = 0) /\ \A k \in i .. p : f[k] = f[p]
      <4>1. f[p] # 0
        BY <1>a, <1>9, <2>1
      <4> QED
        BY <1>b, <2>1, <4>1
    <3>2. i # 1 => i - 1 \in 1 .. l /\ g[i - 1] = 0
      <4>1. ASSUME i # 1 PROVE i - 1 \in 1 .. l
        BY <1>1, <2>1, <4>1
      <4> QED
        BY <1>1, <3>1, <4>1
    <3>3. \A k \in i .. p : k \in 1 .. l
      BY <1>1, <2>1
    <3> QED
      BY <1>1, <2>1, <3>1, <3>2, <3>3
  <2>2. CASE p \in (l + 1) .. (z - 1)
    <3>1. l + 1 \in 1 .. p /\ l + 1 - 1 = l
      BY <1>1, <2>2
    <3>2. l + 1 = 1 \/ g[l + 1 - 1] = 0
      BY <1>1, <1>3, <3>1
    <3>3. \A k \in l + 1 .. p : k \in (l + 1) .. (z - 1)
      BY <1>1, <1>5, <2>2
    <3>4. \A k \in l + 1 .. p : g[k] = g[p]
      BY <1>a, <2>2, <3>3
    <3> DEFINE h == l + 1
    <3>5. h \in 1 .. p
      BY <3>1
    <3>6. h = 1 \/ g[h - 1] = 0
      <4>1. h - 1 = l /\ (l = 0 => h = 1)
        BY <1>a
      <4>2. l # 0 => g[l] = 0
        BY <1>a, <3>1, <3>2
      <4> QED
        BY <4>1, <4>2
    <3>7. \A k \in h .. p : g[k] = g[p]
      BY <3>4
    <3> HIDE DEF h
    <3> QED
      BY <3>5, <3>6, <3>7
  <2> QED
    BY <1>1, <1>7, <1>9, <2>1, <2>2
<1>10. ASSUME NEW p \in 1 .. z, g[p] # 0
       PROVE  \E j \in (p + 1)..(z + 1) : (j = z + 1 \/ g[j] = 0) /\ \A k \in p..(j - 1) : g[k] = g[p]
  <2>1. CASE p \in 1 .. l
    <3>1. PICK j \in (p + 1) .. (l + 1) : (j = l + 1 \/ f[j] = 0) /\ \A k \in p .. (j - 1) : f[k] = f[p]
      <4>1. f[p] # 0
        BY <1>a, <1>10, <2>1
      <4> QED
        BY <1>b, <2>1, <4>1
    <3>2. j # l + 1
      <4>1. ASSUME j = l + 1 PROVE FALSE
        <5>1. l \in p .. (j - 1) /\ l # 0
          BY <1>1, <2>1, <4>1
        <5>2. f[l] = f[p]
          BY <3>1, <5>1
        <5> QED
          BY <1>1, <1>3, <1>10, <2>1, <5>1, <5>2
      <4> QED
        BY <4>1
    <3>3. j \in 1 .. l /\ j \in (p + 1) .. (z + 1)
      BY <1>1, <1>5, <2>1, <3>2
    <3>4. \A k \in p .. (j - 1) : k \in 1 .. l
      BY <1>1, <2>1, <3>3
    <3>5. g[j] = 0 /\ \A k \in p .. (j - 1) : g[k] = g[p]
      BY <1>a, <2>1, <3>1, <3>2, <3>3, <3>4
    <3> QED
      BY <3>3, <3>5
  <2>2. CASE p \in (l + 1) .. (z - 1)
    <3>1. z \in (p + 1) .. (z + 1) /\ \A k \in p .. (z - 1) : k \in (l + 1) .. (z - 1)
      BY <1>1, <1>5, <2>2
    <3> QED
      BY <1>1, <2>2, <3>1
  <2> QED
    BY <1>1, <1>7, <1>10, <2>1, <2>2
<1>11. ASSUME NEW p \in 1 .. z, NEW q \in 1 .. z, p < q, g[q] # 0 PROVE g[p] <= g[q]
  <2>1. CASE q \in 1 .. l
    <3>1. p \in 1 .. l
      BY <1>a, <1>11, <2>1
    <3> QED
      BY <1>1, <1>4, <1>11, <2>1, <3>1
  <2>2. CASE q \in (l + 1) .. (z - 1)
    <3>1. g[q] = e /\ (p \in 1 .. l \/ p \in (l + 1) .. (z - 1))
      BY <1>1, <1>5, <1>11, <2>2
    <3> QED
      BY <1>1, <1>2, <3>1
  <2> QED
    BY <1>1, <1>7, <1>11, <2>1, <2>2
<1>12. Complete(g)
  <2>1. DOMAIN g = 1 .. z /\ Len(g) = z
    BY <1>1, <1>2
  <2>2. \A p \in 1 .. z : g[p] = 0 => p > 1 /\ g[p - 1] # 0
    BY <1>8
  <2>3. \A p \in 1 .. z : g[p] # 0 =>
         /\ \E i \in 1..p : (i = 1 \/ g[i - 1] = 0) /\ \A k \in i..p : g[k] = g[p]
         /\ \E j \in (p + 1)..(z + 1) :
              (j = z + 1 \/ g[j] = 0) /\ \A k \in p..(j - 1) : g[k] = g[p]
    BY <1>9, <1>10
  <2>4. \A p, q \in 1 .. z : p < q /\ g[q] # 0 => g[p] <= g[q]
    BY <1>11
  <2>5. Lined(g)
    BY <2>1, <2>2, <2>3, <2>4 DEF Lined, Newline
  <2> QED
    BY <1>6, <2>5 DEF Complete, Newline
<1>13. Range(g) = {g[i] : i \in 1 .. z} /\ Range(f) = {f[i] : i \in 1 .. l}
  BY <1>2 DEF Range
<1>14. Range(g) \subseteq Range(f) \cup {0, e}
  BY <1>a, <1>7, <1>13
<1>15. Range(f) \cup {e} \subseteq Range(g)
  <2>1. \A i \in 1 .. l : i \in 1 .. z
    BY <1>1, <1>5
  <2>2. z - 1 \in 1 .. z /\ g[z - 1] = e
    BY <1>1, <1>5
  <2> QED
    BY <1>1, <1>13, <2>1, <2>2
<1> QED
  BY <1>12, <1>14, <1>15 DEF Newline, g

\* What truncation keeps: nothing, or a part of the file that begins a line, ends
\* with a newline and fits.
LEMMA RetainedIs ==
    ASSUME NEW f \in Seq(Nat), NEW n \in Nat, n <= Len(f), NEW k \in Nat
    PROVE  /\ retained(f, n, k) \in Seq(Nat)
           /\ retained(f, n, k) # <<>> =>
                \E b \in Nat :
                  /\ b + Len(retained(f, n, k)) <= n
                  /\ b # 0 => f[b] = Newline
                  /\ f[b + Len(retained(f, n, k))] = Newline
                  /\ \A i \in 1 .. Len(retained(f, n, k)) : retained(f, n, k)[i] = f[b + i]
                  /\ Len(retained(f, n, k)) <= KeepBudget(k)
                  /\ \A q \in (b + Len(retained(f, n, k)) + 1) .. n : f[q] # Newline
<1> DEFINE offset == n - Min({n, MaxFileBytes})
           tail   == SubSeq(f, offset + 1, n)
           news   == {i \in DOMAIN tail : tail[i] = Newline}
           last   == Max({0} \cup news)
           starts == {s \in 1..last :
                     /\ IF s = 1 THEN offset = 0 ELSE tail[s - 1] = Newline
                     /\ ~HasBlank(tail, s, last)
                     /\ last - s + 1 <= KeepBudget(k)}
           r == retained(f, n, k)
<1>1. r = IF starts = {} THEN <<>> ELSE SubSeq(tail, Min(starts), last)
  BY DEF retained
<1>2. offset \in 0 .. n
  <2>1. MaxFileBytes \in Nat
    BY JournalAssumption
  <2>2. Min({n, MaxFileBytes}) \in {n, MaxFileBytes} /\ Min({n, MaxFileBytes}) <= n
    BY <2>1, MinIs
  <2> QED
    BY <2>1, <2>2
<1> HIDE DEF offset, r
<1>3. /\ tail \in Seq(Nat) /\ Len(tail) = n - offset
      /\ \A i \in 1 .. n - offset : tail[i] = f[offset + i]
  BY <1>2
<1> DEFINE t == n - offset
<1>4. t \in Nat /\ offset + t = n /\ DOMAIN tail = 1 .. t
  BY <1>2, <1>3
<1> HIDE DEF tail, t
<1>5. last \in {0} \cup news /\ \A y \in {0} \cup news : y <= last
  <2>1. {0} \cup news \subseteq 0 .. t
    BY <1>4
  <2> QED
    BY <1>4, <2>1, MaxIs
<1> HIDE DEF last
<1>6. last \in 0 .. t /\ (last # 0 => tail[last] = Newline)
      /\ \A y \in 1 .. t : tail[y] = Newline => y <= last
  BY <1>4, <1>5
<1>7. CASE starts = {}
  <2>1. r = <<>>
    BY <1>1, <1>7
  <2> QED
    BY <2>1, EmptySequence DEF r
<1>8. CASE starts # {}
  <2> DEFINE s == Min(starts)
  <2>0. starts \subseteq Nat
    BY <1>6
  <2> HIDE DEF starts
  <2>1. s \in starts
    BY <1>8, <2>0, MinIs
  <2> USE DEF starts
  <2> HIDE DEF s
  <2>2. /\ s \in 1 .. last /\ (s = 1 => offset = 0) /\ (s # 1 => tail[s - 1] = Newline)
        /\ last - s + 1 <= KeepBudget(k)
    BY <2>1
  <2>3. r = SubSeq(tail, s, last)
    BY <1>1, <1>8 DEF s
  <2> HIDE DEF starts, news
  <2>4. s >= 1 /\ s <= last /\ last <= t /\ s \in Nat /\ last \in Nat
    BY <1>4, <1>6, <2>2
  <2>5. r \in Seq(Nat) /\ Len(r) = last - s + 1 /\ \A i \in 1 .. last - s + 1 : r[i] = tail[s + i - 1]
    BY <1>3, <1>4, <2>3, <2>4 DEF t
  <2> DEFINE b == offset + (s - 1)
             m == last - s + 1
  <2>6. b \in Nat /\ m \in Nat /\ b + m = offset + last /\ b + m <= n
    BY <1>2, <1>4, <2>4
  <2>7. b # 0 => f[b] = Newline
    <3>1. ASSUME b # 0 PROVE f[b] = Newline
      <4>1. s # 1
        BY <1>2, <2>2, <3>1
      <4>2. s - 1 \in 1 .. t
        BY <1>4, <2>4, <4>1
      <4> QED
        BY <1>3, <2>2, <4>1, <4>2 DEF t
    <3> QED
      BY <3>1
  <2>8. f[b + m] = Newline
    <3>1. last \in 1 .. t /\ last # 0
      BY <1>4, <2>4
    <3> QED
      BY <1>3, <1>6, <2>6, <3>1 DEF t
  <2>9. \A i \in 1 .. m : r[i] = f[b + i]
    <3>1. ASSUME NEW i \in 1 .. m PROVE r[i] = f[b + i]
      <4>1. s + i - 1 \in 1 .. t /\ offset + (s + i - 1) = b + i
        BY <1>2, <1>4, <2>4
      <4>2. tail[s + i - 1] = f[offset + (s + i - 1)]
        BY <1>3, <4>1 DEF t
      <4> QED
        BY <2>5, <4>1, <4>2
    <3> QED
      BY <3>1
  <2>10. ASSUME NEW q \in (b + m + 1) .. n PROVE f[q] # Newline
    <3>1. q - offset \in 1 .. t /\ q - offset > last /\ offset + (q - offset) = q
      BY <1>2, <1>4, <2>4, <2>6
    <3>2. tail[q - offset] = f[q]
      BY <1>3, <3>1 DEF t
    <3>3. tail[q - offset] # Newline
      BY <1>6, <2>4, <3>1
    <3> QED
      BY <3>2, <3>3
  <2>11. Len(r) = m /\ m <= KeepBudget(k)
    BY <2>2, <2>5
  <2> HIDE DEF b, m
  <2> QED
    BY <2>5, <2>6, <2>7, <2>8, <2>9, <2>10, <2>11 DEF r
<1> QED
  BY <1>7, <1>8

LEMMA EmptyIsComplete == Complete(<<>>) /\ <<>> \in Seq(Nat) /\ Range(<<>>) = {}
<1>1. DOMAIN <<>> = {}
  OBVIOUS
<1> QED
  BY <1>1, EmptySequence DEF Complete, Lined

\* Truncation keeps whole lines that fit, and the newest of them.
LEMMA RetainedKeeps ==
    ASSUME NEW f \in Seq(Nat), Lined(f), NEW k \in Nat
    PROVE  LET g == retained(f, Len(f), k)
           IN  /\ g \in Seq(Nat) /\ Complete(g) /\ Range(g) \subseteq Range(f)
               /\ Len(g) <= KeepBudget(k)
               /\ Complete(f) => \A e \in Range(g) \ {Newline}, a \in Range(f) : a > e => a \in Range(g)
<1> DEFINE g == retained(f, Len(f), k)
           m == Len(g)
           l == Len(f)
<1>0. l \in Nat /\ l <= l
  OBVIOUS
<1>1. g \in Seq(Nat)
  BY <1>0, RetainedIs
<1>2. CASE g = <<>>
  <2>1. KeepBudget(k) \in Nat
    BY JournalAssumption DEF KeepBudget
  <2>2. Len(g) = 0
    BY <1>1, <1>2, NoElements
  <2> HIDE DEF g
  <2>3. Complete(g) /\ Range(g) = {} /\ Len(g) <= KeepBudget(k)
    BY <1>2, <2>1, <2>2, EmptyIsComplete
  <2> QED
    BY <1>1, <2>3 DEF g
<1>3. CASE g # <<>>
  <2>1. PICK b \in Nat :
                  /\ b + m <= l
                  /\ b # 0 => f[b] = Newline
                  /\ f[b + m] = Newline
                  /\ \A i \in 1 .. m : g[i] = f[b + i]
                  /\ m <= KeepBudget(k)
                  /\ \A q \in (b + m + 1) .. l : f[q] # Newline
    BY <1>0, <1>3, RetainedIs
  <2> HIDE DEF g
  <2>2. Complete(g)
    BY <1>1, <2>1, CutIs
  <2>3. m \in Nat /\ DOMAIN g = 1 .. m /\ DOMAIN f = 1 .. l /\ m # 0
    BY <1>1, <1>3, NoElements
  <2>a. \A i \in 1 .. l : f[i] \in Nat
    OBVIOUS
  <2> HIDE DEF m, l
  <2>4. Range(g) = {g[i] : i \in 1 .. m} /\ Range(f) = {f[i] : i \in 1 .. l}
    BY <2>3 DEF Range
  <2>5. \A i \in 1 .. m : b + i \in 1 .. l
    BY <1>0, <2>1, <2>3
  <2>6. Range(g) \subseteq Range(f)
    BY <2>1, <2>4, <2>5
  <2>7. ASSUME Complete(f), NEW e \in Range(g) \ {Newline}, NEW a \in Range(f), a > e PROVE a \in Range(g)
    <3>1. PICK i \in 1 .. m : e = g[i]
      BY <2>4
    <3>2. PICK q \in 1 .. l : a = f[q]
      BY <2>4
    <3>3. b + i \in 1 .. l /\ e = f[b + i] /\ e # 0
      BY <2>1, <2>5, <3>1 DEF Newline
    <3>4. a \in Nat /\ e \in Nat
      BY <2>a, <3>2, <3>3
    <3>5. ~(q < b + i)
      <4>1. ASSUME q < b + i PROVE FALSE
        <5>1. f[q] <= f[b + i]
          BY <2>3, <3>3, <4>1 DEF Lined, Newline
        <5> QED
          BY <2>7, <3>2, <3>3, <3>4, <5>1
      <4> QED
        BY <4>1
    <3>6. q <= b + m
      <4>1. f[l] = Newline
        <5>1. f # <<>>
          BY <2>3, <3>2, NoElements DEF l
        <5> QED
          BY <2>7, <5>1 DEF Complete, l
      <4>2. ASSUME q > b + m PROVE FALSE
        <5>1. l \in (b + m + 1) .. l
          BY <1>0, <2>3, <4>2
        <5> QED
          BY <2>1, <4>1, <5>1
      <4> QED
        BY <2>3, <4>2
    <3>7. q - b \in 1 .. m /\ b + (q - b) = q
      BY <2>3, <3>5, <3>6
    <3>8. g[q - b] = f[q]
      BY <2>1, <3>7
    <3> QED
      BY <2>4, <3>2, <3>7, <3>8
  <2> QED
    BY <1>1, <2>1, <2>2, <2>6, <2>7 DEF g, m, l
<1> QED
  BY <1>2, <1>3

LEMMA ConcatNat ==
    ASSUME NEW s \in Seq(Nat), NEW t \in Seq(Nat)
    PROVE  s \o t \in Seq(Nat)
OBVIOUS

LEMMA PrefixNat ==
    ASSUME NEW t \in Seq(Nat), NEW k \in 0 .. (Len(t) - 1)
    PROVE  SubSeq(t, 1, k) \in Seq(Nat)
OBVIOUS

LEMMA SomeWritten ==
    ASSUME NEW t \in Seq(Nat), write_some(t), bytes \in Seq(Nat)
    PROVE  bytes' \in Seq(Nat)
BY ConcatNat, PrefixNat DEF write_some

LEMMA EncodedIs ==
    ASSUME NEW e \in Nat, NEW n \in Nat
    PROVE  encoded(e, n) \in Seq(Nat)
<1>1. encoded(e, n) \in [1 .. n -> Nat]
  BY DEF encoded, Newline
<1> QED
  BY <1>1

LEMMA NewestStays ==
    ASSUME NEW f, NEW n \in Nat, NEW m \in Nat, n <= m, NEW S, NEW T, T \subseteq S, Newest(f, n, S)
    PROVE  Newest(f, m, T)
BY DEF Newest

Begun == {"truncate", "rewrite", "write", "sync"}

LEMMA NoEventIs ==
    /\ NoEvent \in [event : Nat, size : Nat, keep : Seq(Nat)]
    /\ \A e, n \in Nat : [event |-> e, size |-> n, keep |-> <<>>] \in [event : Nat, size : Nat, keep : Seq(Nat)]
BY EmptySequence DEF NoEvent

LEMMA SizesAre == EncodedSizes \subseteq Nat \ {0, 1} /\ MaxFileBytes \in Nat
BY JournalAssumption

LEMMA RecordKeeps ==
    ASSUME JournalInv, NEW n \in EncodedSizes, record(n)
    PROVE  JournalInv'
<1>1. /\ sink = "idle" /\ events' = events + 1 /\ bytes' = bytes /\ current' = current
      /\ torn' = torn /\ opens' = opens /\ measured' = measured
      /\ \/ /\ Bounded /\ n > MaxFileBytes
            /\ acked' = Append(acked, events + 1) /\ dropped' = dropped \cup {events + 1}
            /\ sink' = sink /\ pending' = pending
         \/ /\ ~(Bounded /\ n > MaxFileBytes)
            /\ pending' = [event |-> events + 1, size |-> n, keep |-> <<>>]
            /\ sink' = IF Bounded /\ current + n > MaxFileBytes THEN "truncate" ELSE "write"
            /\ acked' = acked /\ dropped' = dropped
  BY DEF record
<1>2. JournalType /\ events \in Nat /\ acked \in Seq(Nat) /\ Range(acked) \subseteq 1 .. events /\ opens # 0
  BY <1>1 DEF JournalInv, JournalType, Numbered
<1>3. n \in Nat /\ MaxFileBytes \in Nat /\ n # 0
  BY SizesAre
<1>4. ~torn => FileInv
  BY DEF JournalInv
<1>5. CASE acked' = Append(acked, events + 1) /\ dropped' = dropped \cup {events + 1} /\ sink' = sink /\ pending' = pending
  <2>1. acked' \in Seq(Nat) /\ Range(acked') = Range(acked) \cup {events + 1}
    BY <1>2, <1>5, AppendRange
  <2>2. AckedLines' \subseteq AckedLines /\ events' \notin AckedLines'
    BY <1>1, <1>5, <2>1 DEF AckedLines
  <2>3. JournalType' /\ Numbered'
    <3>1. JournalType'
      BY <1>1, <1>2, <1>5, <2>1 DEF JournalType
    <3>2. Range(acked') \subseteq 1 .. events'
      BY <1>1, <1>2, <2>1
    <3> QED
      BY <1>1, <1>2, <1>5, <3>1, <3>2 DEF Numbered
  <2>4. ~torn => Newest(bytes, events', AckedLines')
    BY <1>1, <1>2, <1>4, <2>2, NewestStays DEF FileInv
  <2>5. ~torn' => FileInv'
    BY <1>1, <1>4, <1>5, <2>4 DEF FileInv, Cap
  <2>6. LastInv'
    BY <1>1, <1>5, <2>2 DEF LastInv
  <2> QED
    BY <2>3, <2>5, <2>6 DEF JournalInv
<1>6. CASE /\ ~(Bounded /\ n > MaxFileBytes) /\ acked' = acked /\ dropped' = dropped
           /\ pending' = [event |-> events + 1, size |-> n, keep |-> <<>>]
           /\ sink' = IF Bounded /\ current + n > MaxFileBytes THEN "truncate" ELSE "write"
  <2>1. /\ pending' \in [event : Nat, size : Nat, keep : Seq(Nat)] /\ pending'.event = events + 1
        /\ pending'.size = n
    BY <1>2, <1>3, <1>6, NoEventIs
  <2>2. sink' \in {"truncate", "write"} /\ (sink' = "truncate" => Bounded)
    BY <1>6
  <2>3. JournalType'
    BY <1>1, <1>2, <1>6, <2>1, <2>2 DEF JournalType
  <2>4. Numbered'
    BY <1>1, <1>2, <1>3, <1>6, <2>1, <2>2 DEF Numbered, Bounded
  <2>5. ~torn => Newest(bytes, events', AckedLines')
    <3>1. AckedLines' = AckedLines
      BY <1>6 DEF AckedLines
    <3> QED
      BY <1>1, <1>2, <1>4, <3>1, NewestStays DEF FileInv
  <2>6. ~torn' => FileInv'
    <3>1. ASSUME ~torn PROVE FileInv'
      <4>1. /\ Complete(bytes) /\ current = Len(bytes) /\ Cap(Len(bytes))
        BY <1>1, <1>4, <3>1 DEF FileInv
      <4>2. sink' = "write" => Cap(Len(bytes) + n)
        BY <1>3, <1>6, <4>1 DEF Cap, Bounded
      <4> QED
        BY <1>1, <2>1, <2>2, <2>5, <3>1, <4>1, <4>2 DEF FileInv, Cap, Bounded
    <3> QED
      BY <1>1, <3>1
  <2>7. LastInv'
    BY <2>2 DEF LastInv
  <2> QED
    BY <2>3, <2>4, <2>6, <2>7 DEF JournalInv
<1> QED
  BY <1>1, <1>5, <1>6

\* A call of record ends without an acknowledgement, and the file is as it was.
LEMMA ReturnKeeps ==
    ASSUME JournalInv, sink \in Begun, sink' \in {"idle", "closed"}, pending' = NoEvent,
           UNCHANGED <<events, acked, dropped, opens, current, measured>>, bytes' \in Seq(Nat), torn' \in BOOLEAN,
           ~torn' => ~torn /\ bytes' = bytes /\ sink # "rewrite"
    PROVE  JournalInv'
<1>1. JournalType' /\ Numbered'
  <2>1. JournalType'
    BY NoEventIs DEF JournalInv, JournalType
  <2>2. opens # 0
    BY DEF JournalInv, Numbered, Begun
  <2> QED
    BY <2>1, <2>2 DEF JournalInv, Numbered
<1>2. AckedLines' = AckedLines /\ events \notin AckedLines
  BY DEF AckedLines, JournalInv, Numbered, Begun
<1>3. LastInv'
  BY <1>2 DEF LastInv
<1>4. ~torn' => FileInv'
  <2>1. ASSUME ~torn' PROVE FileInv'
    <3>1. /\ Complete(bytes) /\ Newest(bytes, events, AckedLines) /\ current = Len(bytes)
          /\ Cap(Len(bytes)) /\ bytes' = bytes
      BY <2>1 DEF JournalInv, FileInv, Begun
    <3> QED
      BY <1>2, <3>1 DEF FileInv, Complete, Cap
  <2> QED
    BY <2>1
<1> QED
  BY <1>1, <1>3, <1>4 DEF JournalInv

LEMMA TruncateKeeps ==
    ASSUME JournalInv, truncate_oldest
    PROVE  JournalInv'
<1> DEFINE keep == retained(bytes, current, pending.size)
<1>1. /\ sink = "truncate" /\ UNCHANGED <<current, measured, events, acked, dropped, torn, opens>>
      /\ \/ /\ readable(bytes, current) /\ pending' = [pending EXCEPT !.keep = keep]
            /\ bytes' = <<>> /\ sink' = "rewrite"
         \/ RecordReturns /\ bytes' = bytes
  BY DEF truncate_oldest
<1> HIDE DEF keep
<1>2. /\ JournalType /\ bytes \in Seq(Nat) /\ current \in Nat /\ torn \in BOOLEAN
      /\ pending \in [event : Nat, size : Nat, keep : Seq(Nat)] /\ pending.size \in Nat
  BY DEF JournalInv, JournalType
<1>3. CASE RecordReturns /\ bytes' = bytes
  BY <1>1, <1>2, <1>3, ReturnKeeps DEF RecordReturns, Begun
<1>4. CASE /\ readable(bytes, current) /\ pending' = [pending EXCEPT !.keep = keep]
           /\ bytes' = <<>> /\ sink' = "rewrite"
  <2>1. keep \in Seq(Nat)
    <3>1. current <= Len(bytes)
      BY <1>2, <1>4 DEF readable
    <3> QED
      BY <1>2, <3>1, RetainedIs DEF keep
  <2>2. /\ pending' \in [event : Nat, size : Nat, keep : Seq(Nat)] /\ pending'.event = pending.event
        /\ pending'.size = pending.size /\ pending'.keep = keep
    BY <1>2, <1>4, <2>1
  <2>3. JournalType'
    BY <1>1, <1>2, <1>4, <2>2, EmptySequence DEF JournalType
  <2>4. /\ pending.event = events /\ events > 0 /\ events \notin Range(acked)
        /\ pending.size \in EncodedSizes /\ pending.size <= MaxFileBytes /\ opens # 0 /\ Bounded
        /\ Range(acked) \subseteq 1 .. events
    BY <1>1 DEF JournalInv, Numbered
  <2>5. Numbered'
    BY <1>1, <1>4, <2>2, <2>4 DEF Numbered
  <2>6. LastInv'
    BY <1>4 DEF LastInv
  <2>7. ASSUME ~torn PROVE FileInv'
    <3>1. Complete(bytes) /\ Newest(bytes, events, AckedLines) /\ current = Len(bytes)
      BY <1>1, <2>7 DEF JournalInv, FileInv
    <3>2. /\ Complete(keep) /\ Range(keep) \subseteq Range(bytes) /\ Len(keep) <= KeepBudget(pending.size)
          /\ \A e \in Range(keep) \ {Newline}, a \in Range(bytes) : a > e => a \in Range(keep)
      BY <1>2, <3>1, RetainedKeeps DEF Complete, keep
    <3>3. Newest(keep, events, AckedLines)
      BY <3>1, <3>2 DEF Newest
    <3>4. Len(keep) + pending.size <= MaxFileBytes
      <4>1. Len(keep) \in Nat
        BY <2>1
      <4> QED
        BY <1>2, <2>4, <3>2, <4>1, SizesAre DEF KeepBudget
    <3>5. AckedLines' = AckedLines
      BY <1>1 DEF AckedLines
    <3> QED
      BY <1>1, <1>4, <2>2, <3>2, <3>3, <3>4, <3>5 DEF FileInv, Cap
  <2> QED
    BY <1>1, <2>3, <2>5, <2>6, <2>7 DEF JournalInv
<1> QED
  BY <1>1, <1>3, <1>4

LEMMA RewriteKeeps ==
    ASSUME JournalInv, rewrite
    PROVE  JournalInv'
<1>1. /\ sink = "rewrite" /\ UNCHANGED <<measured, events, acked, dropped, opens>>
      /\ \/ /\ write_all(pending.keep) /\ current' = Len(pending.keep) /\ sink' = "write"
            /\ pending' = pending /\ torn' = torn
         \/ /\ write_some(pending.keep) /\ torn' = TRUE /\ RecordReturns /\ current' = current
  BY DEF rewrite
<1>2. /\ JournalType /\ bytes \in Seq(Nat) /\ pending.keep \in Seq(Nat)
  BY DEF JournalInv, JournalType
<1>3. CASE write_some(pending.keep) /\ torn' = TRUE /\ RecordReturns /\ current' = current
  <2>1. bytes' \in Seq(Nat)
    BY <1>2, <1>3, SomeWritten
  <2> QED
    BY <1>1, <1>3, <2>1, ReturnKeeps DEF RecordReturns, Begun
<1>4. CASE /\ write_all(pending.keep) /\ current' = Len(pending.keep) /\ sink' = "write"
           /\ pending' = pending /\ torn' = torn
  <2>1. bytes' = bytes \o pending.keep
    BY <1>4 DEF write_all
  <2>2. bytes' \in Seq(Nat) /\ Len(pending.keep) \in Nat
    BY <1>2, <2>1, ConcatNat
  <2>3. JournalType' /\ Numbered' /\ LastInv'
    <3>1. JournalType'
      BY <1>1, <1>2, <1>4, <2>2 DEF JournalType
    <3>2. Numbered' /\ LastInv'
      BY <1>1, <1>4 DEF JournalInv, Numbered, LastInv
    <3> QED
      BY <3>1, <3>2
  <2>4. ASSUME ~torn PROVE FileInv'
    <3>1. /\ bytes = <<>> /\ Complete(pending.keep) /\ Newest(pending.keep, events, AckedLines)
          /\ Cap(Len(pending.keep) + pending.size)
      BY <1>1, <2>4 DEF JournalInv, FileInv
    <3>2. bytes' = pending.keep
      BY <1>2, <2>1, <3>1
    <3>3. AckedLines' = AckedLines
      BY <1>1 DEF AckedLines
    <3>4. Cap(Len(pending.keep))
      <4>1. pending.size \in Nat
        BY <1>2 DEF JournalType
      <4> QED
        BY <2>2, <3>1, <4>1, SizesAre DEF Cap
    <3> QED
      BY <1>1, <1>4, <3>1, <3>2, <3>3, <3>4 DEF FileInv, Cap
  <2> QED
    BY <1>4, <2>3, <2>4 DEF JournalInv
<1> QED
  BY <1>1, <1>3, <1>4

LEMMA JournalWriteKeeps ==
    ASSUME JournalInv, write
    PROVE  JournalInv'
<1> DEFINE line == encoded(pending.event, pending.size)
<1>1. /\ sink = "write" /\ UNCHANGED <<measured, events, acked, dropped, opens>>
      /\ \/ /\ write_all(line) /\ current' = current + pending.size /\ sink' = "sync"
            /\ pending' = pending /\ torn' = torn
         \/ /\ write_some(line) /\ torn' = (torn \/ bytes' # bytes) /\ RecordReturns /\ current' = current
  BY DEF write
<1>2. /\ JournalType /\ bytes \in Seq(Nat) /\ pending.event \in Nat /\ pending.size \in Nat
      /\ current \in Nat /\ events \in Nat /\ torn \in BOOLEAN
  BY DEF JournalInv, JournalType
<1>3. /\ pending.event = events /\ events > 0 /\ pending.size \in EncodedSizes
      /\ Range(acked) \subseteq 1 .. events
  BY <1>1 DEF JournalInv, Numbered
<1>4. line \in Seq(Nat)
  BY <1>2, EncodedIs
<1>5. CASE write_some(line) /\ torn' = (torn \/ bytes' # bytes) /\ RecordReturns /\ current' = current
  <2> HIDE DEF line
  <2>1. bytes' \in Seq(Nat)
    BY <1>2, <1>4, <1>5, SomeWritten
  <2>2. torn' \in BOOLEAN /\ (~torn' => ~torn /\ bytes' = bytes)
    BY <1>5
  <2> QED
    BY <1>1, <1>5, <2>1, <2>2, ReturnKeeps DEF RecordReturns, Begun
<1>6. CASE /\ write_all(line) /\ current' = current + pending.size /\ sink' = "sync"
           /\ pending' = pending /\ torn' = torn
  <2> DEFINE n == pending.size
             g == WithLine(bytes, events, n)
  <2>1. bytes' = g
    BY <1>3, <1>6 DEF write_all, WithLine
  <2> HIDE DEF line
  <2>2. events \in Nat \ {0} /\ n \in Nat \ {0, 1}
    BY <1>2, <1>3, SizesAre
  <2>3. g \in Seq(Nat) /\ Len(g) = Len(bytes) + n /\ EndsWith(g, events)
    <3>1. bytes \in Seq(Nat)
      BY <1>2
    <3> HIDE DEF n
    <3> QED
      BY <2>2, <3>1, LineAdds
  <2> HIDE DEF g
  <2>4. JournalType' /\ Numbered' /\ LastInv'
    <3>1. JournalType'
      BY <1>1, <1>2, <1>6, <2>1, <2>3 DEF JournalType
    <3>2. Numbered'
      BY <1>1, <1>6 DEF JournalInv, Numbered
    <3>3. LastInv'
      BY <1>1, <1>6, <2>1, <2>3 DEF LastInv
    <3> QED
      BY <3>1, <3>2, <3>3
  <2>5. ASSUME ~torn PROVE FileInv'
    <3>1. /\ Complete(bytes) /\ Newest(bytes, events, AckedLines) /\ current = Len(bytes)
          /\ Cap(Len(bytes) + pending.size)
      BY <1>1, <2>5 DEF JournalInv, FileInv
    <3>2. /\ Complete(g) /\ Range(g) \subseteq Range(bytes) \cup {Newline, events}
          /\ Range(bytes) \cup {events} \subseteq Range(g)
      BY <1>2, <2>2, <3>1, LineCompletes DEF Newest, g
    <3>3. AckedLines' = AckedLines /\ AckedLines \subseteq 1 .. events
      BY <1>1, <1>3 DEF AckedLines
    <3>4. Newest(g, events, AckedLines)
      <4>1. Range(g) \subseteq 0 .. events
        BY <1>2, <3>1, <3>2 DEF Newest, Newline
      <4>2. ASSUME NEW e \in Range(g) \ {Newline}, NEW a \in AckedLines, a > e PROVE a \in Range(g)
        <5>1. e # events
          BY <1>2, <3>3, <4>2
        <5>2. e \in Range(bytes) \ {Newline}
          BY <3>2, <5>1
        <5> QED
          BY <3>1, <3>2, <4>2, <5>2 DEF Newest
      <4> QED
        BY <4>1, <4>2 DEF Newest
    <3> QED
      BY <1>1, <1>6, <2>1, <2>3, <3>1, <3>2, <3>3, <3>4 DEF FileInv, Cap
  <2> QED
    BY <1>6, <2>4, <2>5 DEF JournalInv
<1> QED
  BY <1>1, <1>5, <1>6

LEMMA SyncKeeps ==
    ASSUME JournalInv, sync
    PROVE  JournalInv'
<1>1. /\ sink = "sync" /\ RecordReturns
      /\ UNCHANGED <<bytes, current, measured, events, dropped, torn, opens>>
      /\ (acked' = Append(acked, pending.event) \/ acked' = acked)
  BY DEF sync
<1>2. /\ JournalType /\ bytes \in Seq(Nat) /\ events \in Nat /\ torn \in BOOLEAN /\ acked \in Seq(Nat)
  BY DEF JournalInv, JournalType
<1>3. CASE acked' = acked
  BY <1>1, <1>2, <1>3, ReturnKeeps DEF RecordReturns, Begun
<1>4. CASE acked' = Append(acked, pending.event)
  <2>1. /\ pending.event = events /\ events > 0 /\ Range(acked) \subseteq 1 .. events /\ opens # 0
        /\ EndsWith(bytes, events)
    BY <1>1 DEF JournalInv, Numbered, LastInv
  <2>2. acked' \in Seq(Nat) /\ Range(acked') = Range(acked) \cup {events}
    BY <1>2, <1>4, <2>1, AppendRange
  <2>3. sink' = "idle" /\ pending' = NoEvent
    BY <1>1 DEF RecordReturns
  <2>4. JournalType'
    BY <1>1, <1>2, <2>2, <2>3, NoEventIs DEF JournalType
  <2>5. Numbered'
    <3>1. Range(acked') \subseteq 1 .. events
      BY <1>2, <2>1, <2>2
    <3> QED
      BY <1>1, <2>1, <2>3, <3>1 DEF Numbered
  <2>6. LastInv'
    BY <1>1, <2>1, <2>3 DEF LastInv
  <2>7. ASSUME ~torn PROVE FileInv'
    <3>1. /\ Complete(bytes) /\ Newest(bytes, events, AckedLines) /\ current = Len(bytes)
          /\ Cap(Len(bytes))
      BY <1>1, <2>7 DEF JournalInv, FileInv
    <3>2. events \in Range(bytes)
      <4>1. Len(bytes) - 1 \in DOMAIN bytes /\ bytes[Len(bytes) - 1] = events
        BY <1>2, <2>1 DEF EndsWith
      <4> QED
        BY <4>1 DEF Range
    <3>3. AckedLines' \subseteq AckedLines \cup {events}
      BY <1>1, <2>2 DEF AckedLines
    <3>4. Newest(bytes, events, AckedLines')
      BY <3>1, <3>2, <3>3 DEF Newest
    <3> QED
      BY <1>1, <2>3, <3>1, <3>4 DEF FileInv, Cap
  <2> QED
    BY <1>1, <2>4, <2>5, <2>6, <2>7 DEF JournalInv
<1> QED
  BY <1>1, <1>3, <1>4

\* A process that is about to open the journal reads its size.
LEMMA MeasureKeeps ==
    ASSUME JournalInv, measure
    PROVE  JournalInv'
<1>1. /\ UNCHANGED <<bytes, sink, current, pending, events, acked, dropped, torn, opens>>
      /\ measured' = {Len(bytes)} /\ Len(bytes) \in Nat
  BY DEF measure, JournalInv, JournalType
<1> QED
  BY <1>1 DEF JournalInv, JournalType, Numbered, FileInv, LastInv, AckedLines, Cap

\* It holds the lock.  Where the size it read is stale, torn says so; where it
\* is not, the file it opens is the one FileInv is about.
LEMMA OpenedKeeps ==
    ASSUME JournalInv, NEW physical \in measured, opened(physical), measured' = {},
           UNCHANGED <<pending, events, acked, dropped>>
    PROVE  JournalInv'
<1> DEFINE keep == retained(bytes, physical, 0)
<1>1. /\ sink = "closed" /\ opens' = opens + 1 /\ UNCHANGED <<pending, events, acked, dropped>>
      /\ \/ /\ Cap(physical) /\ sink' = "idle" /\ current' = physical /\ bytes' = bytes
            /\ torn' = (torn \/ physical # Len(bytes))
         \/ /\ Bounded /\ physical > MaxFileBytes /\ torn' = (torn \/ physical # Len(bytes))
            /\ bytes' = keep /\ current' = Len(keep) /\ sink' = "idle" /\ physical <= Len(bytes)
         \/ /\ torn' = TRUE /\ sink' = sink /\ current' = current /\ physical <= Len(bytes)
            /\ \E k \in 0..(Len(keep) - 1) : bytes' = SubSeq(keep, 1, k)
         \/ bytes' = bytes /\ sink' = sink /\ current' = current /\ torn' = torn
  <2>1. readable(bytes, physical) => physical <= Len(bytes)
    BY DEF readable, JournalInv, JournalType
  <2> QED
    BY <2>1 DEF opened, Cap
<1>2. /\ JournalType /\ bytes \in Seq(Nat) /\ events \in Nat /\ torn \in BOOLEAN /\ acked \in Seq(Nat)
      /\ opens \in Nat /\ current \in Nat /\ Len(bytes) \in Nat /\ physical \in Nat
  <2> HIDE DEF keep
  <2>1. JournalType
    BY DEF JournalInv
  <2>2. /\ bytes \in Seq(Nat) /\ events \in Nat /\ torn \in BOOLEAN /\ acked \in Seq(Nat)
        /\ opens \in Nat /\ current \in Nat
    BY <2>1 DEF JournalType
  <2>3. measured \in SUBSET Nat
    BY <2>1 DEF JournalType
  <2>4. physical \in Nat
    BY <2>3
  <2>5. Len(bytes) \in Nat
    BY <2>2
  <2> QED
    BY <2>1, <2>2, <2>4, <2>5
<1>3. physical <= Len(bytes) => keep \in Seq(Nat) /\ Len(keep) \in Nat
  <2>1. 0 \in Nat
    OBVIOUS
  <2>2. physical <= Len(bytes) => keep \in Seq(Nat)
    BY <1>2, <2>1, RetainedIs
  <2> HIDE DEF keep
  <2> QED
    BY <2>2
<1>4. Numbered /\ (opens = 0 => acked = <<>>)
  BY DEF JournalInv, Numbered
<1>5. AckedLines' = AckedLines /\ (acked = <<>> => AckedLines = {})
  BY <1>1, EmptySequence DEF AckedLines
<1>6. JournalType' /\ Numbered'
  <2> HIDE DEF keep
  <2>1. bytes' \in Seq(Nat) /\ current' \in Nat /\ torn' \in BOOLEAN
    <3>1. physical <= Len(bytes) => \A k \in 0..(Len(keep) - 1) : SubSeq(keep, 1, k) \in Seq(Nat)
      BY <1>3, PrefixNat
    <3> QED
      BY <1>1, <1>2, <1>3, <3>1
  <2>2. JournalType'
    BY <1>1, <1>2, <2>1 DEF JournalType
  <2>3. Numbered'
    BY <1>1, <1>2, <1>4 DEF Numbered
  <2> QED
    BY <2>2, <2>3
<1>7. ~torn => /\ Lined(bytes) /\ Newest(bytes, events, AckedLines)
               /\ \/ Complete(bytes) /\ Cap(Len(bytes))
                  \/ Bounded /\ acked = <<>> /\ Len(bytes) > MaxFileBytes
  BY <1>1 DEF JournalInv, FileInv
<1>8. ASSUME ~torn'
      PROVE  FileInv' /\ (events \in AckedLines => bytes' = bytes)
  <2>1. ~torn
    BY <1>1, <1>8
  <2>2. CASE /\ Cap(Len(bytes)) /\ sink' = "idle" /\ current' = Len(bytes) /\ bytes' = bytes
             /\ physical = Len(bytes)
    <3>1. Complete(bytes)
      BY <1>2, <1>7, <2>1, <2>2, SizesAre DEF Cap
    <3> QED
      BY <1>1, <1>5, <1>7, <2>1, <2>2, <3>1 DEF FileInv, Cap
  <2>3. CASE /\ Bounded /\ Len(bytes) > MaxFileBytes /\ physical = Len(bytes)
             /\ bytes' = keep /\ current' = Len(keep) /\ sink' = "idle"
    <3>1. acked = <<>>
      BY <1>2, <1>7, <2>1, <2>3, SizesAre DEF Cap
    <3>2. Complete(keep) /\ Range(keep) \subseteq Range(bytes) /\ Len(keep) <= KeepBudget(0)
      BY <1>2, <1>7, <2>1, <2>3, RetainedKeeps
    <3> HIDE DEF keep
    <3>3. Newest(keep, events, AckedLines)
      BY <1>5, <1>7, <2>1, <3>1, <3>2 DEF Newest
    <3>4. Cap(Len(keep))
      BY <1>2, <1>3, <2>3, <3>2, SizesAre DEF KeepBudget, Cap
    <3> QED
      BY <1>1, <1>5, <2>3, <3>1, <3>2, <3>3, <3>4 DEF FileInv, Cap
  <2>4. CASE bytes' = bytes /\ sink' = sink /\ current' = current
    BY <1>1, <1>5, <1>7, <2>1, <2>4 DEF FileInv, Cap
  <2> HIDE DEF keep
  <2> QED
    BY <1>1, <1>8, <2>2, <2>3, <2>4
<1>9. LastInv'
  <2>1. sink' # "sync"
    BY <1>1
  <2>2. ASSUME events \in AckedLines, torn' => opens' = 1 PROVE EndsWith(bytes', events)
    <3>1. acked # <<>> /\ opens # 0
      BY <1>4, <1>5, <2>2
    <3>2. ~torn'
      BY <1>1, <1>2, <2>2, <3>1
    <3>3. bytes' = bytes
      BY <1>8, <2>2, <3>2
    <3>4. ~torn
      <4> HIDE DEF keep
      <4> QED
        BY <1>1, <3>2
    <3> QED
      BY <1>1, <2>2, <3>3, <3>4 DEF JournalInv, LastInv
  <2> QED
    BY <1>1, <1>5, <2>1, <2>2 DEF LastInv
<1> QED
  BY <1>6, <1>8, <1>9 DEF JournalInv

LEMMA JournalOpenKeeps ==
    ASSUME JournalInv, make_jsonl_sink
    PROVE  JournalInv'
<1>1. PICK physical \in measured : opened(physical) \/ refused(physical)
  BY DEF make_jsonl_sink
<1>2. measured' = {} /\ UNCHANGED <<pending, events, acked, dropped>>
  BY DEF make_jsonl_sink
<1>3. CASE opened(physical)
  BY <1>2, <1>3, OpenedKeeps
<1>4. CASE refused(physical)
  <2>1. UNCHANGED <<bytes, sink, current, torn, opens>>
    BY <1>4 DEF refused
  <2> QED
    BY <1>2, <2>1 DEF JournalInv, JournalType, Numbered, FileInv, LastInv, AckedLines, Cap
<1> QED
  BY <1>1, <1>3, <1>4

LEMMA JournalDiesKeeps ==
    ASSUME JournalInv, WriterDies
    PROVE  JournalInv'
<1>1. /\ sink # "closed" /\ sink' = "closed" /\ pending' = NoEvent
      /\ UNCHANGED <<current, measured, events, acked, dropped, opens>>
      /\ \/ bytes' = bytes /\ torn' = (torn \/ sink = "rewrite")
         \/ sink = "rewrite" /\ write_some(pending.keep) /\ torn' = TRUE
         \/ /\ sink = "write" /\ write_some(encoded(pending.event, pending.size))
            /\ torn' = (torn \/ bytes' # bytes)
  BY DEF WriterDies
<1>2. /\ JournalType /\ bytes \in Seq(Nat) /\ pending.keep \in Seq(Nat) /\ pending.event \in Nat
      /\ pending.size \in Nat /\ torn \in BOOLEAN
      /\ sink \in {"closed", "idle", "truncate", "rewrite", "write", "sync"}
  BY DEF JournalInv, JournalType
<1>3. bytes' \in Seq(Nat)
  <2>1. encoded(pending.event, pending.size) \in Seq(Nat)
    BY <1>2, EncodedIs
  <2>2. CASE bytes' = bytes
    BY <1>2, <2>2
  <2>3. CASE write_some(pending.keep)
    BY <1>2, <2>3, SomeWritten
  <2>4. CASE write_some(encoded(pending.event, pending.size))
    BY <1>2, <2>1, <2>4, SomeWritten
  <2> QED
    BY <1>1, <2>2, <2>3, <2>4
<1>4. torn' \in BOOLEAN /\ (~torn' => ~torn /\ bytes' = bytes /\ sink # "rewrite")
  BY <1>1, <1>2
<1>5. CASE sink \in Begun
  BY <1>1, <1>3, <1>4, <1>5, ReturnKeeps
<1>6. CASE sink = "idle"
  <2>1. bytes' = bytes /\ torn' = torn
    BY <1>1, <1>2, <1>6
  <2>2. JournalType' /\ Numbered'
    BY <1>1, <1>2, <2>1, NoEventIs DEF JournalInv, JournalType, Numbered
  <2>3. AckedLines' = AckedLines
    BY <1>1 DEF AckedLines
  <2>4. LastInv'
    BY <1>1, <1>6, <2>1, <2>3 DEF JournalInv, LastInv
  <2>5. ~torn' => FileInv'
    BY <1>1, <1>6, <2>1, <2>3 DEF JournalInv, FileInv, Complete, Cap
  <2> QED
    BY <2>2, <2>4, <2>5 DEF JournalInv
<1> QED
  BY <1>1, <1>2, <1>5, <1>6 DEF Begun

LEMMA JournalBegins ==
    ASSUME JournalInit
    PROVE  JournalInv
<1>1. /\ bytes \in Seq(0 .. MaxEvents) /\ Lined(bytes) /\ MaxEvents \in Nat
  BY JournalAssumption DEF JournalInit
<1>2. bytes \in Seq(Nat) /\ Range(bytes) \subseteq 0 .. MaxEvents /\ Len(bytes) \in Nat
  <2>1. \A i \in DOMAIN bytes : bytes[i] \in 0 .. MaxEvents
    BY <1>1
  <2>2. Range(bytes) \subseteq 0 .. MaxEvents
    BY <2>1 DEF Range
  <2> QED
    BY <1>1, <2>2
<1>3. events \in {0} \cup Range(bytes) /\ \A y \in {0} \cup Range(bytes) : y <= events
  <2>1. {0} \cup Range(bytes) \subseteq 0 .. MaxEvents /\ {0} \cup Range(bytes) # {}
    BY <1>1, <1>2
  <2>2. events = Max({0} \cup Range(bytes))
    BY DEF JournalInit
  <2> QED
    BY <1>1, <2>1, <2>2, MaxIs
<1>4. events \in Nat /\ Range(bytes) \subseteq 0 .. events
  BY <1>2, <1>3
<1>5. /\ sink = "closed" /\ current = 0 /\ pending = NoEvent /\ acked = <<>> /\ dropped = {} /\ opens = 0
      /\ measured = {} /\ torn = (bytes # <<>> /\ bytes[Len(bytes)] # Newline /\ Cap(Len(bytes)))
  BY DEF JournalInit, Last, Cap
<1>6. Range(acked) = {} /\ AckedLines = {}
  BY <1>5, EmptySequence DEF AckedLines
<1>7. JournalType /\ Numbered /\ LastInv
  <2>1. JournalType
    BY <1>2, <1>4, <1>5, NoEventIs, EmptySequence DEF JournalType
  <2> QED
    BY <1>5, <1>6, <2>1 DEF Numbered, LastInv
<1>8. ASSUME ~torn PROVE FileInv
  <2>1. Newest(bytes, events, AckedLines)
    BY <1>4, <1>6 DEF Newest
  <2>2. Cap(Len(bytes)) => Complete(bytes)
    BY <1>1, <1>5, <1>8 DEF Complete
  <2>3. ~Cap(Len(bytes)) => Bounded /\ Len(bytes) > MaxFileBytes
    BY <1>2, SizesAre DEF Cap
  <2> QED
    BY <1>1, <1>5, <2>1, <2>2, <2>3 DEF FileInv
<1> QED
  BY <1>7, <1>8 DEF JournalInv

LEMMA JournalStepKeeps ==
    ASSUME JournalInv, [JournalNext]_journalVars
    PROVE  JournalInv'
<1>1. CASE UNCHANGED journalVars
  <2>1. UNCHANGED <<bytes, sink, current, pending, measured, events, acked, dropped, torn, opens>>
    BY <1>1 DEF journalVars
  <2> QED
    BY <2>1 DEF JournalInv, JournalType, Numbered, FileInv, LastInv, AckedLines, Cap
<1>2. CASE JournalNext
  BY <1>2, MeasureKeeps, JournalOpenKeeps, RecordKeeps, TruncateKeeps, RewriteKeeps, JournalWriteKeeps, SyncKeeps, JournalDiesKeeps
     DEF JournalNext, Call
<1> QED
  BY <1>1, <1>2

LEMMA JournalInvIsEnough ==
    ASSUME JournalInv
    PROVE  TrailIsKept
<1> DEFINE Lines == {e \in Range(bytes) \ {Newline} : OnLine(e)}
<1>1. bytes \in Seq(Nat) /\ Len(bytes) \in Nat /\ DOMAIN bytes = 1 .. Len(bytes)
  BY DEF JournalInv, JournalType
<1>2. ASSUME sink = "idle", ~torn
      PROVE  /\ Bounded => Len(bytes) <= MaxFileBytes
             /\ bytes # <<>> => Last(bytes) = Newline /\ ~HasBlank(bytes, 1, Len(bytes))
             /\ Range(bytes) \ {Newline} = Lines
             /\ \A e \in Lines, a \in Range(acked) \ dropped : a > e => a \in Lines
  <2>1. Complete(bytes) /\ Newest(bytes, events, AckedLines) /\ Cap(Len(bytes))
    BY <1>2 DEF JournalInv, FileInv
  <2>2. ~HasBlank(bytes, 1, Len(bytes))
    <3>1. \A p \in 1 .. Len(bytes) : bytes[p] = Newline => p > 1 /\ bytes[p - 1] # Newline
      BY <1>1, <2>1 DEF Complete, Lined
    <3> QED
      BY <1>1, <3>1 DEF HasBlank
  <2>3. ASSUME NEW e \in Range(bytes) \ {Newline} PROVE OnLine(e)
    <3>1. PICK p \in 1 .. Len(bytes) : bytes[p] = e /\ bytes[p] # Newline
      BY <1>1 DEF Range
    <3>2. PICK i \in 1 .. p : (i = 1 \/ bytes[i - 1] = Newline) /\ \A k \in i .. p : bytes[k] = bytes[p]
      BY <1>1, <2>1, <3>1 DEF Complete, Lined
    <3>3. PICK j \in (p + 1) .. (Len(bytes) + 1) :
               (j = Len(bytes) + 1 \/ bytes[j] = Newline) /\ \A k \in p .. (j - 1) : bytes[k] = bytes[p]
      BY <1>1, <2>1, <3>1 DEF Complete, Lined
    <3>4. j # Len(bytes) + 1
      <4>1. ASSUME j = Len(bytes) + 1 PROVE FALSE
        <5>1. Len(bytes) \in p .. (j - 1) /\ Len(bytes) # 0
          BY <1>1, <4>1
        <5>2. bytes[Len(bytes)] = Newline
          BY <1>1, <2>1, <5>1, NoElements DEF Complete
        <5> QED
          BY <3>1, <3>3, <5>1, <5>2
      <4> QED
        BY <4>1
    <3>5. i \in DOMAIN bytes /\ j \in (i + 1) .. Len(bytes) /\ i \in i .. p
      BY <1>1, <3>4
    <3>6. bytes[i] = e /\ bytes[j] = Newline
      BY <3>1, <3>2, <3>3, <3>4, <3>5
    <3>7. ASSUME NEW k \in i .. (j - 1) PROVE bytes[k] = e
      <4>1. k \in i .. p \/ k \in p .. (j - 1)
        BY <1>1
      <4> QED
        BY <3>1, <3>2, <3>3, <4>1
    <3> QED
      BY <3>2, <3>5, <3>6, <3>7 DEF OnLine
  <2>4. Range(bytes) \ {Newline} = Lines
    BY <2>3
  <2>5. \A e \in Lines, a \in AckedLines : a > e => a \in Range(bytes) /\ a # Newline
    <3>1. AckedLines \subseteq 1 .. events /\ Newline = 0
      BY DEF JournalInv, Numbered, AckedLines, Newline
    <3>2. \A e \in Lines, a \in AckedLines : a > e => a \in Range(bytes)
      BY <2>1 DEF Newest
    <3>3. \A a \in AckedLines : a # Newline
      BY <3>1
    <3> QED
      BY <3>2, <3>3
  <2>6. bytes # <<>> => Last(bytes) = Newline
    BY <2>1 DEF Complete, Last
  <2> QED
    BY <2>1, <2>2, <2>4, <2>5, <2>6 DEF Cap, AckedLines
<1>3. ASSUME sink = "idle", events \in Range(acked) \ dropped, torn => opens = 1
      PROVE  bytes # <<>> /\ Last(bytes) = Newline /\ bytes[Len(bytes) - 1] = events
  <2>1. EndsWith(bytes, events)
    BY <1>3 DEF JournalInv, LastInv, AckedLines
  <2>2. bytes # <<>>
    BY <1>1, <2>1, NoElements DEF EndsWith
  <2> QED
    BY <2>1, <2>2 DEF EndsWith, Last
<1> HIDE DEF Lines
<1> QED
  BY <1>2, <1>3 DEF TrailIsKept, Lines

JournalSpec == JournalInit /\ [][JournalNext]_journalVars

\* Whatever calls fail and writers die, a journal in which no write stopped half
\* way and whose sinks all counted from the size it had is whole lines within its
\* cap and never keeps an event while a newer one that was acknowledged is gone;
\* and the first sink's last acknowledged event ends its file.
THEOREM JournalInvariant == JournalSpec => [](JournalInv /\ TrailIsKept)
<1>1. JournalSpec => []JournalInv
  BY JournalBegins, JournalStepKeeps, PTL DEF JournalSpec
<1> QED
  BY <1>1, JournalInvIsEnough, PTL

-----------------------------------------------------------------------------
(* The commands together.  A part that is not active stutters.             *)

AllVars == <<active, vars, setupVars, kernelVars, journalVars>>
CommandsInv == PolicyInv /\ SetupInv /\ KernelInv /\ JournalInv

LEMMA CommandsBegin == MCInit => CommandsInv
BY PolicyStart, SetupBegins, KernelBegins, JournalBegins DEF MCInit, CommandsInv

LEMMA PartsStep ==
    ASSUME [MCNext]_AllVars
    PROVE  [Next]_vars /\ [SetupNext]_setupVars /\ [KernelNext]_kernelVars /\ [JournalNext]_journalVars
<1>1. CASE MCNext
  BY <1>1 DEF MCNext
<1>2. CASE UNCHANGED AllVars
  BY <1>2 DEF AllVars
<1> QED
  BY <1>1, <1>2

LEMMA CommandsStep ==
    ASSUME CommandsInv, [MCNext]_AllVars
    PROVE  CommandsInv' /\ Advances /\ OwnStep /\ CleanStep
<1>1. [Next]_vars /\ [SetupNext]_setupVars /\ [KernelNext]_kernelVars /\ [JournalNext]_journalVars
  BY PartsStep
<1>2. PolicyInv' /\ Advances
  BY <1>1, PolicyKeeps DEF CommandsInv
<1>3. SetupInv' /\ OwnStep /\ CleanStep
  BY <1>1, SetupStepKeeps DEF CommandsInv, SetupGoal
<1>4. KernelInv'
  BY <1>1, KernelStepKeeps DEF CommandsInv
<1>5. JournalInv'
  BY <1>1, JournalStepKeeps DEF CommandsInv
<1> QED
  BY <1>2, <1>3, <1>4, <1>5 DEF CommandsInv

LEMMA CommandsInvIsEnough ==
    ASSUME CommandsInv
    PROVE  HostIsSound
<1>1. SnapshotIsWhole /\ LaunchIsAuthorized
  BY DEF CommandsInv, PolicyInv, SnapshotInv, LaunchInv
<1>2. SuccessIsUsable
  BY DEF CommandsInv, SetupInv, HostInv
<1>3. ToolCallsAreMediated
  BY KernelInvIsEnough DEF CommandsInv
<1>4. TrailIsKept
  BY JournalInvIsEnough DEF CommandsInv
<1> QED
  BY <1>1, <1>2, <1>3, <1>4 DEF HostIsSound

LEMMA CommandsHold == MCSpec => []CommandsInv /\ [][MCNext]_AllVars
<1>1. MCSpec => MCInit /\ [][MCNext]_AllVars
  BY PTL DEF MCSpec, AllVars
<1>2. CommandsInv /\ [MCNext]_AllVars => CommandsInv'
  BY CommandsStep
<1> QED
  BY <1>1, <1>2, CommandsBegin, PTL

\* What the policy, setup, run and audit commands leave behind can be relied on:
\* snapshots are whole, a plan is launched only as it was authorized, a setup
\* that succeeded is usable, tool calls are mediated, and the journal, unless a
\* write stopped half way or a sink counted from a stale size, keeps the newest
\* of what it acknowledged.
THEOREM HostCommandsAreSound == MCSpec => []HostIsSound
BY CommandsHold, CommandsInvIsEnough, PTL

\* Setup that fails, rolls back or is cleaned up takes away only files it wrote,
\* and a failing setup every one of them.
THEOREM SetupUndoesExactly == MCSpec => UndoIsExact
<1>1. CommandsInv /\ [MCNext]_AllVars => [OwnStep]_setupVars /\ [CleanStep]_setupVars
  BY CommandsStep
<1>2. MCSpec => [][OwnStep]_setupVars /\ [][CleanStep]_setupVars
  BY <1>1, CommandsHold, PTL
<1> QED
  BY <1>2, PTL DEF UndoIsExact, OnlyOwnIsRemoved, FailureLeavesNothing, OwnStep, CleanStep

\* No two policies carry one revision and none is skipped: each change of the
\* policy file takes exactly the next one.
THEOREM PolicyFileAdvances == MCSpec => RevisionsAdvance
<1>1. CommandsInv /\ [MCNext]_AllVars => [Advances]_vars
  BY CommandsStep
<1> QED
  BY <1>1, CommandsHold, PTL DEF RevisionsAdvance, Advances
=============================================================================
