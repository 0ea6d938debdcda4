-------------------------- MODULE SessionFilesystem --------------------------
(***************************************************************************)
(* The quota-backed filesystem of a Linux session                          *)
(* (src/src/supervisor/linux/session_filesystem.cpp, ephemeral_copy.cpp,   *)
(* persistent_quota_image.cpp) and its recovery after the daemon or the    *)
(* host died (src/src/control/linux_session_recovery.cpp).                 *)
(*                                                                         *)
(* A session owns one scratch tmpfs and one materialization per writable   *)
(* grant.  An ephemeral copy is a tmpfs; a retained copy is an ext4 image   *)
(* with a recovery-metadata sidecar, whose content is published as a stage *)
(* before the image is removed.  All names live in one materialization     *)
(* root: `root' holds them as a running system sees them, `durable' as the *)
(* last fsync of the root left them.  The content of a tree is abstracted  *)
(* to a version number.  Every action is one system call or one run of     *)
(* calls that touches nothing a crash could leave half done; a failing     *)
(* call and its rollback are one action.                                   *)
(***************************************************************************)
EXTENDS Integers, Sequences, FiniteSets, SequencesExt, Selection

CONSTANTS
    Sessions,       \* session identifiers; an identifier is never used twice
    Aliases,        \* aliases of writable grants
    Scratch,        \* the alias of the scratch partition
    Plans,          \* the grant sequences a session may be started with
    DiskLimit,      \* disk_limit_bytes of a session
    PageBytes,      \* sysconf(_SC_PAGESIZE)
    MinPersistent,  \* minimum_persistent_quota_bytes
    MaxWrites,      \* bound: versions a guest may write into a tree
    MaxCallFaults,      \* bound: system calls that fail
    MaxCrashes      \* bound: deaths of the daemon or of the host

IsCopy(g) == g.kind \in {"ephemeral", "retained"}

ASSUME FilesystemAssumption ==
    /\ Scratch \notin Aliases
    /\ PageBytes \in Nat \ {0} /\ DiskLimit \in Nat /\ MinPersistent \in Nat
    /\ MaxWrites \in Nat /\ MaxCallFaults \in Nat /\ MaxCrashes \in Nat
    /\ \A grants \in Plans :
          /\ grants \in Seq(Range(grants))
          /\ \A g \in Range(grants) : IsCopy(g) => g.alias \in Aliases

VARIABLES
    root,      \* per part: the entries of the materialization root
    durable,   \* root as of its last fsync
    mnt,       \* per part: a filesystem is mounted on its directory
    data,      \* per part: the version of the tree in its filesystem
    obj,       \* per part: the ephemeral_copy_materialization in memory
    run,       \* per session: the operation in progress and its position
    plan,      \* per session: the grants it was created with
    recorded,  \* sessions the registry lists as recovery candidates
    guest,     \* sessions whose guest is alive
    receipt,   \* sessions with a durable terminal receipt
    told,      \* parts whose manifest was returned to a caller
    mode,      \* the daemon: "serving", "down", or a phase of its start
    swept,     \* identities the running sweep has processed
    callFaults, crashes

filesystemVars == <<root, durable, mnt, data, obj, run, plan, recorded, guest, receipt,
          told, mode, swept, callFaults, crashes>>

Parts == Sessions \X (Aliases \cup {Scratch})
NoData == -1
NoEntries == [dir |-> FALSE, image |-> "none", meta |-> "none",
              pending |-> FALSE, stage |-> NoData]
NoObject == [held |-> FALSE, meta |-> FALSE, manifest |-> FALSE]
Idle == [op |-> "idle", at |-> "none", todo |-> <<>>, failed |-> FALSE]

-----------------------------------------------------------------------------
(* The grant set: validate_grants and the split of the disk limit.         *)

CopyGrants(grants) == Those(grants, {g \in Range(grants) : IsCopy(g)})

Allocated(grants) ==
    FoldSeq(LAMBDA g, sum : sum + g.bytes, 0, CopyGrants(grants))

ValidGrant(g) ==
    \/ g.kind = "read" /\ g.bytes = 0
    \/ IsCopy(g) /\ g.bytes # 0 /\ g.bytes % PageBytes = 0

Overlap(a, b) == IsPrefix(a, b) \/ IsPrefix(b, a)

ValidGrants(grants) ==
    /\ \A i \in DOMAIN grants : ValidGrant(grants[i])
    /\ \A i, j \in DOMAIN grants :
          i # j => /\ grants[i].alias # grants[j].alias
                   /\ ~Overlap(grants[i].target, grants[j].target)

\* linux_session_filesystem::create refuses a plan before its first effect.
Admissible(grants) ==
    /\ DiskLimit >= PageBytes /\ DiskLimit % PageBytes = 0
    /\ ValidGrants(grants)
    /\ Allocated(grants) < DiskLimit
    /\ DiskLimit - Allocated(grants) >= PageBytes

Copies(grants) == [i \in DOMAIN CopyGrants(grants) |-> CopyGrants(grants)[i].alias]

GrantOf(p) ==
    LET gs == CopyGrants(plan[p[1]])
    IN  gs[CHOOSE i \in DOMAIN gs : gs[i].alias = p[2]]

IsRetained(p) ==
    /\ p[2] \in Range(Copies(plan[p[1]]))
    /\ GrantOf(p).kind = "retained"

Quota(p) ==
    IF p[2] = Scratch THEN DiskLimit - Allocated(plan[p[1]]) ELSE GrantOf(p).bytes

SessionParts(s) == {<<s, Scratch>>} \cup {<<s, a>> : a \in Range(Copies(plan[s]))}

-----------------------------------------------------------------------------
Current(s) == <<s, Head(run[s].todo)>>

InStep(s, ops, at) ==
    /\ mode # "down"
    /\ run[s].op \in ops /\ run[s].todo # <<>> /\ run[s].at = at

Goto(s, at) == run' = [run EXCEPT ![s].at = at]

\* The current part is finished; the next one starts at step `first'.
Advance(s, first, failed) ==
    run' = [run EXCEPT ![s] = [op |-> @.op, at |-> first, todo |-> Tail(@.todo),
                               failed |-> @.failed \/ failed]]

SetEntry(p, entries) == root' = [root EXCEPT ![p] = entries]
SyncRoot == durable' = root'
NoSync == durable' = durable

MayFail == callFaults < MaxCallFaults
Fault == MayFail /\ callFaults' = callFaults + 1
NoFault == callFaults' = callFaults

Rest == <<plan, recorded, guest, receipt, mode, swept, crashes>>

-----------------------------------------------------------------------------
(* create: scratch first, then every copy in the order of the grants.      *)

Create(s) ==
    /\ mode = "serving" /\ run[s].op = "idle"
    /\ \E grants \in Plans :
          /\ Admissible(grants)
          /\ plan' = [plan EXCEPT ![s] = grants]
          /\ run' = [run EXCEPT ![s] = [op |-> "create", at |-> "mkdir",
                          todo |-> <<Scratch>> \o Copies(grants), failed |-> FALSE]]
    /\ UNCHANGED <<root, durable, mnt, data, obj, recorded, guest, receipt, told, mode,
                   swept, callFaults, crashes>>

\* The parts of a session that have an object, in the order they are destroyed.
Held(s, objects) ==
    Those(Append(Copies(plan[s]), Scratch),
          {a \in Aliases \cup {Scratch} : objects[<<s, a>>].held})

\* An object constructed so far is destroyed: cleanup_noexcept of every part.
Unwind(s, objects) ==
    run' = [run EXCEPT ![s] = [op |-> "unwind", at |-> "final", failed |-> TRUE,
                todo |-> Held(s, objects)]]

\* create_mounted rolls the directory, the mount and the image back.
Rollback(s, p) ==
    /\ SetEntry(p, [root[p] EXCEPT !.dir = FALSE, !.image = "none",
                                   !.meta = IF @ = "pending" THEN "none" ELSE @])
    /\ mnt' = [mnt EXCEPT ![p] = FALSE]
    /\ NoSync /\ Fault
    /\ obj' = [obj EXCEPT ![p] = NoObject]
    /\ Unwind(s, [obj EXCEPT ![p] = NoObject])
    /\ UNCHANGED <<data, told, Rest>>

FirstAfterDir(p) == IF IsRetained(p) THEN "image" ELSE "mount"

MakeDirectory(s) ==
    /\ InStep(s, {"create"}, "mkdir")
    /\ LET p == Current(s)
       IN  IF IsRetained(p) /\ Quota(p) < MinPersistent
           THEN /\ Unwind(s, obj)
                /\ UNCHANGED <<root, durable, mnt, data, obj, told, callFaults, Rest>>
           ELSE \/ /\ SetEntry(p, [root[p] EXCEPT !.dir = TRUE])
                   /\ Goto(s, FirstAfterDir(p)) /\ NoSync /\ NoFault
                   /\ UNCHANGED <<mnt, data, obj, told, Rest>>
                \/ Rollback(s, p)

\* create_persistent_quota_image: create, size, then format, sync and mount.
MakeImage(s) ==
    /\ InStep(s, {"create"}, "image")
    /\ LET p == Current(s)
       IN  \/ /\ SetEntry(p, [root[p] EXCEPT !.image = "empty"])
              /\ Goto(s, "size") /\ NoSync /\ NoFault
              /\ UNCHANGED <<mnt, data, obj, told, Rest>>
           \/ Rollback(s, p)

SizeImage(s) ==
    /\ InStep(s, {"create"}, "size")
    /\ LET p == Current(s)
       IN  \/ /\ SetEntry(p, [root[p] EXCEPT !.image = "sized"])
              /\ Goto(s, "format") /\ NoSync /\ NoFault
              /\ UNCHANGED <<mnt, data, obj, told, Rest>>
           \/ Rollback(s, p)

FormatImage(s) ==
    /\ InStep(s, {"create"}, "format")
    /\ LET p == Current(s)
       IN  \/ /\ SetEntry(p, [root[p] EXCEPT !.image = "formatted"])
              /\ Goto(s, "mount") /\ SyncRoot /\ NoFault
              /\ UNCHANGED <<mnt, data, obj, told, Rest>>
           \/ Rollback(s, p)

\* The mount is opened and checked against the quota: the object exists.
Construct(s, p) ==
    /\ mnt' = [mnt EXCEPT ![p] = TRUE]
    /\ obj' = [obj EXCEPT ![p].held = TRUE]
    /\ Goto(s, "copy") /\ NoFault
    /\ UNCHANGED <<root, durable, data, told, Rest>>

\* attach_loop_and_mount
MountImage(s) ==
    /\ InStep(s, {"create"}, "mount") /\ IsRetained(Current(s))
    /\ Construct(s, Current(s)) \/ Rollback(s, Current(s))

\* mount_quota_tmpfs
MountTmpfs(s) ==
    /\ InStep(s, {"create"}, "mount") /\ ~IsRetained(Current(s))
    /\ Construct(s, Current(s)) \/ Rollback(s, Current(s))

\* copy_directory_contents: the tree of a source that stayed the same.
CopyTree(p) == data' = [data EXCEPT ![p] = 0]

\* The source is copied between two checks of its identity.
CopySource(s) ==
    /\ InStep(s, {"create"}, "copy")
    /\ LET p == Current(s)
       IN  \/ /\ CopyTree(p)
              /\ IF IsRetained(p) THEN Goto(s, "sidecar") ELSE Advance(s, "mkdir", FALSE)
              /\ NoFault /\ UNCHANGED <<root, durable, mnt, obj, told, Rest>>
           \/ Rollback(s, p)

\* The baseline of a retained copy is encoded and written under a pending name.
WriteMetadata(s) ==
    /\ InStep(s, {"create"}, "sidecar")
    /\ LET p == Current(s)
       IN  \/ /\ SetEntry(p, [root[p] EXCEPT !.meta = "pending"])
              /\ Goto(s, "publish") /\ NoSync /\ NoFault
              /\ UNCHANGED <<mnt, data, obj, told, Rest>>
           \/ Rollback(s, p)

\* persist_recovery_metadata renames the sidecar and syncs the root.  When the
\* sync fails the sidecar stays, and the object does not know of it.
PublishMetadata(s) ==
    /\ InStep(s, {"create"}, "publish")
    /\ LET p == Current(s)
       IN  \/ /\ SetEntry(p, [root[p] EXCEPT !.meta = "final"])
              /\ SyncRoot /\ obj' = [obj EXCEPT ![p].meta = TRUE]
              /\ NoFault /\ Advance(s, "mkdir", FALSE)
              /\ UNCHANGED <<mnt, data, told, Rest>>
           \/ Rollback(s, p)
           \/ /\ SetEntry(p, [root[p] EXCEPT !.dir = FALSE, !.image = "none",
                                             !.meta = "final"])
              /\ mnt' = [mnt EXCEPT ![p] = FALSE]
              /\ obj' = [obj EXCEPT ![p] = NoObject]
              /\ Unwind(s, [obj EXCEPT ![p] = NoObject])
              /\ NoSync /\ Fault /\ UNCHANGED <<data, told, Rest>>

\* The last check (observe) passes and the session can be launched, or every
\* part is destroyed, those with metadata after a finalization.
Created(s) ==
    /\ mode # "down" /\ run[s].op = "create" /\ run[s].todo = <<>>
    /\ \/ run' = [run EXCEPT ![s] = [Idle EXCEPT !.op = "live"]] /\ NoFault
       \/ Fault /\ Unwind(s, obj)
    /\ UNCHANGED <<root, durable, mnt, data, obj, told, Rest>>

\* commit_launch stores the partitions before the guest is spawned.
Record(s) ==
    /\ mode = "serving" /\ run[s].op = "live" /\ s \notin recorded
    /\ recorded' = recorded \cup {s} /\ guest' = guest \cup {s}
    /\ UNCHANGED <<root, durable, mnt, data, obj, run, plan, receipt, told, mode, swept,
                   callFaults, crashes>>

\* The guest writes its trees, also while the daemon is down.
GuestWrite(s) ==
    /\ s \in guest
    /\ \E p \in SessionParts(s) :
          /\ mnt[p] /\ data[p] < MaxWrites
          /\ data' = [data EXCEPT ![p] = @ + 1]
    /\ UNCHANGED <<root, durable, mnt, obj, run, plan, recorded, guest, receipt, told, mode,
                   swept, callFaults, crashes>>

-----------------------------------------------------------------------------
(* finalize_retained.  In the operations "close", "adopted" and "orphan" a *)
(* failure is the part's error; in "unwind" it leaves the part as it is.   *)

FinalOps == {"unwind", "close", "adopted", "orphan"}

\* finalize_retained_changes stops at the first failure and the objects are
\* destroyed; cleanup_recovered continues with the next part; a sweep ends.
FinalFailed(s) ==
    IF run[s].op = "close" THEN Unwind(s, obj) ELSE Advance(s, "final", TRUE)

FinalDone(s) ==
    IF run[s].op = "close" THEN Advance(s, "final", FALSE) ELSE Goto(s, "unmount")

\* published_stage_matches
StageMatches(p) == root[p].stage = data[p]

\* What cleanup_pending leaves of a directory it empties: no such version.
EmptiedStage == MaxWrites + 1

\* The cases that return without touching the root.
FinalBegin(s) ==
    /\ InStep(s, FinalOps, "final")
    /\ LET p == Current(s)
       IN  IF ~obj[p].meta \/ obj[p].manifest
           THEN FinalDone(s) /\ UNCHANGED <<root, durable, callFaults>>
           ELSE IF root[p].stage # NoData
           THEN /\ IF StageMatches(p) THEN Goto(s, "forget") ELSE FinalFailed(s)
                /\ UNCHANGED <<root, durable, callFaults>>
           ELSE IF root[p].pending
           THEN FinalFailed(s) /\ UNCHANGED <<root, durable, callFaults>>   \* EEXIST
           ELSE \/ SetEntry(p, [root[p] EXCEPT !.pending = TRUE])
                   /\ Goto(s, "stage") /\ NoSync /\ NoFault
                \/ Fault /\ FinalFailed(s) /\ UNCHANGED <<root, durable>>
    /\ UNCHANGED <<mnt, data, obj, told, Rest>>

\* Mutant: the metadata is removed although the stage is not published.
PublishStage_forgetsFirst(s) ==
    /\ InStep(s, FinalOps, "stage")
    /\ LET p == Current(s)
       IN  /\ SetEntry(p, [root[p] EXCEPT !.meta = "none"])
           /\ SyncRoot /\ Goto(s, "forget") /\ NoFault
    /\ UNCHANGED <<mnt, data, obj, told, Rest>>

\* The tree and manifest.json are written and synced, then renamed into
\* place.  When only the sync of the root fails, cleanup_pending empties the
\* directory through its descriptor, which by then is the published one.
PublishStage(s) ==
    /\ InStep(s, FinalOps, "stage")
    /\ LET p == Current(s)
       IN  \/ /\ SetEntry(p, [root[p] EXCEPT !.pending = FALSE, !.stage = data[p]])
              /\ SyncRoot /\ Goto(s, "forget") /\ NoFault
           \/ /\ SetEntry(p, [root[p] EXCEPT !.pending = FALSE])
              /\ NoSync /\ FinalFailed(s) /\ Fault
           \/ /\ SetEntry(p, [root[p] EXCEPT !.pending = FALSE, !.stage = EmptiedStage])
              /\ NoSync /\ FinalFailed(s) /\ Fault
    /\ UNCHANGED <<mnt, data, obj, told, Rest>>

\* The recovery metadata is removed and the manifest returned.
ForgetMetadata(s) ==
    /\ InStep(s, FinalOps, "forget")
    /\ LET p == Current(s)
       IN  \/ /\ SetEntry(p, [root[p] EXCEPT !.meta = "none"])
              /\ SyncRoot /\ NoFault
              /\ obj' = [obj EXCEPT ![p].meta = FALSE, ![p].manifest = TRUE]
              /\ told' = told \cup {p}
              /\ FinalDone(s)
           \/ /\ \/ UNCHANGED root
                 \/ SetEntry(p, [root[p] EXCEPT !.meta = "none"])
              /\ NoSync /\ Fault /\ FinalFailed(s)
              /\ UNCHANGED <<obj, told>>
    /\ UNCHANGED <<mnt, data, Rest>>

-----------------------------------------------------------------------------
(* cleanup and cleanup_noexcept: unmount, remove the directory, remove the *)
(* image.  cleanup_noexcept ignores what fails.                            *)

CleanOps == {"unwind", "clean", "adopted", "orphan"}
FirstOf(op) == IF op = "clean" THEN "unmount" ELSE "final"

\* A failing step ends the part with an error, or is ignored by a destructor.
CleanFailed(s, next) ==
    /\ Fault
    /\ IF run[s].op = "unwind" THEN Goto(s, next)
       ELSE Advance(s, FirstOf(run[s].op), TRUE)

Unmount(s) ==
    /\ InStep(s, CleanOps, "unmount")
    /\ LET p == Current(s)
       IN  \/ /\ mnt' = [mnt EXCEPT ![p] = FALSE]
              /\ Goto(s, "rmdir") /\ NoFault /\ UNCHANGED <<root, durable>>
           \/ mnt[p] /\ CleanFailed(s, "rmdir") /\ UNCHANGED <<root, durable, mnt>>
    /\ UNCHANGED <<data, obj, told, Rest>>

\* A mounted directory cannot be removed.
RemoveDirectory(s) ==
    /\ InStep(s, CleanOps, "rmdir")
    /\ LET p == Current(s)
       IN  \/ /\ ~mnt[p]
              /\ SetEntry(p, [root[p] EXCEPT !.dir = FALSE])
              /\ Goto(s, "rmimage") /\ NoFault
           \/ root[p].dir /\ CleanFailed(s, "rmimage") /\ UNCHANGED root
           \/ mnt[p] /\ run[s].op = "unwind" /\ Goto(s, "rmimage") /\ NoFault /\ UNCHANGED root
    /\ NoSync /\ UNCHANGED <<mnt, data, obj, told, Rest>>

\* remove_persistent_quota_image, and for an orphan without metadata
\* remove_incomplete_recovery_metadata.
RemoveImage(s) ==
    /\ InStep(s, CleanOps, "rmimage")
    /\ LET p == Current(s)
           Exists == root[p].image # "none" \/ (run[s].op = "orphan" /\ root[p].meta = "pending")
           Gone == [root[p] EXCEPT !.image = "none",
                       !.meta = IF run[s].op = "orphan" /\ @ = "pending" THEN "none" ELSE @]
       IN  \/ /\ SetEntry(p, Gone)
              /\ IF Exists THEN SyncRoot ELSE NoSync
              /\ obj' = [obj EXCEPT ![p] = NoObject] /\ NoFault
              /\ Advance(s, FirstOf(run[s].op), FALSE)
           \/ /\ Exists /\ Fault
              /\ obj' = [obj EXCEPT ![p] = IF run[s].op = "unwind" THEN NoObject ELSE @]
              /\ Advance(s, FirstOf(run[s].op), run[s].op # "unwind")
              /\ NoSync /\ UNCHANGED root
    /\ UNCHANGED <<mnt, data, told, Rest>>

\* linux_session_filesystem::cleanup once the guest has stopped: finalize
\* every retained copy, then clean every part.
Close(s) ==
    /\ mode = "serving" /\ run[s].op = "live"
    /\ guest' = guest \ {s}
    /\ run' = [run EXCEPT ![s] = [op |-> "close", at |-> "final",
                   todo |-> Copies(plan[s]), failed |-> FALSE]]
    /\ UNCHANGED <<root, durable, mnt, data, obj, plan, recorded, receipt, told, mode, swept,
                   callFaults, crashes>>

Finalized(s) ==
    /\ mode # "down" /\ run[s].op = "close" /\ run[s].todo = <<>>
    /\ run' = [run EXCEPT ![s] = [op |-> "clean", at |-> "unmount",
                   todo |-> Append(Copies(plan[s]), Scratch), failed |-> FALSE]]
    /\ UNCHANGED <<root, durable, mnt, data, obj, told, callFaults, Rest>>

\* The cleanup ends; after an error the objects are destroyed later.
Cleaned(s) ==
    /\ mode # "down" /\ run[s].op = "clean" /\ run[s].todo = <<>>
    /\ IF run[s].failed THEN Unwind(s, obj)
       ELSE run' = [run EXCEPT ![s] = [Idle EXCEPT !.op = "closed"]]
    /\ UNCHANGED <<root, durable, mnt, data, obj, told, callFaults, Rest>>

Unwound(s) ==
    /\ mode # "down" /\ run[s].op = "unwind" /\ run[s].todo = <<>>
    /\ run' = [run EXCEPT ![s] = [Idle EXCEPT !.op = "dropped"]]
    /\ UNCHANGED <<root, durable, mnt, data, obj, told, callFaults, Rest>>

\* The terminal receipt is appended after the cleanup, complete or not, and
\* then the registry records the end of the session.
AppendReceipt(s) ==
    /\ mode = "serving" /\ run[s].op \in {"closed", "dropped"}
    /\ s \in recorded \ receipt
    /\ receipt' = receipt \cup {s}
    /\ UNCHANGED <<root, durable, mnt, data, obj, run, plan, recorded, guest, told,
                   mode, swept, callFaults, crashes>>

Settle(s) ==
    /\ \/ mode = "serving" /\ run[s].op \in {"closed", "dropped"}
       \/ mode = "recover" /\ run[s].op = "dead"
    /\ s \in recorded \cap receipt
    /\ recorded' = recorded \ {s}
    /\ UNCHANGED <<root, durable, mnt, data, obj, run, plan, guest, receipt, told,
                   mode, swept, callFaults, crashes>>

-----------------------------------------------------------------------------
(* Death and recovery.                                                     *)

Forgotten ==
    /\ obj' = [p \in Parts |-> NoObject]
    /\ run' = [s \in Sessions |->
                  IF run[s].op = "idle" THEN Idle ELSE [Idle EXCEPT !.op = "dead"]]
    /\ mode' = "down" /\ swept' = {} /\ crashes' = crashes + 1

\* The daemon dies: names, mounts and the guest stay.
Crash ==
    /\ mode # "down" /\ crashes < MaxCrashes /\ Forgotten
    /\ UNCHANGED <<root, durable, mnt, data, plan, recorded, guest, receipt, told, callFaults>>

\* An image a recovery will mount, and its metadata.
Recoverable(entry) == entry.image = "formatted" /\ entry.meta = "final"

\* The host dies: mounts and guests are gone, names since the last sync of
\* the root may be, and so may what guests wrote into an image, which nothing
\* syncs: the copy they were given is there.
PowerLoss ==
    /\ crashes < MaxCrashes /\ Forgotten
    /\ root' \in {root, durable} /\ durable' = root'
    /\ data' \in {d \in [Parts -> NoData .. MaxWrites] :
                   \A p \in Parts : \/ d[p] = data[p]
                                    \/ Recoverable(root'[p]) /\ data[p] > 0 /\ d[p] \in 0 .. data[p]}
    /\ mnt' = [p \in Parts |-> FALSE] /\ guest' = {}
    /\ UNCHANGED <<plan, recorded, receipt, told, callFaults>>

Start ==
    /\ mode = "down" /\ mode' = "sweep"
    /\ UNCHANGED <<root, durable, mnt, data, obj, run, plan, recorded, guest, receipt, told,
                   swept, callFaults, crashes>>

\* Reconciliation failed: the daemon does not come up and is started again.
StartFailed ==
    /\ run' = [s \in Sessions |->
                  IF run[s].op = "idle" THEN Idle ELSE [Idle EXCEPT !.op = "dead"]]
    /\ obj' = [p \in Parts |-> NoObject]
    /\ mode' = "down" /\ swept' = {}

\* sweep_orphaned visits directories first, then images and sidecars.
Orphan(p, pass) ==
    /\ p[1] \notin recorded /\ p \notin swept /\ run[p[1]].op = "dead"
    /\ \/ pass = 1 /\ root[p].dir
       \/ pass = 2 /\ p[2] # Scratch /\ (root[p].image # "none" \/ root[p].meta # "none")

Orphans ==
    LET first == {p \in Parts : Orphan(p, 1)}
    IN  IF first # {} THEN first ELSE {p \in Parts : Orphan(p, 2)}

Sweeping == \A s \in Sessions : run[s].op # "orphan"

\* persistent_quota_image_size and open_valid_image
ImageValid(p) == root[p].image \in {"sized", "formatted"}

\* load_recovery_metadata finds a sidecar under its final name.
HasMetadata(p) == root[p].meta = "final"

\* adopt_recovered of retained content mounts the image when it must.
AdoptRetained(p) ==
    /\ mnt' = [mnt EXCEPT ![p] = TRUE]
    /\ obj' = [obj EXCEPT ![p] = [held |-> TRUE, meta |-> TRUE, manifest |-> FALSE]]

SweepStep(p, at) ==
    /\ run' = [run EXCEPT ![p[1]] = [op |-> "orphan", at |-> at, todo |-> <<p[2]>>,
                                     failed |-> FALSE]]
    /\ swept' = swept \cup {p}

\* recover_orphaned of content with metadata: its mountpoint is restored,
\* and it is adopted, finalized and cleaned.
SweepRetained(p) ==
    /\ mode = "sweep" /\ Sweeping /\ p \in Orphans
    /\ HasMetadata(p) /\ ImageValid(p)
    /\ SetEntry(p, [root[p] EXCEPT !.dir = TRUE])
    /\ IF root[p].dir THEN NoSync ELSE SyncRoot
    /\ \/ AdoptRetained(p) /\ SweepStep(p, "final") /\ NoFault /\ UNCHANGED mode
       \/ ~mnt[p] /\ Fault /\ StartFailed /\ UNCHANGED mnt
    /\ UNCHANGED <<data, plan, recorded, guest, receipt, told, crashes>>

\* Metadata without an image, or an image of no valid size, ends the start.
SweepRefused(p) ==
    /\ mode = "sweep" /\ Sweeping /\ p \in Orphans
    /\ \/ HasMetadata(p) /\ root[p].image = "none"
       \/ root[p].image = "empty"
    /\ StartFailed
    /\ UNCHANGED <<root, durable, mnt, data, plan, recorded, guest, receipt, told,
                   callFaults, crashes>>

\* Content without metadata is unmounted and removed with its sidecars.
SweepIncomplete(p) ==
    /\ mode = "sweep" /\ Sweeping /\ p \in Orphans
    /\ ~HasMetadata(p) /\ root[p].image # "empty"
    /\ SweepStep(p, "unmount")
    /\ UNCHANGED <<root, durable, mnt, data, obj, plan, recorded, guest, receipt, told,
                   mode, callFaults, crashes>>

\* One orphan is done: the first error ends the sweep and the start.
Swept(s) ==
    /\ mode = "sweep" /\ run[s].op = "orphan" /\ run[s].todo = <<>>
    /\ IF run[s].failed THEN StartFailed
       ELSE /\ run' = [run EXCEPT ![s] = [Idle EXCEPT !.op = "dead"]]
            /\ UNCHANGED <<obj, mode, swept>>
    /\ UNCHANGED <<root, durable, mnt, data, plan, recorded, guest, receipt, told,
                   callFaults, crashes>>

SweepDone ==
    /\ mode = "sweep" /\ Sweeping /\ Orphans = {} /\ mode' = "recover"
    /\ UNCHANGED <<root, durable, mnt, data, obj, run, plan, recorded, guest, receipt, told,
                   swept, callFaults, crashes>>

Recovering == \A s \in Sessions : run[s].op \notin {"adopt", "adopted"}

\* The process observer kills the guest and its cgroup, then
\* cleanup_recovered adopts the partitions the registry recorded.
CleanupRecovered(s) ==
    /\ mode = "recover" /\ Recovering /\ s \in recorded \ receipt /\ run[s].op = "dead"
    /\ guest' = guest \ {s}
    /\ run' = [run EXCEPT ![s] = [op |-> "adopt", at |-> "adopt", failed |-> FALSE,
                   todo |-> Append(Copies(plan[s]), Scratch)]]
    /\ UNCHANGED <<root, durable, mnt, data, obj, plan, recorded, receipt, told, mode, swept,
                   callFaults, crashes>>

\* Another process has the recorded identifier: nothing is signalled or
\* removed and the session stays a candidate.
Mismatch(s) ==
    /\ mode = "recover" /\ Recovering /\ s \in recorded \ (receipt \cup guest)
    /\ run[s].op = "dead"
    /\ run' = [run EXCEPT ![s].op = "mismatch"]
    /\ UNCHANGED <<root, durable, mnt, data, obj, told, callFaults, Rest>>

\* adopt_recovered of the next partition.  Without metadata a mounted ext4
\* filesystem is refused: the check expects a tmpfs.
Adopt(s) ==
    /\ mode = "recover" /\ InStep(s, {"adopt"}, "adopt")
    /\ LET p == Current(s)
           whole == root[p].dir /\ ImageValid(p)
       IN  \/ /\ HasMetadata(p) /\ whole
              /\ AdoptRetained(p) /\ Advance(s, "adopt", FALSE)
              /\ UNCHANGED <<root, mode, swept, callFaults>>
           \/ /\ HasMetadata(p) /\ whole /\ ~mnt[p]
              /\ Fault /\ StartFailed /\ UNCHANGED <<root, mnt>>
           \/ /\ \/ HasMetadata(p) /\ ~whole
                 \/ ~HasMetadata(p) /\ mnt[p] /\ IsRetained(p)
              /\ StartFailed /\ UNCHANGED <<root, mnt, callFaults>>
           \/ /\ ~HasMetadata(p) /\ ~mnt[p]
              /\ SetEntry(p, [root[p] EXCEPT !.dir = FALSE])
              /\ Advance(s, "adopt", FALSE) /\ UNCHANGED <<mnt, obj, mode, swept, callFaults>>
           \/ /\ ~HasMetadata(p) /\ mnt[p] /\ ~IsRetained(p)
              /\ obj' = [obj EXCEPT ![p].held = TRUE]
              /\ Advance(s, "adopt", FALSE) /\ UNCHANGED <<root, mnt, mode, swept, callFaults>>
    /\ NoSync /\ UNCHANGED <<data, plan, recorded, guest, receipt, told, crashes>>

\* Mutant: recovered partitions are cleaned without a finalization.
Adopted_unfinalized(s) ==
    /\ mode = "recover" /\ run[s].op = "adopt" /\ run[s].todo = <<>>
    /\ run' = [run EXCEPT ![s] = [op |-> "adopted", at |-> "unmount", failed |-> FALSE,
                   todo |-> Held(s, obj)]]
    /\ UNCHANGED <<root, durable, mnt, data, obj, told, callFaults, Rest>>

\* Every partition is adopted; each is finalized and cleaned in turn.
Adopted(s) ==
    /\ mode = "recover" /\ run[s].op = "adopt" /\ run[s].todo = <<>>
    /\ run' = [run EXCEPT ![s] = [op |-> "adopted", at |-> "final", failed |-> FALSE,
                   todo |-> Held(s, obj)]]
    /\ UNCHANGED <<root, durable, mnt, data, obj, told, callFaults, Rest>>

\* The session is reconciled, or the start fails.
Recovered(s) ==
    /\ mode = "recover" /\ run[s].op = "adopted" /\ run[s].todo = <<>>
    /\ IF run[s].failed THEN StartFailed /\ UNCHANGED recorded
       ELSE /\ run' = [run EXCEPT ![s] = [Idle EXCEPT !.op = "dropped"]]
            /\ recorded' = recorded \ {s}
            /\ UNCHANGED <<obj, mode, swept>>
    /\ UNCHANGED <<root, durable, mnt, data, plan, guest, receipt, told,
                   callFaults, crashes>>

Serve ==
    /\ mode = "recover" /\ Recovering
    /\ \A s \in recorded : run[s].op # "dead"
    /\ mode' = "serving" /\ swept' = {}
    /\ UNCHANGED <<root, durable, mnt, data, obj, run, plan, recorded, guest, receipt, told,
                   callFaults, crashes>>

-----------------------------------------------------------------------------
FilesystemInit ==
    /\ root = [p \in Parts |-> NoEntries] /\ durable = root
    /\ mnt = [p \in Parts |-> FALSE] /\ data = [p \in Parts |-> NoData]
    /\ obj = [p \in Parts |-> NoObject]
    /\ run = [s \in Sessions |-> Idle] /\ plan = [s \in Sessions |-> <<>>]
    /\ recorded = {} /\ guest = {} /\ receipt = {} /\ told = {}
    /\ mode = "serving" /\ swept = {} /\ callFaults = 0 /\ crashes = 0

\* One step of the operation in progress for session s.
Step(s) ==
    \/ MakeDirectory(s) \/ MakeImage(s) \/ SizeImage(s) \/ FormatImage(s)
    \/ MountImage(s) \/ MountTmpfs(s) \/ CopySource(s) \/ WriteMetadata(s)
    \/ PublishMetadata(s) \/ Created(s)
    \/ FinalBegin(s) \/ PublishStage(s) \/ ForgetMetadata(s)
    \/ Unmount(s) \/ RemoveDirectory(s) \/ RemoveImage(s)
    \/ Finalized(s) \/ Cleaned(s) \/ Unwound(s) \/ AppendReceipt(s) \/ Settle(s)
    \/ Mismatch(s) \/ Swept(s) \/ CleanupRecovered(s) \/ Adopt(s) \/ Adopted(s) \/ Recovered(s)

Boot ==
    \/ Start \/ SweepDone \/ Serve
    \/ \E p \in Parts : SweepRetained(p) \/ SweepRefused(p) \/ SweepIncomplete(p)

FilesystemNext ==
    \/ \E s \in Sessions : Create(s) \/ Record(s) \/ GuestWrite(s) \/ Close(s) \/ Step(s)
    \/ Boot \/ Crash \/ PowerLoss

FilesystemSpec == FilesystemInit /\ [][FilesystemNext]_filesystemVars

\* The supervisor restarts a daemon that is down, and every thread of a live
\* daemon runs on; guests, callers and failures owe nothing.
FilesystemFairSpec ==
    /\ FilesystemSpec
    /\ WF_filesystemVars(Boot)
    /\ \A s \in Sessions : WF_filesystemVars(Step(s))

-----------------------------------------------------------------------------
(* Properties.                                                             *)

\* A part whose tree a guest could change.
Shown(p) == IsRetained(p) /\ data[p] > 0

\* The tree of a retained copy a guest wrote to, short of writes a loss of
\* power took from its image, is there whatever died and whatever failed: in
\* an image whose metadata a recovery will find, or in a published stage.  The
\* image goes only after the stage is durable (finalize_retained, cleanup,
\* cleanup_noexcept, recover_orphaned).
RetainedSurvives ==
    \A p \in Parts : Shown(p) =>
       \A r \in {root, durable} :
          \/ r[p].stage = data[p]
          \/ Recoverable(r[p])

\* Once a manifest was returned to a caller, its stage is never removed or
\* replaced, by a later cleanup, a sweep or a power loss.
AcknowledgedStageStays ==
    \A p \in told : root[p].stage = data[p]

\* Both: no operation and no failure loses what guests left in a retained
\* copy; only a loss of power takes what was never synced.
RetainedContentSurvives == RetainedSurvives /\ AcknowledgedStageStays

\* A cleanup that reported success left no mount, directory, image or
\* metadata of the session, so that no later sweep has anything to find.
ClosedLeavesNothing ==
    \A s \in Sessions : run[s].op = "closed" =>
       \A a \in Aliases \cup {Scratch} :
          /\ ~mnt[<<s, a>>]
          /\ [root[<<s, a>>] EXCEPT !.stage = NoData] = NoEntries

\* The partitions of a session never add up to more than its disk limit,
\* also when mounts of a failed cleanup or of a dead daemon are still there.
MountedWithinLimit ==
    \A s \in Sessions :
       LET on == {p \in SessionParts(s) : mnt[p]}
       IN  FoldSet(LAMBDA p, sum : sum + Quota(p), 0, on) <= DiskLimit

\* When the daemon serves again, every session it was not told to keep has
\* no mount and no metadata left, and its retained content is a stage.
ServedIsRecovered ==
    mode = "serving" =>
       \A p \in Parts : run[p[1]].op \in {"dead", "dropped"} /\ crashes > 0 /\ callFaults = 0 =>
          /\ ~mnt[p] /\ root[p].meta # "final"
          /\ Shown(p) => root[p].stage = data[p]

\* All three: no session keeps what it was not given, or after its end.
NothingIsLeftOver ==
    ClosedLeavesNothing /\ MountedWithinLimit /\ ServedIsRecovered

\* What a death can leave that no later start gets past without a hand:
\* a half-written stage, an image that was not sized yet, a mounted image
\* whose metadata is gone, metadata without an image, a stage that is damaged
\* or newer than the image a loss of power left, or a mountpoint removed while
\* the metadata is still there.
Wedged(p) ==
    \/ root[p].pending
    \/ root[p].image = "empty"
    \/ root[p].meta # "final" /\ mnt[p] /\ IsRetained(p) /\ p[1] \in recorded
    \/ root[p].meta = "final" /\ (root[p].image = "none" \/ ~root[p].dir)
    \/ root[p].stage = EmptiedStage
    \/ root[p].meta = "final" /\ root[p].stage \notin {NoData, data[p]}

\* The daemon serves, or one of the listed remains blocks reconciliation.
Serving == mode = "serving" \/ \E p \in Parts : Wedged(p)

\* A daemon that starts comes to that, whatever died before.
StartReachesService == []<>Serving

=============================================================================
