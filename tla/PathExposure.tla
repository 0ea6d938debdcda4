--------------------------- MODULE PathExposure ---------------------------
(***************************************************************************)
(* Path exposures: path_exposure.cpp (the registry of exposed host paths   *)
(* and the grants resolved against it), path_exposure_journal.cpp (its     *)
(* file), path_exposure_policy.cpp (the protected roots) and the handlers  *)
(* of receipt_path_handlers.cpp.                                           *)
(*                                                                         *)
(* A path is the sequence of its components.  The file system gives each   *)
(* path the identity (device, inode, mode, owner) of what is there, or     *)
(* None: it is what the daemon sees through its descriptors of the roots.  *)
(* A digest is the tuple it is computed from.  Time is in units of which   *)
(* Second make a second; the clock does not go back.                       *)
(*                                                                         *)
(* Every call holds the registry's mutex except between the two halves of  *)
(* resolve_grant, so the step that writes the journal excludes the others. *)
(* A call that is refused changes nothing and is a stuttering step.        *)
(***************************************************************************)
EXTENDS Integers, Sequences, FiniteSets, SequencesExt

CONSTANTS
    Creations,       \* path_exposure_create_request: what owners ask for
    RevokeIds,       \* request identifiers used by revocations
    Asked,           \* path_exposure_grant without generation and scope
    Policies,        \* the root policies an administrator may install
    Tree,            \* the file system at first: path -> identity or None
    Identities,      \* what a path may name
    Second,          \* units of the clock in a second
    MaxExposures,    \* max_exposures
    MaxRecords,      \* max_records
    MaxBytes,        \* max_bytes of the journal
    Size,            \* bytes of a "create" and of a "revoke" record
    MinRetained,     \* minimum_retained_copy_bytes
    MaxTime, MaxAppendFaults, MaxDeaths, MaxChanges, \* bounds
    None

\* Paths are lists of names; the number of bytes of a mode is unsigned.
Unsigned(modes) == \A m \in modes : m.max_bytes \in Nat

ASSUME ExposureAssumption ==
    /\ \A n \in {Second, MaxExposures, MaxRecords, MaxBytes, MinRetained,
                 MaxTime, MaxAppendFaults, MaxDeaths, MaxChanges} : n \in Nat
    /\ Second > 0 /\ MinRetained > 0
    /\ Size \in [{"create", "revoke"} -> Nat \ {0}]
    /\ None \notin Identities
    /\ DOMAIN Tree \subseteq Seq(STRING)
    /\ Tree \in [DOMAIN Tree -> Identities \cup {None}]
    /\ \A c \in Creations :
          /\ c.host_path \in DOMAIN Tree /\ c.host_path # <<>>
          /\ Front(c.host_path) \in DOMAIN Tree
          /\ c.ttl_secs \in Nat /\ Unsigned(ToSet(c.modes))
    /\ \A a \in Asked : a.mode.max_bytes \in Nat
    /\ \A pol \in Policies : \A r \in pol :
          r.host_root \in DOMAIN Tree /\ Unsigned(r.modes)

KernelRoots == {<<"dev">>, <<"proc">>, <<"run">>, <<"sys">>}
Secrets == {".aws", ".azure", ".gnupg", ".kube", ".sage", ".ssh"}
path_within(candidate, root) == IsPrefix(root, candidate)
reserved_host_path(p) ==
    \/ \E root \in KernelRoots : path_within(p, root)
    \/ \E i \in DOMAIN p : p[i] \in Secrets

\* The modes an exposure may have: a read-only bind, or a bounded copy that is
\* removed or retained.
valid_mode(mode) ==
    \/ /\ mode.access = "read" /\ mode.materialization = "bind"
       /\ mode.max_bytes = 0 /\ mode.cleanup_policy = "retain"
    \/ /\ mode.access = "ephemeral_write" /\ mode.materialization = "copy"
       /\ mode.max_bytes # 0 /\ mode.cleanup_policy = "remove"
    \/ /\ mode.access = "retained_write" /\ mode.materialization = "copy"
       /\ mode.max_bytes >= MinRetained /\ mode.cleanup_policy = "retain"

\* What the text of a mode, on the wire or in a policy file, can say.
parsed_mode(mode) ==
    /\ mode.access \in {"read", "ephemeral_write", "retained_write"}
    /\ mode.materialization \in {"bind", "git_worktree", "copy"}
    /\ mode.cleanup_policy \in {"retain", "remove"}

\* A list is sorted and has no duplicate, so it is the set of its members.
Canonical(list) == list # <<>> /\ IsInjective(list)
canonical_modes(list) == Canonical(list) /\ \A m \in ToSet(list) : valid_mode(m)
canonical_runtimes(list) == Canonical(list)

mode_is_subset(mode, allowed) ==
    \E a \in allowed : /\ a.access = mode.access
                       /\ a.materialization = mode.materialization
                       /\ a.cleanup_policy = mode.cleanup_policy
                       /\ mode.max_bytes <= a.max_bytes

WithinPolicy(modes, runtimes, root) ==
    /\ \A m \in modes : mode_is_subset(m, root.modes)
    /\ runtimes \subseteq root.runtimes

\* The policy file is read whole or not at all; its modes must be known.
parse_policy(pol) == \A r \in pol : \A m \in r.modes : parsed_mode(m)

\* The roots a registry is built from: they do not overlap.
build(pol) ==
    /\ pol # {}
    /\ \A r \in pol : /\ r.max_ttl > 0 /\ r.modes # {} /\ r.runtimes # {}
                      /\ r.host_root # <<>> /\ ~ reserved_host_path(r.host_root)
                      /\ \A m \in r.modes : valid_mode(m)
    /\ \A r, s \in pol : r # s => /\ r.root_id # s.root_id
                                  /\ ~ path_within(r.host_root, s.host_root)

request_digest(c) ==
    <<"create", c.request_id, c.exposure_id, c.root_id, c.host_path,
      ToSet(c.modes), c.ttl_secs, ToSet(c.runtimes)>>
revoke_request_digest(rid, key) == <<"revoke", rid, key>>
scope_digest(d) ==
    <<d.key, d.root_id, d.source, d.modes, d.expires_at_ms, d.runtimes>>

VARIABLES
    policy,          \* the policy file: a set of roots
    fs,              \* identity of each path, or None
    header,          \* the journal file: "absent", "blank" or "valid"
    disk,            \* its records
    tail,            \* what follows them: None, or [bytes, record], where the
                     \* record is None unless all of it is there
    up,              \* is the registry open?
    roots,           \* the roots loaded, each with its identity
    exposures,       \* <<exposure_id, generation>> -> exposure_record
    request_records, \* request_id -> request_record
    writing,         \* the record being appended while the mutex is held
    resolving,       \* a grant between validate_grant and the second lock
    resolved,        \* a resolved_path_grant with its descriptor
    clock, appendFaults, deaths, changes,
    created, revoked \* history: what callers were told

file == <<header, disk, tail>>
memory == <<roots, exposures, request_records>>
calls == <<writing, resolving, resolved>>
answers == <<created, revoked>>
exposureVars == <<policy, fs, file, up, memory, calls, clock, appendFaults,
                  deaths, changes, answers>>

Empty == [x \in {} |-> None]
With(f, x, v) == [y \in DOMAIN f \cup {x} |-> IF y = x THEN v ELSE f[y]]

ExposureInit ==
    /\ policy \in Policies
    /\ fs = Tree
    /\ header = "absent" /\ disk = <<>> /\ tail = None
    /\ up = FALSE
    /\ roots = {} /\ exposures = Empty /\ request_records = Empty
    /\ writing = None /\ resolving = None /\ resolved = None
    /\ clock = 1 /\ appendFaults = 0 /\ deaths = 0 /\ changes = 0
    /\ created = {} /\ revoked = {}

----------------------------------------------------------------------------
(* The file system through the root's descriptor *)

open_absolute_no_follow(p) == fs[p]

open_beneath_root(root, p) ==
    IF /\ p # root.host_root /\ path_within(p, root.host_root)
       /\ fs[root.host_root] = root.identity
      THEN fs[p] ELSE None

\* The directory an exchange of the entry would be made in.
recovery_parent_identity_digest(root, p) ==
    IF Front(p) = root.host_root
      THEN IF fs[Front(p)] = root.identity THEN fs[Front(p)] ELSE None
      ELSE open_beneath_root(root, Front(p))

source_matches(root, e) == open_beneath_root(root, e.host_path) = e.d.source

(* Replaying the journal *)

last_generation(ex, id) ==
    LET gens == {key[2] : key \in {k \in DOMAIN ex : k[1] = id}}
    IN  IF gens = {} THEN 0 ELSE CHOOSE g \in gens : \A h \in gens : h <= g

CreateReplays(s, r, rs) ==
    LET d == r.d
    IN  /\ d.key[2] = last_generation(s.exposures, d.key[1]) + 1
        /\ Cardinality(DOMAIN s.exposures) < MaxExposures
        /\ r.request_id \notin DOMAIN s.requests
        /\ \A m \in d.modes : valid_mode(m)
        /\ ~ reserved_host_path(r.host_path)
        /\ \E root \in rs : /\ root.root_id = d.root_id
                            /\ r.host_path # root.host_root
                            /\ path_within(r.host_path, root.host_root)
                            /\ WithinPolicy(d.modes, d.runtimes, root)
        /\ d.scope = scope_digest(d)

RevokeReplays(s, r) ==
    /\ r.key \in DOMAIN s.exposures
    /\ s.exposures[r.key].d.state = "active"
    /\ r.state # "active"
    /\ r.request_id \notin DOMAIN s.requests
    /\ r.digest = revoke_request_digest(r.request_id, r.key)

\* What one record does to the maps, in memory or in a replay.
Recorded(s, r) ==
    [ok |-> s.ok,
     exposures |-> IF r.kind = "create" THEN With(s.exposures, r.d.key, r)
                   ELSE [s.exposures EXCEPT ![r.key].d.state = r.state],
     requests |-> With(s.requests, r.request_id,
                       [kind |-> r.kind, digest |-> r.digest,
                        key |-> IF r.kind = "create" THEN r.d.key ELSE r.key])]

Replays(s, r, rs) ==
    s.ok /\ IF r.kind = "create" THEN CreateReplays(s, r, rs) ELSE RevokeReplays(s, r)

\* One turn of the replay; the first record that is refused ends it.
Replayed(s, r, rs) ==
    IF Replays(s, r, rs) THEN Recorded(s, r)
    ELSE [ok |-> FALSE, exposures |-> Empty, requests |-> Empty]

Replay(log, rs) ==
    LET state[i \in 0 .. Len(log)] ==
          IF i = 0 THEN [ok |-> TRUE, exposures |-> Empty, requests |-> Empty]
          ELSE Replayed(state[i - 1], log[i], rs)
    IN  state[Len(log)]

\* What decode_record refuses although encode_record writes it.
decode_record(r) ==
    CASE r.kind = "create" -> /\ r.d.state = "active"
                              /\ \A m \in r.d.modes : parsed_mode(m)
      [] r.kind = "revoke" -> r.state \in {"revoked", "expired"}

\* The records a reader of the file finds; a torn record makes it unreadable.
Stored == IF tail = None THEN disk ELSE Append(disk, tail.record)
Bytes(log) == FoldLeft(LAMBDA n, r : n + Size[r.kind], 0, log)
Readable ==
    /\ header = "valid"
    /\ tail # None => tail.record # None
    /\ Len(Stored) <= MaxRecords /\ Bytes(Stored) <= MaxBytes
    /\ \A r \in ToSet(Stored) : decode_record(r)

\* The first open makes the file and its header, and may die in between.
open_journal ==
    /\ ~ up /\ header = "absent"
    /\ \/ header' = "valid" /\ UNCHANGED deaths
       \/ header' = "blank" /\ deaths < MaxDeaths /\ deaths' = deaths + 1
    /\ UNCHANGED <<policy, fs, disk, tail, up, memory, calls, clock, appendFaults,
                   changes, answers>>

\* path_exposure_registry::load: the policy, the roots, the journal.
load ==
    /\ ~ up /\ Readable /\ parse_policy(policy) /\ build(policy)
    /\ \A r \in policy : open_absolute_no_follow(r.host_root) # None
    /\ LET s == Replay(Stored, policy)
       IN  /\ s.ok
           /\ exposures' = s.exposures /\ request_records' = s.requests
    /\ roots' = {[root_id |-> r.root_id, host_root |-> r.host_root,
                  modes |-> r.modes, max_ttl |-> r.max_ttl,
                  runtimes |-> r.runtimes,
                  identity |-> open_absolute_no_follow(r.host_root)] : r \in policy}
    /\ disk' = Stored /\ tail' = None
    /\ up' = TRUE
    /\ UNCHANGED <<policy, fs, header, calls, clock, appendFaults, deaths, changes, answers>>

----------------------------------------------------------------------------
(* Appending to the journal, with the mutex held *)

AppendFits(r) ==
    /\ Len(disk) < MaxRecords /\ Bytes(disk) + Size[r.kind] <= MaxBytes
    /\ decode_record(r)

\* handle_create_path_exposure and handle_revoke_path_exposure answer.
Answer(r) ==
    IF r.kind = "create"
      THEN /\ created' = created \cup
                {[request_id |-> r.request_id, digest |-> r.digest,
                  key |-> r.d.key, scope |-> r.d.scope, parent |-> r.parent]}
           /\ UNCHANGED revoked
      ELSE revoked' = revoked \cup {r.key} /\ UNCHANGED created

\* The frame is written over whatever followed the last record.
append ==
    /\ writing # None
    /\ LET s == Recorded([ok |-> TRUE, exposures |-> exposures,
                          requests |-> request_records], writing)
       IN  exposures' = s.exposures /\ request_records' = s.requests
    /\ disk' = Append(disk, writing)
    /\ LET n == Size[writing.kind]
       IN  tail' = IF tail # None /\ tail.bytes > n
                     THEN [bytes |-> tail.bytes - n, record |-> None] ELSE None
    /\ writing' = None
    /\ Answer(writing)
    /\ UNCHANGED <<policy, fs, header, up, roots, resolving, resolved, clock,
                   appendFaults, deaths, changes>>

\* Where a write that does not finish may leave the end of the file.
Torn(kind) == [bytes |-> Size[kind], record |-> None]
Written(r) == {tail, Torn(r.kind), [bytes |-> Size[r.kind], record |-> r]}

\* Mutant: the maps are changed although the append failed.
append_fails_remembered ==
    /\ writing # None /\ appendFaults < MaxAppendFaults
    /\ LET s == Recorded([ok |-> TRUE, exposures |-> exposures,
                          requests |-> request_records], writing)
       IN  exposures' = s.exposures /\ request_records' = s.requests
    /\ tail' = None /\ appendFaults' = appendFaults + 1
    /\ writing' = None
    /\ UNCHANGED <<policy, fs, header, disk, up, roots, resolving, resolved,
                   clock, deaths, changes, answers>>

\* The write or the sync fails, and the file is cut back unless that fails too.
append_fails ==
    /\ writing # None /\ appendFaults < MaxAppendFaults
    /\ \/ tail' = None /\ appendFaults' = appendFaults + 1
       \/ /\ appendFaults + 1 < MaxAppendFaults /\ appendFaults' = appendFaults + 2
          /\ tail' \in Written(writing)
    /\ writing' = None
    /\ UNCHANGED <<policy, fs, header, disk, up, memory, resolving, resolved,
                   clock, deaths, changes, answers>>

----------------------------------------------------------------------------
(* The operations *)

RequestIsKnown(rid, kind, digest) ==
    /\ rid \in DOMAIN request_records
    /\ request_records[rid].kind = kind /\ request_records[rid].digest = digest

Live(e, now) == e.d.state = "active" /\ e.d.expires_at_ms > now

\* The latest generation of the identifier is no longer active.
Replaceable(id) ==
    LET g == last_generation(exposures, id)
    IN  g # 0 => ~ Live(exposures[<<id, g>>], clock)

AcceptableCreate(c, root) ==
    /\ root.root_id = c.root_id
    /\ canonical_modes(c.modes) /\ canonical_runtimes(c.runtimes)
    /\ \A m \in ToSet(c.modes) : parsed_mode(m)
    /\ 0 < c.ttl_secs /\ c.ttl_secs <= root.max_ttl
    /\ WithinPolicy(ToSet(c.modes), ToSet(c.runtimes), root)
    /\ ~ reserved_host_path(c.host_path)
    /\ open_beneath_root(root, c.host_path) # None
    /\ recovery_parent_identity_digest(root, c.host_path) # None

Descriptor(c, root) ==
    LET d == [key |-> <<c.exposure_id, last_generation(exposures, c.exposure_id) + 1>>,
              root_id |-> c.root_id,
              source |-> open_beneath_root(root, c.host_path),
              modes |-> ToSet(c.modes),
              expires_at_ms |-> clock + c.ttl_secs * Second,
              runtimes |-> ToSet(c.runtimes)]
    IN  [key |-> d.key, root_id |-> d.root_id, source |-> d.source,
         modes |-> d.modes, expires_at_ms |-> d.expires_at_ms,
         runtimes |-> d.runtimes, scope |-> scope_digest(d), state |-> "active"]

\* The records of the journal (encode_record).
CreateRecord(c, root) ==
    [kind |-> "create", d |-> Descriptor(c, root), request_id |-> c.request_id,
     digest |-> request_digest(c), host_path |-> c.host_path,
     parent |-> recovery_parent_identity_digest(root, c.host_path)]

create(c) ==
    /\ up /\ writing = None
    /\ c.request_id \notin DOMAIN request_records
    /\ \E root \in roots :
         /\ AcceptableCreate(c, root)
         /\ Cardinality(DOMAIN exposures) < MaxExposures
         /\ Replaceable(c.exposure_id)
         /\ AppendFits(CreateRecord(c, root))
         /\ writing' = CreateRecord(c, root)
    /\ UNCHANGED <<policy, fs, file, up, memory, resolving, resolved, clock,
                   appendFaults, deaths, changes, answers>>

\* A request that was carried out is answered with what it made.
create_again(c) ==
    /\ up /\ writing = None
    /\ RequestIsKnown(c.request_id, "create", request_digest(c))
    /\ Answer(exposures[request_records[c.request_id].key])
    /\ UNCHANGED <<policy, fs, file, up, memory, calls, clock, appendFaults, deaths,
                   changes>>

revoke(rid, key) ==
    /\ up /\ writing = None
    /\ rid \notin DOMAIN request_records
    /\ key \in DOMAIN exposures /\ exposures[key].d.state = "active"
    /\ LET r == [kind |-> "revoke", request_id |-> rid, key |-> key,
                 digest |-> revoke_request_digest(rid, key),
                 state |-> IF Live(exposures[key], clock) THEN "revoked" ELSE "expired"]
       IN  AppendFits(r) /\ writing' = r
    /\ UNCHANGED <<policy, fs, file, up, memory, resolving, resolved, clock,
                   appendFaults, deaths, changes, answers>>

revoke_again(rid, key) ==
    /\ up /\ writing = None
    /\ RequestIsKnown(rid, "revoke", revoke_request_digest(rid, key))
    /\ revoked' = revoked \cup {key}
    /\ UNCHANGED <<policy, fs, file, up, memory, calls, clock, appendFaults, deaths,
                   changes, created>>

projected(e) ==
    IF e.d.state = "active" /\ e.d.expires_at_ms <= clock THEN "expired" ELSE e.d.state

SourceIsExposed(e) ==
    \E root \in roots : root.root_id = e.d.root_id /\ source_matches(root, e)

\* What callers see; an exposure whose source has changed is shown as revoked.
list ==
    [k \in DOMAIN exposures |->
        IF projected(exposures[k]) = "active" /\ ~ SourceIsExposed(exposures[k])
          THEN "revoked" ELSE projected(exposures[k])]

ValidGrantAt(g, now) ==
    /\ valid_mode(g.mode) /\ g.ttl_secs > 0
    /\ g.key \in DOMAIN exposures
    /\ LET e == exposures[g.key]
       IN  /\ Live(e, now)
           /\ e.d.scope = g.scope
           /\ g.ttl_secs <= (e.d.expires_at_ms - now) \div Second
           /\ g.runtime \in e.d.runtimes
           /\ mode_is_subset(g.mode, e.d.modes)
           /\ SourceIsExposed(e)

\* A grant names an exposure its caller was told of.
Grant(a, c) == [key |-> c.key, scope |-> c.scope, mode |-> a.mode,
                ttl_secs |-> a.ttl_secs, runtime |-> a.runtime]

validate_grant(a, c) ==
    /\ up /\ writing = None /\ resolving = None /\ resolved = None
    /\ ValidGrantAt(Grant(a, c), clock)
    /\ resolving' = [grant |-> Grant(a, c), now |-> clock]
    /\ UNCHANGED <<policy, fs, file, up, memory, writing, resolved, clock,
                   appendFaults, deaths, changes, answers>>

\* Mutant: what validate_grant saw is taken for granted.
StillGranted_unchecked(g, now) == g.key \in DOMAIN exposures

StillGranted(g, now) ==
    /\ g.key \in DOMAIN exposures
    /\ Live(exposures[g.key], now) /\ exposures[g.key].d.scope = g.scope
    /\ SourceIsExposed(exposures[g.key])

\* resolve_grant after it took the mutex again.
resolve_grant ==
    /\ up /\ writing = None /\ resolving # None
    /\ LET g == resolving.grant
       IN  resolved' = IF StillGranted(g, resolving.now)
                         THEN [grant |-> g, host_path |-> exposures[g.key].host_path,
                               identity |-> fs[exposures[g.key].host_path],
                               launched |-> FALSE]
                         ELSE None
    /\ resolving' = None
    /\ UNCHANGED <<policy, fs, file, up, memory, writing, clock, appendFaults,
                   deaths, changes, answers>>

\* resolved_path_grant::verify_identity, just before the session is launched;
\* a grant that fails it is dropped, a launched one goes with its session.
verify_identity ==
    /\ resolved # None
    /\ resolved' = IF ~ resolved.launched /\ fs[resolved.host_path] = resolved.identity
                     THEN [resolved EXCEPT !.launched = TRUE] ELSE None
    /\ UNCHANGED <<policy, fs, file, up, memory, writing, resolving, clock,
                   appendFaults, deaths, changes, answers>>

\* An apply is recovered through the parent, whatever became of the exposure.
resolve_recovery_target(key) ==
    \E root \in roots :
        /\ root.root_id = exposures[key].d.root_id
        /\ recovery_parent_identity_digest(root, exposures[key].host_path)
             = exposures[key].parent

----------------------------------------------------------------------------
(* The rest of the world *)

DaemonDies ==
    /\ up /\ deaths < MaxDeaths
    /\ deaths' = deaths + 1
    /\ tail' \in IF writing = None THEN {tail} ELSE Written(writing)
    /\ up' = FALSE
    /\ roots' = {} /\ exposures' = Empty /\ request_records' = Empty
    /\ writing' = None /\ resolving' = None /\ resolved' = None
    /\ UNCHANGED <<policy, fs, header, disk, clock, appendFaults, changes, answers>>

SetPolicy ==
    /\ changes < MaxChanges /\ changes' = changes + 1
    /\ policy' \in Policies \ {policy}
    /\ UNCHANGED <<fs, file, up, memory, calls, clock, appendFaults, deaths, answers>>

Replace(p) ==
    /\ changes < MaxChanges /\ changes' = changes + 1
    /\ \E o \in (Identities \cup {None}) \ {fs[p]} : fs' = [fs EXCEPT ![p] = o]
    /\ UNCHANGED <<policy, file, up, memory, calls, clock, appendFaults, deaths, answers>>

Tick ==
    /\ clock < MaxTime /\ clock' = clock + 1
    /\ UNCHANGED <<policy, fs, file, up, memory, calls, appendFaults, deaths,
                   changes, answers>>

ExposureNext ==
    \/ open_journal \/ load \/ append \/ append_fails
    \/ \E c \in Creations : create(c) \/ create_again(c)
    \/ \E rid \in RevokeIds : \E key \in DOMAIN exposures :
         revoke(rid, key) \/ revoke_again(rid, key)
    \/ \E a \in Asked : \E c \in created : validate_grant(a, c)
    \/ resolve_grant \/ verify_identity
    \/ DaemonDies \/ SetPolicy \/ Tick
    \/ \E p \in DOMAIN fs : Replace(p)

ExposureSpec == ExposureInit /\ [][ExposureNext]_exposureVars

----------------------------------------------------------------------------
(* Properties *)

\* What the file holds, with a record that is wholly behind its end, can be
\* opened again under the widest policy (path_exposure_registry::open), and
\* while the registry is open its maps are what the file replays to: no
\* failed append, crash or revocation in between makes the two differ.
JournalReplays ==
    /\ Readable => \A p \in Policies :
         (\A q \in Policies : \A r \in q : \E w \in p : w.root_id = r.root_id
              /\ w.host_root = r.host_root /\ WithinPolicy(r.modes, r.runtimes, w))
           => Replay(Stored, p).ok
    /\ up => LET s == Replay(disk, roots)
             IN  s.ok /\ exposures = s.exposures /\ request_records = s.requests

\* A creation a caller was told of is still there after crashes, restarts and
\* revocations, with the same scope and one generation per request; as long as
\* its directory and root are the ones it was made in, an apply can be
\* recovered through it although it was revoked or has expired
\* (path_exposure_registry::create, open, resolve_recovery_target).
AcknowledgedSurvives ==
    /\ \A a, b \in created : a.request_id = b.request_id => a = b
    /\ up => \A a \in created :
         /\ RequestIsKnown(a.request_id, "create", a.digest)
         /\ a.key \in DOMAIN exposures /\ exposures[a.key].d.scope = a.scope
         /\ (\E root \in roots : /\ root.root_id = exposures[a.key].d.root_id
                                 /\ root.identity = fs[root.host_root]
                                 /\ fs[Front(exposures[a.key].host_path)] = a.parent)
              => resolve_recovery_target(a.key)

\* Once a caller was told that a generation is revoked no daemon, this one or
\* one started later, takes it for active (path_exposure_registry::revoke).
RevokedStaysRevoked ==
    up => \A key \in revoked : /\ key \in DOMAIN exposures
                               /\ exposures[key].d.state # "active"

\* At most one generation of an exposure is listed as active: a new one is
\* made only when the one before it was revoked or has expired
\* (path_exposure_registry::create, list).
OneActiveGeneration ==
    up => \A k, l \in DOMAIN exposures :
        (k[1] = l[1] /\ list[k] = "active" /\ list[l] = "active") => k = l

\* All of it: the registry keeps its word over crashes and restarts.
ExposuresAreKept ==
    /\ JournalReplays /\ AcknowledgedSurvives
    /\ RevokedStaysRevoked /\ OneActiveGeneration

\* What a step that resolves or launches a grant may do.
GrantStep ==
    /\ (resolved = None /\ resolved' # None) =>
          LET g == resolved'.grant
              e == exposures[g.key]
          IN  /\ e.d.state = "active" /\ e.d.source = resolved'.identity
              /\ \E root \in roots : /\ root.root_id = e.d.root_id
                                     /\ path_within(e.host_path, root.host_root)
                                     /\ mode_is_subset(g.mode, root.modes)
    /\ (resolved # resolved' /\ resolved' # None /\ resolved'.launched) =>
          fs[resolved'.host_path] = exposures[resolved'.grant.key].d.source

\* A grant is resolved only while its generation is active, to the object that
\* was exposed, and within what the daemon's policy allows, although the mutex
\* is released between the two halves of resolve_grant; and what is launched
\* is that object (verify_identity).
ResolvedIsGranted == [][GrantStep]_exposureVars
============================================================================
