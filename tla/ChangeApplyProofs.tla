------------------------- MODULE ChangeApplyProofs -------------------------
(* The change ledger and the exchange, for every value of the constants:   *)
(* the ledger replays to what the daemon believes, a change is applied     *)
(* once and recorded truly over crashes and losses of power, and while the *)
(* power does not fail no tree and no edit is lost.                        *)
EXTENDS MCChangeApply, WellFoundedInduction, SequenceTheorems, TLAPS

USE ApplyAssumption, TagsAssumption

---------------------------------------------------------------------------
(* The invariants.                                                         *)

Entries(recs) == {recs[i] : i \in 1..Len(recs)}

\* Where a call is: before the exchange of its own copy, and while its
\* reservation is open.
Preparing == {"create", "copy", "check", "exchange", "unwind", "unwind_unlink"}
Executing == Preparing \cup {"sync", "verify"}
Working == Executing \cup {"inspect", "inspect_again", "inspect_committed",
                           "discard", "discard_unlink", "finalize",
                           "finalize_failed"}

\* A daemon that is not there knows nothing and does nothing.
ClosedIsIdle ==
    ~open => /\ grants = [g \in Grants |-> None] /\ sweep = {}
             /\ \A g \in Grants : pc[g] = "idle"

\* A file without its magic has no records.
BlankIsEmpty == header # "valid" => ~open /\ disk = <<>> /\ tail = None

\* What a call that is under way relies on.
CallsAreReserved ==
    \A g \in Grants :
       /\ pc[g] = "reserve" => grants[g] = None
       /\ pc[g] \in Working => grants[g] # None /\ grants[g].state = "reserved"
       /\ pc[g] \in {"cleanup", "cleanup_unlink"} =>
             grants[g] # None /\ grants[g].state = "applied"
       /\ pc[g] \in Preparing \ {"create"} => candidate[g] = g
       /\ pc[g] = "finalize" => observed[g] # None
       /\ g \in sweep => grants[g] # None

LedgerInv ==
    /\ LedgerIsTrue
    /\ ClosedIsIdle /\ BlankIsEmpty /\ CallsAreReserved

\* A call that may exchange, or did, has a reservation no loss of power takes,
\* and the file holds nothing else of its grant while it is under way.
UsesAreReserved ==
    \A g \in Grants :
       /\ exchanges[g] > 0 \/ pc[g] \in Executing =>
             \E n \in 1..synced : disk[n].grant = g
       /\ pc[g] \in Preparing => exchanges[g] = 0
       /\ pc[g] \in {"sync", "verify", "finalize"} => exchanges[g] = 1
       /\ exchanges[g] <= 1
       /\ pc[g] \in Executing =>
             \A r \in Entries(Readable) : r.grant = g => r.state = "reserved"

\* The copy of h has left its own candidate name in the file system t.
Moved(t, h) == t[1] = h \/ \E k \in Grants \ {h} : t[2][k] = h

\* What every file system that is there, or may come back, looks like: an
\* object has one name, a copy moves only by its exchange, and one that has
\* not moved is the stage or a part of it.
WellFormed(t) ==
    /\ \A h \in Grants : t[2][h] # t[1]
    /\ \A g, h \in Grants : g # h /\ t[2][g] = t[2][h] => t[2][g] = None
    /\ t[1] = Original => \A h \in Grants : t[2][h] \in {None, h}
    /\ \A h \in Grants :
          /\ Moved(t, h) \/ t[2][h] \notin {None, h} => exchanges[h] = 1
          /\ ~Moved(t, h) => t[3][h] \in {None, "part", Staged(h)}

Pasts == stale \cup {tree}

\* The entry that was live at first never gets its name back but by a loss of
\* power.
OriginalStaysAway == source = Original => \A t \in stale : t[1] = Original

\* What a call that is under way knows of its candidate.
CandidatesAreOwn ==
    \A g \in Grants :
       /\ pc[g] \in {"check", "exchange"} => content[g] = Staged(g)
       /\ pc[g] = "discard_unlink" => candidate[g] = g
       /\ pc[g] \in {"sync", "verify"} => candidate[g] # None
       /\ pc[g] \in {"discard_unlink", "cleanup_unlink"} =>
             candidate[g] # None /\ content[candidate[g]] = "part"

\* The copy of g is not live and cannot become so.
Clean(g) == \A t \in Pasts : ~Moved(t, g)

RecordsAreTrue ==
    /\ \A r \in Entries(Readable) :
          /\ r.state = "applied" => exchanges[r.grant] = 1
          /\ r.state = "failed" => Clean(r.grant)
    /\ \A g \in Grants : pc[g] = "finalize_failed" => Clean(g)

ApplyInv ==
    /\ LedgerInv /\ UsesAreReserved
    /\ \A t \in Pasts : WellFormed(t)
    /\ OriginalStaysAway /\ CandidatesAreOwn /\ RecordsAreTrue

\* As long as the power does not fail.
TreesInv ==
    /\ SourceIsWhole
    /\ content[Original] \in {"part", None} =>
          \E r \in Entries(disk) : r.state = "applied"
---------------------------------------------------------------------------
(* What the ledger's operators compute.                                    *)

LEMMA LeastOf ==
    ASSUME NEW T \in SUBSET Nat, T # {}
    PROVE  \E x \in T : \A y \in T : x <= y
<1>1. PICK x \in T : \A y \in T : ~(<<y, x>> \in OpToRel(<, Nat))
  BY NatLessThanWellFounded, WFMin
<1>2. \A y \in T : ~(y < x)
  BY <1>1 DEF OpToRel
<1>3. x \in Nat /\ \A y \in T : y \in Nat
  OBVIOUS
<1> QED
  BY <1>2, <1>3

\* The last record of a grant.
LastOf(s, g, n) ==
    /\ n \in 1..Len(s) /\ s[n].grant = g
    /\ \A i \in 1..Len(s) : s[i].grant = g => i <= n

LEMMA LastExists ==
    ASSUME NEW s \in Seq(Record), NEW g, NEW j \in 1..Len(s), s[j].grant = g
    PROVE  \E n \in 1..Len(s) : LastOf(s, g, n)
<1> DEFINE Own == {i \in 1..Len(s) : s[i].grant = g}
           T == {Len(s) - i : i \in Own}
<1>1. T \in SUBSET Nat /\ T # {}
  OBVIOUS
<1>2. PICK x \in T : \A y \in T : x <= y
  BY <1>1, LeastOf
<1>3. PICK n \in Own : x = Len(s) - n
  BY <1>2
<1>4. \A i \in Own : Len(s) - n <= Len(s) - i
  BY <1>2, <1>3
<1>5. \A i \in Own : i <= n
  BY <1>4
<1> QED
  BY <1>3, <1>5 DEF LastOf

\* Replay yields the last record of a grant, or nothing if it has none.
LEMMA ReplayAt ==
    ASSUME NEW s \in Seq(Record), NEW g \in Grants, NEW n, LastOf(s, g, n)
    PROVE  Replay(s)[g] = s[n]
<1> DEFINE Own == {i \in 1..Len(s) : s[i].grant = g}
<1>1. n \in Own /\ \A i \in Own : i <= n
  BY DEF LastOf
<1>2. Own \subseteq Int /\ Own # {}
  BY <1>1
<1> HIDE DEF Own
<1>3. Max(Own) = n
  <2>1. \A x \in Own : (\A y \in Own : x >= y) => x = n
    BY <1>1, <1>2
  <2>2. \A y \in Own : n >= y
    BY <1>1, <1>2
  <2> QED
    BY <1>1, <2>1, <2>2, Zenon DEF Max
<1> QED
  BY <1>2, <1>3 DEF Replay, Own

LEMMA ReplayNone ==
    ASSUME NEW s \in Seq(Record), NEW g \in Grants,
           \A i \in 1..Len(s) : s[i].grant # g
    PROVE  Replay(s)[g] = None
<1>1. {i \in 1..Len(s) : s[i].grant = g} = {}
  OBVIOUS
<1> QED
  BY <1>1 DEF Replay

LEMMA ReplayCases ==
    ASSUME NEW s \in Seq(Record), NEW g \in Grants
    PROVE  \/ /\ Replay(s)[g] = None
              /\ \A i \in 1..Len(s) : s[i].grant # g
           \/ \E n \in 1..Len(s) : LastOf(s, g, n) /\ Replay(s)[g] = s[n]
BY LastExists, ReplayAt, ReplayNone

LEMMA RecordFields ==
    ASSUME NEW r \in Record
    PROVE  /\ r.grant \in Grants /\ r # None /\ r # Junk
           /\ r.state \in {"reserved", "applied", "failed"}
           /\ r.final \in Objects \cup {None}
BY DEF Record

LEMMA ReplayType ==
    ASSUME NEW s \in Seq(Record)
    PROVE  Replay(s) \in [Grants -> Record \cup {None}]
<1>1. \A g \in Grants : Replay(s)[g] \in Record \cup {None}
  BY ReplayCases
<1>2. Replay(s) = [g \in Grants |-> Replay(s)[g]]
  BY DEF Replay
<1> HIDE DEF Record
<1> QED
  BY <1>1, <1>2

LEMMA ReplayEmpty == Replay(<<>>) = [g \in Grants |-> None]
BY DEF Replay

LEMMA AppendFacts ==
    ASSUME NEW s \in Seq(Record), NEW r \in Record
    PROVE  /\ Append(s, r) \in Seq(Record)
           /\ Len(Append(s, r)) = Len(s) + 1
           /\ Append(s, r)[Len(s) + 1] = r
           /\ \A i \in 1..Len(s) : Append(s, r)[i] = s[i]
OBVIOUS

LEMMA ReplayAppend ==
    ASSUME NEW s \in Seq(Record), NEW r \in Record
    PROVE  Replay(Append(s, r)) = [Replay(s) EXCEPT ![r.grant] = r]
<1> DEFINE t == Append(s, r)
<1>0. /\ t \in Seq(Record) /\ Len(t) = Len(s) + 1 /\ t[Len(s) + 1] = r
      /\ \A i \in 1..Len(s) : t[i] = s[i]
  BY AppendFacts
<1>00. Len(s) \in Nat
  OBVIOUS
<1> HIDE DEF t
<1>1. LastOf(t, r.grant, Len(s) + 1)
  BY <1>0, <1>00 DEF LastOf
<1>2. Replay(t)[r.grant] = r
  BY <1>0, <1>1, ReplayAt, RecordFields
<1>3. ASSUME NEW g \in Grants, g # r.grant
      PROVE  Replay(t)[g] = Replay(s)[g]
  <2>1. CASE \A i \in 1..Len(s) : s[i].grant # g
    <3>1. \A i \in 1..Len(t) : t[i].grant # g
      BY <1>0, <1>00, <1>3, <2>1
    <3> QED
      BY <1>0, <2>1, <3>1, ReplayNone
  <2>2. CASE \E j \in 1..Len(s) : s[j].grant = g
    <3>1. PICK n \in 1..Len(s) : LastOf(s, g, n)
      BY <2>2, LastExists
    <3>2. LastOf(t, g, n)
      BY <1>0, <1>00, <1>3, <3>1 DEF LastOf
    <3>3. Replay(s)[g] = s[n] /\ Replay(t)[g] = t[n]
      BY <1>0, <3>1, <3>2, ReplayAt
    <3> QED
      BY <1>0, <3>3
  <2> QED
    BY <2>1, <2>2
<1>4. Replay(t) \in [Grants -> Record \cup {None}]
      /\ Replay(s) \in [Grants -> Record \cup {None}]
  BY <1>0, ReplayType
<1>5. Replay(t) = [Replay(s) EXCEPT ![r.grant] = r]
  BY <1>2, <1>3, <1>4
<1> QED
  BY <1>5 DEF t

\* What open demands of record n, by the positions before it.
Follows(s, n) ==
    IF s[n].state = "reserved"
      THEN \A i \in 1..(n - 1) : ManifestOf[s[i].grant] # ManifestOf[s[n].grant]
      ELSE /\ \E i \in 1..(n - 1) : s[i].grant = s[n].grant
           /\ \A i \in 1..(n - 1) :
                 s[i].grant = s[n].grant => s[i].state = "reserved"

LEMMA ReplayableFollows ==
    ASSUME NEW s \in Seq(Record)
    PROVE  Replayable(s) <=>
             Len(s) <= MaxRecords /\ \A n \in 1..Len(s) : Follows(s, n)
<1>1. ASSUME NEW n \in 1..Len(s) PROVE ValidRecord(s, n) <=> Follows(s, n)
  BY Zenon DEF ValidRecord, Follows
<1> QED
  BY <1>1, Zenon DEF Replayable

\* What a record may be after those of s.
MayFollow(s, r) ==
    IF r.state = "reserved"
      THEN \A i \in 1..Len(s) : ManifestOf[s[i].grant] # ManifestOf[r.grant]
      ELSE /\ \E i \in 1..Len(s) : s[i].grant = r.grant
           /\ \A i \in 1..Len(s) : s[i].grant = r.grant => s[i].state = "reserved"

LEMMA FollowsCut ==
    ASSUME NEW s \in Seq(Record), NEW t \in Seq(Record), NEW m \in Nat,
           m <= Len(s), m <= Len(t), \A i \in 1..m : s[i] = t[i],
           NEW n \in 1..m
    PROVE  Follows(s, n) <=> Follows(t, n)
<1>1. \A i \in 1..(n - 1) : s[i] = t[i]
  OBVIOUS
<1>2. s[n] = t[n]
  OBVIOUS
<1> QED
  BY <1>1, <1>2, Zenon DEF Follows

LEMMA ReplayableAppend ==
    ASSUME NEW s \in Seq(Record), NEW r \in Record
    PROVE  Replayable(Append(s, r)) <=>
             Len(s) < MaxRecords /\ Replayable(s) /\ MayFollow(s, r)
<1> DEFINE t == Append(s, r)
<1>0. /\ t \in Seq(Record) /\ Len(t) = Len(s) + 1 /\ t[Len(s) + 1] = r
      /\ \A i \in 1..Len(s) : t[i] = s[i]
  BY AppendFacts
<1>00. Len(s) \in Nat
  OBVIOUS
<1> HIDE DEF t
<1>1. \A n \in 1..Len(s) : Follows(t, n) <=> Follows(s, n)
  BY <1>0, <1>00, FollowsCut
<1>2. Follows(t, Len(s) + 1) <=> MayFollow(s, r)
  <2>1. (Len(s) + 1) - 1 = Len(s)
    BY <1>00
  <2>2. Follows(t, Len(s) + 1) <=>
          IF r.state = "reserved"
            THEN \A i \in 1..Len(s) : ManifestOf[t[i].grant] # ManifestOf[r.grant]
            ELSE /\ \E i \in 1..Len(s) : t[i].grant = r.grant
                 /\ \A i \in 1..Len(s) :
                       t[i].grant = r.grant => t[i].state = "reserved"
    BY <1>0, <2>1, Zenon DEF Follows
  <2> QED
    BY <1>0, <2>2, Zenon DEF MayFollow
<1>3. 1..Len(t) = (1..Len(s)) \cup {Len(s) + 1}
  BY <1>0, <1>00
<1>4. Replayable(t) <=> /\ Len(s) + 1 <= MaxRecords
                        /\ \A n \in 1..Len(s) : Follows(t, n)
                        /\ Follows(t, Len(s) + 1)
  BY <1>0, <1>3, ReplayableFollows
<1>5. Replayable(t) <=>
        Len(s) < MaxRecords /\ Replayable(s) /\ MayFollow(s, r)
  BY <1>00, <1>1, <1>2, <1>4, ReplayableFollows
<1> QED
  BY <1>5 DEF t

LEMMA CutFacts ==
    ASSUME NEW s \in Seq(Record), NEW m \in 0..Len(s)
    PROVE  /\ SubSeq(s, 1, m) \in Seq(Record)
           /\ Len(SubSeq(s, 1, m)) = m
           /\ \A i \in 1..m : SubSeq(s, 1, m)[i] = s[i]
OBVIOUS

LEMMA ReplayableCut ==
    ASSUME NEW s \in Seq(Record), NEW m \in 0..Len(s), Replayable(s)
    PROVE  Replayable(SubSeq(s, 1, m))
<1> DEFINE t == SubSeq(s, 1, m)
<1>0. /\ t \in Seq(Record) /\ Len(t) = m /\ \A i \in 1..m : t[i] = s[i]
  BY CutFacts
<1>00. m \in Nat /\ m <= Len(s) /\ \A i \in 1..m : i \in 1..Len(s)
  OBVIOUS
<1> HIDE DEF t
<1>1. \A n \in 1..m : Follows(t, n) <=> Follows(s, n)
  BY <1>0, <1>00, FollowsCut
<1>2. Replayable(t)
  BY <1>0, <1>00, <1>1, ReplayableFollows
<1> QED
  BY <1>2 DEF t

\* While a grant is reserved, the ledger has nothing else of it.
LEMMA ReservedOnly ==
    ASSUME NEW s \in Seq(Record), Replayable(s), NEW g \in Grants,
           Replay(s)[g] # None, Replay(s)[g].state = "reserved",
           NEW i \in 1..Len(s), s[i].grant = g
    PROVE  s[i].state = "reserved"
<1>1. PICK n \in 1..Len(s) : LastOf(s, g, n) /\ Replay(s)[g] = s[n]
  BY ReplayCases
<1>2. Follows(s, n) /\ s[n].state = "reserved" /\ s[n].grant = g /\ i <= n
  BY <1>1, ReplayableFollows DEF LastOf
<1>3. \A k \in 1..(n - 1) : ManifestOf[s[k].grant] # ManifestOf[g]
  BY <1>2 DEF Follows
<1>4. i = n
  BY <1>2, <1>3
<1> QED
  BY <1>2, <1>4

\* A terminal record is the last of its grant.
LEMMA TerminalIsLast ==
    ASSUME NEW s \in Seq(Record), Replayable(s), NEW i \in 1..Len(s),
           s[i].state # "reserved"
    PROVE  Replay(s)[s[i].grant] = s[i]
<1>0. s[i] \in Record /\ s[i].grant \in Grants
  BY RecordFields
<1>1. ASSUME NEW j \in 1..Len(s), s[j].grant = s[i].grant
      PROVE  j <= i
  <2>1. SUFFICES ASSUME i < j PROVE FALSE
    OBVIOUS
  <2>2. Follows(s, j) /\ i \in 1..(j - 1)
    BY <2>1, ReplayableFollows
  <2> QED
    BY <1>1, <2>2 DEF Follows
<1>2. LastOf(s, s[i].grant, i)
  BY <1>1 DEF LastOf
<1> QED
  BY <1>0, <1>2, ReplayAt

\* No two grants of one change are in the ledger.
LEMMA OneGrantOfChange ==
    ASSUME NEW s \in Seq(Record), Replayable(s),
           NEW i \in 1..Len(s), NEW j \in 1..Len(s),
           ManifestOf[s[i].grant] = ManifestOf[s[j].grant]
    PROVE  s[i].grant = s[j].grant
<1>1. ASSUME NEW k \in 1..Len(s)
      PROVE  \E m \in 1..Len(s) :
                s[m].grant = s[k].grant /\ s[m].state = "reserved"
  <2>1. Follows(s, k) /\ \A m \in 1..(k - 1) : m \in 1..Len(s)
    BY ReplayableFollows
  <2> QED
    BY <2>1 DEF Follows
<1>2. PICK a \in 1..Len(s) : s[a].grant = s[i].grant /\ s[a].state = "reserved"
  BY <1>1
<1>3. PICK b \in 1..Len(s) : s[b].grant = s[j].grant /\ s[b].state = "reserved"
  BY <1>1
<1>4. Follows(s, a) /\ Follows(s, b)
  BY ReplayableFollows
<1>5. ~(a < b)
  <2>1. ASSUME a < b PROVE FALSE
    <3>1. a \in 1..(b - 1)
      BY <2>1
    <3> QED
      BY <1>2, <1>3, <1>4, <3>1 DEF Follows
  <2> QED
    BY <2>1
<1>6. ~(b < a)
  <2>1. ASSUME b < a PROVE FALSE
    <3>1. b \in 1..(a - 1)
      BY <2>1
    <3> QED
      BY <1>2, <1>3, <1>4, <3>1 DEF Follows
  <2> QED
    BY <2>1
<1>7. a = b
  BY <1>5, <1>6
<1> QED
  BY <1>2, <1>3, <1>7

---------------------------------------------------------------------------
(* The ledger.                                                             *)

FileType ==
    /\ header \in {"absent", "blank", "valid"}
    /\ disk \in Seq(Record) /\ Len(disk) <= MaxRecords
    /\ tail \in Record \cup {None, Junk} /\ synced \in 0..Len(disk)
    /\ grants \in [Grants -> Record \cup {None}]

TreeType(t) ==
    /\ t[1] \in Objects
    /\ t[2] \in [Grants -> Objects \cup {None}]
    /\ t[3] \in [Objects -> Trees \cup {None}]

CallType ==
    /\ open \in BOOLEAN /\ sweep \subseteq Grants
    /\ pc \in [Grants -> PCs]
    /\ observed \in [Grants -> Objects \cup {None}]
    /\ faults \in 0..MaxFaults /\ crashes \in 0..MaxCrashes
    /\ edits \in 0..MaxEdits
    /\ exchanges \in [Grants -> Nat]

LEMMA TypeParts ==
    ASSUME TypeOK
    PROVE  /\ FileType /\ CallType
           /\ source \in Objects
           /\ candidate \in [Grants -> Objects \cup {None}]
           /\ content \in [Objects -> Trees \cup {None}]
           /\ \A t \in stale : TreeType(t)
BY DEF TypeOK, FileType, CallType, TreeType

LEMMA TypeAgain ==
    ASSUME FileType', CallType', source' \in Objects,
           candidate' \in [Grants -> Objects \cup {None}],
           content' \in [Objects -> Trees \cup {None}],
           \A t \in stale' : TreeType(t)
    PROVE  TypeOK'
BY DEF TypeOK, FileType, CallType, TreeType

\* The file system before a step stays among those that may come back, or all
\* of them are forgotten.
LEMMA StaleType ==
    ASSUME TypeOK, stale' \subseteq Pasts
    PROVE  \A t \in stale' : TreeType(t)
<1>1. TreeType(tree)
  BY DEF TypeOK, TreeType, tree
<1>2. \A t \in stale : TreeType(t)
  BY TypeParts
<1> QED
  BY <1>1, <1>2 DEF Pasts

\* A step that leaves the ledger alone keeps its promise.
LEMMA LedgerFrame ==
    ASSUME LedgerInv, UNCHANGED <<file, open, grants>>, TypeOK',
           ClosedIsIdle', CallsAreReserved'
    PROVE  LedgerInv'
BY DEF LedgerInv, LedgerIsTrue, MemoryIsJournal, JournalReplays, BlankIsEmpty,
   Readable, file

LEMMA ExecuteAuthorizedChangeApplyLedger ==
    ASSUME LedgerInv, NEW g \in Grants, execute_authorized_change_apply(g)
    PROVE  LedgerInv'
<1>1. /\ TypeOK /\ FileType /\ CallType
      /\ source \in Objects /\ candidate \in [Grants -> Objects \cup {None}]
      /\ content \in [Objects -> Trees \cup {None}]
      /\ ClosedIsIdle /\ CallsAreReserved /\ source # None
  BY TypeParts DEF LedgerInv, LedgerIsTrue, Objects
<1>2. UNCHANGED <<file, open, grants>> /\ FileType'
  BY <1>1 DEF execute_authorized_change_apply, Goto, FileType, file
<1>3. CallType'
  BY <1>1 DEF execute_authorized_change_apply, Goto, CallType, PCs
<1>4. /\ source' \in Objects /\ candidate' \in [Grants -> Objects \cup {None}]
      /\ content' \in [Objects -> Trees \cup {None}]
  BY <1>1 DEF execute_authorized_change_apply, Goto, tree, Trees, Objects
<1>5. stale' \subseteq Pasts
  BY <1>1 DEF execute_authorized_change_apply, Goto, Pasts
<1>6. ClosedIsIdle'
  BY <1>1 DEF execute_authorized_change_apply, Goto, ClosedIsIdle, CallType
<1>7. CallsAreReserved'
  BY <1>1 DEF execute_authorized_change_apply, Goto, CallsAreReserved,
     CallType, Working, Executing, Preparing, tree
<1>8. TypeOK'
  BY <1>1, <1>2, <1>3, <1>4, <1>5, StaleType, TypeAgain
<1> QED
  BY <1>2, <1>6, <1>7, <1>8, LedgerFrame

LEMMA CreateCandidateLedger ==
    ASSUME LedgerInv, NEW g \in Grants, create_candidate(g)
    PROVE  LedgerInv'
<1>1. /\ TypeOK /\ FileType /\ CallType
      /\ source \in Objects /\ candidate \in [Grants -> Objects \cup {None}]
      /\ content \in [Objects -> Trees \cup {None}]
      /\ ClosedIsIdle /\ CallsAreReserved /\ source # None
  BY TypeParts DEF LedgerInv, LedgerIsTrue, Objects
<1>2. UNCHANGED <<file, open, grants>> /\ FileType'
  BY <1>1 DEF create_candidate, Goto, Fault, NoFault, Unsynced, FileType, file
<1>3. CallType'
  BY <1>1 DEF create_candidate, Goto, Fault, NoFault, Unsynced, CallType, PCs
<1>4. /\ source' \in Objects /\ candidate' \in [Grants -> Objects \cup {None}]
      /\ content' \in [Objects -> Trees \cup {None}]
  BY <1>1 DEF create_candidate, Goto, Fault, NoFault, Unsynced, tree, Trees,
     Objects
<1>5. stale' \subseteq Pasts
  BY <1>1 DEF create_candidate, Goto, Fault, NoFault, Unsynced, Pasts
<1>6. ClosedIsIdle'
  BY <1>1 DEF create_candidate, Goto, Fault, NoFault, Unsynced,
     ClosedIsIdle, CallType
<1>7. CallsAreReserved'
  BY <1>1 DEF create_candidate, Goto, Fault, NoFault, Unsynced,
     CallsAreReserved, CallType, Working, Executing, Preparing, tree
<1>8. TypeOK'
  BY <1>1, <1>2, <1>3, <1>4, <1>5, StaleType, TypeAgain
<1> QED
  BY <1>2, <1>6, <1>7, <1>8, LedgerFrame

LEMMA CopyStagedTreeLedger ==
    ASSUME LedgerInv, NEW g \in Grants, copy_staged_tree(g)
    PROVE  LedgerInv'
<1>1. /\ TypeOK /\ FileType /\ CallType
      /\ source \in Objects /\ candidate \in [Grants -> Objects \cup {None}]
      /\ content \in [Objects -> Trees \cup {None}]
      /\ ClosedIsIdle /\ CallsAreReserved /\ source # None
  BY TypeParts DEF LedgerInv, LedgerIsTrue, Objects
<1>2. UNCHANGED <<file, open, grants>> /\ FileType'
  BY <1>1 DEF copy_staged_tree, Goto, Fault, NoFault, Synced, Staged,
     FileType, file
<1>3. CallType'
  BY <1>1 DEF copy_staged_tree, Goto, Fault, NoFault, Synced, Staged,
     CallType, PCs
<1>4. /\ source' \in Objects /\ candidate' \in [Grants -> Objects \cup {None}]
      /\ content' \in [Objects -> Trees \cup {None}]
  BY <1>1 DEF copy_staged_tree, Goto, Fault, NoFault, Synced, Staged, tree,
     Trees, Objects
<1>5. stale' \subseteq Pasts
  BY <1>1 DEF copy_staged_tree, Goto, Fault, NoFault, Synced, Staged, Pasts
<1>6. ClosedIsIdle'
  BY <1>1 DEF copy_staged_tree, Goto, Fault, NoFault, Synced, Staged,
     ClosedIsIdle, CallType
<1>7. CallsAreReserved'
  BY <1>1 DEF copy_staged_tree, Goto, Fault, NoFault, Synced, Staged,
     CallsAreReserved, CallType, Working, Executing, Preparing, tree
<1>8. TypeOK'
  BY <1>1, <1>2, <1>3, <1>4, <1>5, StaleType, TypeAgain
<1> QED
  BY <1>2, <1>6, <1>7, <1>8, LedgerFrame

LEMMA CheckSourceLedger ==
    ASSUME LedgerInv, NEW g \in Grants, check_source(g)
    PROVE  LedgerInv'
<1>1. /\ TypeOK /\ FileType /\ CallType
      /\ source \in Objects /\ candidate \in [Grants -> Objects \cup {None}]
      /\ content \in [Objects -> Trees \cup {None}]
      /\ ClosedIsIdle /\ CallsAreReserved /\ source # None
  BY TypeParts DEF LedgerInv, LedgerIsTrue, Objects
<1>2. UNCHANGED <<file, open, grants>> /\ FileType'
  BY <1>1 DEF check_source, Goto, Fault, NoFault, FileType, file
<1>3. CallType'
  BY <1>1 DEF check_source, Goto, Fault, NoFault, CallType, PCs
<1>4. /\ source' \in Objects /\ candidate' \in [Grants -> Objects \cup {None}]
      /\ content' \in [Objects -> Trees \cup {None}]
  BY <1>1 DEF check_source, Goto, Fault, NoFault, tree, Trees, Objects
<1>5. stale' \subseteq Pasts
  BY <1>1 DEF check_source, Goto, Fault, NoFault, Pasts
<1>6. ClosedIsIdle'
  BY <1>1 DEF check_source, Goto, Fault, NoFault, ClosedIsIdle, CallType
<1>7. CallsAreReserved'
  BY <1>1 DEF check_source, Goto, Fault, NoFault, CallsAreReserved,
     CallType, Working, Executing, Preparing, tree
<1>8. TypeOK'
  BY <1>1, <1>2, <1>3, <1>4, <1>5, StaleType, TypeAgain
<1> QED
  BY <1>2, <1>6, <1>7, <1>8, LedgerFrame

LEMMA ExchangeLedger ==
    ASSUME LedgerInv, NEW g \in Grants, exchange(g)
    PROVE  LedgerInv'
<1>1. /\ TypeOK /\ FileType /\ CallType
      /\ source \in Objects /\ candidate \in [Grants -> Objects \cup {None}]
      /\ content \in [Objects -> Trees \cup {None}]
      /\ ClosedIsIdle /\ CallsAreReserved /\ source # None
  BY TypeParts DEF LedgerInv, LedgerIsTrue, Objects
<1>0. pc[g] = "exchange" /\ candidate[g] = g
  BY <1>1 DEF exchange, CallsAreReserved, Preparing
<1>2. UNCHANGED <<file, open, grants>> /\ FileType'
  BY <1>1 DEF exchange, Goto, Fault, NoFault, Unsynced, FileType, file
<1>3. CallType'
  BY <1>1, <1>0 DEF exchange, Goto, Fault, NoFault, Unsynced, CallType, PCs
<1>4. /\ source' \in Objects /\ candidate' \in [Grants -> Objects \cup {None}]
      /\ content' \in [Objects -> Trees \cup {None}]
  BY <1>1, <1>0 DEF exchange, Goto, Fault, NoFault, Unsynced, tree, Trees,
     Objects
<1>5. stale' \subseteq Pasts
  BY <1>1 DEF exchange, Goto, Fault, NoFault, Unsynced, Pasts
<1>6. ClosedIsIdle'
  BY <1>1 DEF exchange, Goto, Fault, NoFault, Unsynced, ClosedIsIdle, CallType
<1>7. CallsAreReserved'
  BY <1>1, <1>0 DEF exchange, Goto, Fault, NoFault, Unsynced,
     CallsAreReserved, CallType, Working, Executing, Preparing, tree
<1>8. TypeOK'
  BY <1>1, <1>2, <1>3, <1>4, <1>5, StaleType, TypeAgain
<1> QED
  BY <1>2, <1>6, <1>7, <1>8, LedgerFrame

LEMMA SyncExchangeLedger ==
    ASSUME LedgerInv, NEW g \in Grants, sync_exchange(g)
    PROVE  LedgerInv'
<1>1. /\ TypeOK /\ FileType /\ CallType
      /\ source \in Objects /\ candidate \in [Grants -> Objects \cup {None}]
      /\ content \in [Objects -> Trees \cup {None}]
      /\ ClosedIsIdle /\ CallsAreReserved /\ source # None
  BY TypeParts DEF LedgerInv, LedgerIsTrue, Objects
<1>2. UNCHANGED <<file, open, grants>> /\ FileType'
  BY <1>1 DEF sync_exchange, Goto, Fault, NoFault, Synced, FileType, file
<1>3. CallType'
  BY <1>1 DEF sync_exchange, Goto, Fault, NoFault, Synced, CallType, PCs
<1>4. /\ source' \in Objects /\ candidate' \in [Grants -> Objects \cup {None}]
      /\ content' \in [Objects -> Trees \cup {None}]
  BY <1>1 DEF sync_exchange, Goto, Fault, NoFault, Synced, tree, Trees, Objects
<1>5. stale' \subseteq Pasts
  BY <1>1 DEF sync_exchange, Goto, Fault, NoFault, Synced, Pasts
<1>6. ClosedIsIdle'
  BY <1>1 DEF sync_exchange, Goto, Fault, NoFault, Synced, ClosedIsIdle,
     CallType
<1>7. CallsAreReserved'
  BY <1>1 DEF sync_exchange, Goto, Fault, NoFault, Synced, CallsAreReserved,
     CallType, Working, Executing, Preparing, tree
<1>8. TypeOK'
  BY <1>1, <1>2, <1>3, <1>4, <1>5, StaleType, TypeAgain
<1> QED
  BY <1>2, <1>6, <1>7, <1>8, LedgerFrame

LEMMA VerifyExchangeLedger ==
    ASSUME LedgerInv, NEW g \in Grants, verify_exchange(g)
    PROVE  LedgerInv'
<1>1. /\ TypeOK /\ FileType /\ CallType
      /\ source \in Objects /\ candidate \in [Grants -> Objects \cup {None}]
      /\ content \in [Objects -> Trees \cup {None}]
      /\ ClosedIsIdle /\ CallsAreReserved /\ source # None
  BY TypeParts DEF LedgerInv, LedgerIsTrue, Objects
<1>2. UNCHANGED <<file, open, grants>> /\ FileType'
  BY <1>1 DEF verify_exchange, Goto, Fault, NoFault, FileType, file
<1>3. CallType'
  BY <1>1 DEF verify_exchange, Goto, Fault, NoFault, CallType, PCs
<1>4. /\ source' \in Objects /\ candidate' \in [Grants -> Objects \cup {None}]
      /\ content' \in [Objects -> Trees \cup {None}]
  BY <1>1 DEF verify_exchange, Goto, Fault, NoFault, tree, Trees, Objects
<1>5. stale' \subseteq Pasts
  BY <1>1 DEF verify_exchange, Goto, Fault, NoFault, Pasts
<1>6. ClosedIsIdle'
  BY <1>1 DEF verify_exchange, Goto, Fault, NoFault, ClosedIsIdle, CallType
<1>7. CallsAreReserved'
  BY <1>1 DEF verify_exchange, Goto, Fault, NoFault, CallsAreReserved,
     CallType, Working, Executing, Preparing, tree
<1>8. TypeOK'
  BY <1>1, <1>2, <1>3, <1>4, <1>5, StaleType, TypeAgain
<1> QED
  BY <1>2, <1>6, <1>7, <1>8, LedgerFrame

LEMMA UnwindLedger ==
    ASSUME LedgerInv, NEW g \in Grants, unwind(g)
    PROVE  LedgerInv'
<1>1. /\ TypeOK /\ FileType /\ CallType
      /\ source \in Objects /\ candidate \in [Grants -> Objects \cup {None}]
      /\ content \in [Objects -> Trees \cup {None}]
      /\ ClosedIsIdle /\ CallsAreReserved /\ source # None
  BY TypeParts DEF LedgerInv, LedgerIsTrue, Objects
<1>2. UNCHANGED <<file, open, grants>> /\ FileType'
  BY <1>1 DEF unwind, RemoveContents, Unlink, GiveUp, Goto, Fault, NoFault,
     Synced, Unsynced, FileType, file
<1>3. CallType'
  BY <1>1 DEF unwind, RemoveContents, Unlink, GiveUp, Goto, Fault, NoFault,
     Synced, Unsynced, CallType, PCs
<1>4. /\ source' \in Objects /\ candidate' \in [Grants -> Objects \cup {None}]
      /\ content' \in [Objects -> Trees \cup {None}]
  BY <1>1 DEF unwind, RemoveContents, Unlink, GiveUp, Goto, Fault, NoFault,
     Synced, Unsynced, tree, Trees, Objects
<1>5. stale' \subseteq Pasts
  BY <1>1 DEF unwind, RemoveContents, Unlink, GiveUp, Goto, Fault, NoFault,
     Synced, Unsynced, Pasts
<1>6. ClosedIsIdle'
  BY <1>1 DEF unwind, RemoveContents, Unlink, GiveUp, Goto, Fault, NoFault,
     Synced, Unsynced, ClosedIsIdle, CallType
<1>7. CallsAreReserved'
  BY <1>1 DEF unwind, RemoveContents, Unlink, GiveUp, Goto, Fault, NoFault,
     Synced, Unsynced, CallsAreReserved, CallType, Working, Executing,
     Preparing, tree
<1>8. TypeOK'
  BY <1>1, <1>2, <1>3, <1>4, <1>5, StaleType, TypeAgain
<1> QED
  BY <1>2, <1>6, <1>7, <1>8, LedgerFrame

LEMMA InspectLedger ==
    ASSUME LedgerInv, NEW g \in Grants, inspect(g)
    PROVE  LedgerInv'
<1>1. /\ TypeOK /\ FileType /\ CallType
      /\ source \in Objects /\ candidate \in [Grants -> Objects \cup {None}]
      /\ content \in [Objects -> Trees \cup {None}]
      /\ ClosedIsIdle /\ CallsAreReserved /\ source # None
  BY TypeParts DEF LedgerInv, LedgerIsTrue, Objects
<1>2. UNCHANGED <<file, open, grants>> /\ FileType'
  BY <1>1 DEF inspect, Goto, Fault, NoFault, FileType, file
<1>3. CallType'
  BY <1>1 DEF inspect, Goto, Fault, NoFault, CallType, PCs
<1>4. /\ source' \in Objects /\ candidate' \in [Grants -> Objects \cup {None}]
      /\ content' \in [Objects -> Trees \cup {None}]
  BY <1>1 DEF inspect, Goto, Fault, NoFault, tree, Trees, Objects
<1>5. stale' \subseteq Pasts
  BY <1>1 DEF inspect, Goto, Fault, NoFault, Pasts
<1>6. ClosedIsIdle'
  BY <1>1 DEF inspect, Goto, Fault, NoFault, ClosedIsIdle, CallType
<1>7. CallsAreReserved'
  BY <1>1 DEF inspect, Goto, Fault, NoFault, CallsAreReserved, CallType,
     Working, Executing, Preparing, tree
<1>8. TypeOK'
  BY <1>1, <1>2, <1>3, <1>4, <1>5, StaleType, TypeAgain
<1> QED
  BY <1>2, <1>6, <1>7, <1>8, LedgerFrame

LEMMA DiscardLedger ==
    ASSUME LedgerInv, NEW g \in Grants, discard(g)
    PROVE  LedgerInv'
<1>1. /\ TypeOK /\ FileType /\ CallType
      /\ source \in Objects /\ candidate \in [Grants -> Objects \cup {None}]
      /\ content \in [Objects -> Trees \cup {None}]
      /\ ClosedIsIdle /\ CallsAreReserved /\ source # None
  BY TypeParts DEF LedgerInv, LedgerIsTrue, Objects
<1>2. UNCHANGED <<file, open, grants>> /\ FileType'
  BY <1>1 DEF discard, RemoveContents, Unlink, GiveUp, Goto, Fault, NoFault,
     Synced, Unsynced, FileType, file
<1>3. CallType'
  BY <1>1 DEF discard, RemoveContents, Unlink, GiveUp, Goto, Fault, NoFault,
     Synced, Unsynced, CallType, PCs
<1>4. /\ source' \in Objects /\ candidate' \in [Grants -> Objects \cup {None}]
      /\ content' \in [Objects -> Trees \cup {None}]
  BY <1>1 DEF discard, RemoveContents, Unlink, GiveUp, Goto, Fault, NoFault,
     Synced, Unsynced, tree, Trees, Objects
<1>5. stale' \subseteq Pasts
  BY <1>1 DEF discard, RemoveContents, Unlink, GiveUp, Goto, Fault, NoFault,
     Synced, Unsynced, Pasts
<1>6. ClosedIsIdle'
  BY <1>1 DEF discard, RemoveContents, Unlink, GiveUp, Goto, Fault, NoFault,
     Synced, Unsynced, ClosedIsIdle, CallType
<1>7. CallsAreReserved'
  BY <1>1 DEF discard, RemoveContents, Unlink, GiveUp, Goto, Fault, NoFault,
     Synced, Unsynced, CallsAreReserved, CallType, Working, Executing,
     Preparing, tree
<1>8. TypeOK'
  BY <1>1, <1>2, <1>3, <1>4, <1>5, StaleType, TypeAgain
<1> QED
  BY <1>2, <1>6, <1>7, <1>8, LedgerFrame

LEMMA CleanupLedger ==
    ASSUME LedgerInv, NEW g \in Grants, cleanup(g)
    PROVE  LedgerInv'
<1>1. /\ TypeOK /\ FileType /\ CallType
      /\ source \in Objects /\ candidate \in [Grants -> Objects \cup {None}]
      /\ content \in [Objects -> Trees \cup {None}]
      /\ ClosedIsIdle /\ CallsAreReserved /\ source # None
  BY TypeParts DEF LedgerInv, LedgerIsTrue, Objects
<1>2. UNCHANGED <<file, open, grants>> /\ FileType'
  BY <1>1 DEF cleanup, RemoveContents, Unlink, GiveUp, Goto, Fault, NoFault,
     Synced, Unsynced, FileType, file
<1>3. CallType'
  BY <1>1 DEF cleanup, RemoveContents, Unlink, GiveUp, Goto, Fault, NoFault,
     Synced, Unsynced, CallType, PCs
<1>4. /\ source' \in Objects /\ candidate' \in [Grants -> Objects \cup {None}]
      /\ content' \in [Objects -> Trees \cup {None}]
  BY <1>1 DEF cleanup, RemoveContents, Unlink, GiveUp, Goto, Fault, NoFault,
     Synced, Unsynced, tree, Trees, Objects
<1>5. stale' \subseteq Pasts
  BY <1>1 DEF cleanup, RemoveContents, Unlink, GiveUp, Goto, Fault, NoFault,
     Synced, Unsynced, Pasts
<1>6. ClosedIsIdle'
  BY <1>1 DEF cleanup, RemoveContents, Unlink, GiveUp, Goto, Fault, NoFault,
     Synced, Unsynced, ClosedIsIdle, CallType
<1>7. CallsAreReserved'
  BY <1>1 DEF cleanup, RemoveContents, Unlink, GiveUp, Goto, Fault, NoFault,
     Synced, Unsynced, CallsAreReserved, CallType, Working, Executing,
     Preparing, tree
<1>8. TypeOK'
  BY <1>1, <1>2, <1>3, <1>4, <1>5, StaleType, TypeAgain
<1> QED
  BY <1>2, <1>6, <1>7, <1>8, LedgerFrame

LEMMA RecoverPendingChangeApplyLedger ==
    ASSUME LedgerInv, NEW g \in Grants, recover_pending_change_apply(g)
    PROVE  LedgerInv'
<1>1. /\ TypeOK /\ FileType /\ CallType
      /\ source \in Objects /\ candidate \in [Grants -> Objects \cup {None}]
      /\ content \in [Objects -> Trees \cup {None}]
      /\ ClosedIsIdle /\ CallsAreReserved /\ source # None
  BY TypeParts DEF LedgerInv, LedgerIsTrue, Objects
<1>2. UNCHANGED <<file, open, grants>> /\ FileType'
  BY <1>1 DEF recover_pending_change_apply, Recover, StateOf, Goto,
     FileType, file
<1>3. CallType'
  BY <1>1 DEF recover_pending_change_apply, Recover, StateOf, Goto,
     CallType, PCs
<1>4. /\ source' \in Objects /\ candidate' \in [Grants -> Objects \cup {None}]
      /\ content' \in [Objects -> Trees \cup {None}]
  BY <1>1 DEF recover_pending_change_apply, Recover, StateOf, Goto, tree,
     Trees, Objects
<1>5. stale' \subseteq Pasts
  BY <1>1 DEF recover_pending_change_apply, Recover, StateOf, Goto, Pasts
<1>6. ClosedIsIdle'
  BY <1>1 DEF recover_pending_change_apply, Recover, StateOf, Goto,
     ClosedIsIdle, CallType
<1>7. CallsAreReserved'
  BY <1>1 DEF recover_pending_change_apply, Recover, StateOf, Goto,
     CallsAreReserved, CallType, Working, Executing, Preparing, tree
<1>8. TypeOK'
  BY <1>1, <1>2, <1>3, <1>4, <1>5, StaleType, TypeAgain
<1> QED
  BY <1>2, <1>6, <1>7, <1>8, LedgerFrame

LEMMA FinalizeCommittedChangeApplyRecoveryLedger ==
    ASSUME LedgerInv, NEW g \in Grants,
           finalize_committed_change_apply_recovery(g)
    PROVE  LedgerInv'
<1>1. /\ TypeOK /\ FileType /\ CallType
      /\ source \in Objects /\ candidate \in [Grants -> Objects \cup {None}]
      /\ content \in [Objects -> Trees \cup {None}]
      /\ ClosedIsIdle /\ CallsAreReserved /\ source # None
  BY TypeParts DEF LedgerInv, LedgerIsTrue, Objects
<1>2. UNCHANGED <<file, open, grants>> /\ FileType'
  BY <1>1 DEF finalize_committed_change_apply_recovery, Recover, StateOf,
     Goto, FileType, file
<1>3. CallType'
  BY <1>1 DEF finalize_committed_change_apply_recovery, Recover, StateOf,
     Goto, CallType, PCs
<1>4. /\ source' \in Objects /\ candidate' \in [Grants -> Objects \cup {None}]
      /\ content' \in [Objects -> Trees \cup {None}]
  BY <1>1 DEF finalize_committed_change_apply_recovery, Recover, StateOf,
     Goto, tree, Trees, Objects
<1>5. stale' \subseteq Pasts
  BY <1>1 DEF finalize_committed_change_apply_recovery, Recover, StateOf,
     Goto, Pasts
<1>6. ClosedIsIdle'
  BY <1>1 DEF finalize_committed_change_apply_recovery, Recover, StateOf,
     Goto, ClosedIsIdle, CallType
<1>7. CallsAreReserved'
  BY <1>1 DEF finalize_committed_change_apply_recovery, Recover, StateOf,
     Goto, CallsAreReserved, CallType, Working, Executing, Preparing, tree
<1>8. TypeOK'
  BY <1>1, <1>2, <1>3, <1>4, <1>5, StaleType, TypeAgain
<1> QED
  BY <1>2, <1>6, <1>7, <1>8, LedgerFrame

LEMMA ReconcileRecordLedger ==
    ASSUME LedgerInv, NEW g \in Grants, reconcile_record(g)
    PROVE  LedgerInv'
<1>1. /\ TypeOK /\ FileType /\ CallType
      /\ source \in Objects /\ candidate \in [Grants -> Objects \cup {None}]
      /\ content \in [Objects -> Trees \cup {None}]
      /\ ClosedIsIdle /\ CallsAreReserved /\ source # None
  BY TypeParts DEF LedgerInv, LedgerIsTrue, Objects
<1>0. /\ grants[g] # None
      /\ StateOf(g) \in {"reserved", "applied", "failed"}
  BY <1>1, RecordFields DEF reconcile_record, CallsAreReserved, FileType,
     StateOf
<1>2. UNCHANGED <<file, open, grants>> /\ FileType'
  BY <1>1 DEF reconcile_record, Goto, Fault, NoFault, StateOf, FileType, file
<1>3. CallType'
  BY <1>1, <1>0 DEF reconcile_record, Goto, Fault, NoFault, StateOf,
     CallType, PCs
<1>4. /\ source' \in Objects /\ candidate' \in [Grants -> Objects \cup {None}]
      /\ content' \in [Objects -> Trees \cup {None}]
  BY <1>1, <1>0 DEF reconcile_record, Goto, Fault, NoFault, StateOf, tree,
     Trees, Objects
<1>5. stale' \subseteq Pasts
  BY <1>1 DEF reconcile_record, Goto, Fault, NoFault, StateOf, Pasts
<1>6. ClosedIsIdle'
  BY <1>1 DEF reconcile_record, Goto, Fault, NoFault, StateOf, ClosedIsIdle,
     CallType
<1>7. CallsAreReserved'
  BY <1>1, <1>0 DEF reconcile_record, Goto, Fault, NoFault, StateOf,
     CallsAreReserved, CallType, Working, Executing, Preparing, tree
<1>8. TypeOK'
  BY <1>1, <1>2, <1>3, <1>4, <1>5, StaleType, TypeAgain
<1> QED
  BY <1>2, <1>6, <1>7, <1>8, LedgerFrame

LEMMA LedgerFacts ==
    ASSUME LedgerInv
    PROVE  /\ TypeOK /\ FileType /\ CallType
           /\ disk \in Seq(Record) /\ Len(disk) \in Nat /\ synced \in 0..Len(disk)
           /\ Readable \in Seq(Record) /\ Replayable(Readable)
           /\ Replayable(disk)
           /\ open => grants = Replay(disk)
           /\ ClosedIsIdle /\ BlankIsEmpty /\ CallsAreReserved
<1>1. /\ TypeOK /\ FileType /\ CallType /\ disk \in Seq(Record)
      /\ Len(disk) \in Nat /\ synced \in 0..Len(disk)
      /\ Replayable(Readable) /\ (open => grants = Replay(disk))
      /\ ClosedIsIdle /\ BlankIsEmpty /\ CallsAreReserved
  BY TypeParts DEF LedgerInv, LedgerIsTrue, FileType, MemoryIsJournal,
     JournalReplays
<1>2. CASE tail \in Record
  BY <1>1, <1>2, AppendFacts, ReplayableAppend DEF Readable
<1>3. CASE tail \notin Record
  BY <1>1, <1>3 DEF Readable
<1> QED
  BY <1>1, <1>2, <1>3

\* What an append may write is what open accepts next.
LEMMA ReservationFollows ==
    ASSUME LedgerInv, open, NEW g \in Grants, Unused(g)
    PROVE  Reservation(g) \in Record /\ MayFollow(disk, Reservation(g))
<1>1. disk \in Seq(Record) /\ grants = Replay(disk)
  BY LedgerFacts
<1>2. Reservation(g) \in Record /\ Reservation(g).grant = g
      /\ Reservation(g).state = "reserved"
  BY DEF Record, Reservation
<1>3. ASSUME NEW i \in 1..Len(disk)
      PROVE  ManifestOf[disk[i].grant] # ManifestOf[g]
  <2>1. disk[i] \in Record /\ disk[i].grant \in Grants
    BY <1>1, RecordFields
  <2>2. PICK n \in 1..Len(disk) : Replay(disk)[disk[i].grant] = disk[n]
    BY <1>1, <2>1, ReplayCases
  <2>3. grants[disk[i].grant] # None
    BY <1>1, <2>2, RecordFields
  <2> QED
    BY <2>1, <2>3 DEF Unused
<1> QED
  BY <1>2, <1>3 DEF MayFollow

LEMMA TerminalFollows ==
    ASSUME LedgerInv, open, NEW g \in Grants,
           grants[g] # None, grants[g].state = "reserved",
           NEW r \in Record, r.grant = g, r.state # "reserved"
    PROVE  MayFollow(disk, r)
<1>1. disk \in Seq(Record) /\ grants = Replay(disk) /\ Replayable(disk)
  BY LedgerFacts
<1>2. \A i \in 1..Len(disk) : disk[i].grant = g => disk[i].state = "reserved"
  BY <1>1, ReservedOnly
<1>3. \E i \in 1..Len(disk) : disk[i].grant = g
  BY <1>1, ReplayCases DEF LastOf
<1> QED
  BY <1>2, <1>3 DEF MayFollow

LEMMA AppliedFollows ==
    ASSUME LedgerInv, open, NEW g \in Grants, pc[g] = "finalize"
    PROVE  /\ Applied(g, observed[g]) \in Record
           /\ MayFollow(disk, Applied(g, observed[g]))
<1>1. grants[g] # None /\ grants[g].state = "reserved" /\ observed[g] \in Objects
  BY LedgerFacts DEF CallsAreReserved, Working, CallType
<1>2. Applied(g, observed[g]) \in Record /\ Applied(g, observed[g]).grant = g
      /\ Applied(g, observed[g]).state = "applied"
  BY <1>1 DEF Record, Applied
<1> QED
  BY <1>1, <1>2, TerminalFollows

LEMMA FailedFollows ==
    ASSUME LedgerInv, open, NEW g \in Grants, pc[g] = "finalize_failed"
    PROVE  Failed(g) \in Record /\ MayFollow(disk, Failed(g))
<1>1. grants[g] # None /\ grants[g].state = "reserved"
  BY LedgerFacts DEF CallsAreReserved, Working
<1>2. Failed(g) \in Record /\ Failed(g).grant = g /\ Failed(g).state = "failed"
  BY DEF Record, Failed, Objects
<1> QED
  BY <1>1, <1>2, TerminalFollows

LEMMA WrittenFollows ==
    ASSUME LedgerInv, open, NEW g \in Grants, NEW w \in Written(g)
    PROVE  /\ Len(disk) < MaxRecords
           /\ w = Junk \/ (w \in Record /\ MayFollow(disk, w))
<1>0. Len(disk) \in Nat
  BY LedgerFacts
<1>1. Len(disk) < MaxRecords
  BY <1>0 DEF Written
<1>2. CASE pc[g] = "reserve" /\ Unused(g)
  BY <1>0, <1>1, <1>2, ReservationFollows DEF Written
<1>3. CASE pc[g] = "finalize"
  BY <1>0, <1>1, <1>3, AppliedFollows DEF Written
<1>4. CASE pc[g] = "finalize_failed"
  BY <1>0, <1>1, <1>4, FailedFollows DEF Written
<1> QED
  BY <1>0, <1>1, <1>2, <1>3, <1>4 DEF Written

\* The file is readable with any of the tails an interrupted write leaves.
LEMMA TailReplays ==
    ASSUME LedgerInv, disk' = disk,
           \/ tail' \in {None, Junk, tail}
           \/ Len(disk) < MaxRecords /\ tail' \in Record /\ MayFollow(disk, tail')
    PROVE  Replayable(Readable)' /\ tail' \in Record \cup {None, Junk}
<1>1. /\ disk \in Seq(Record) /\ Replayable(disk) /\ Replayable(Readable)
      /\ tail \in Record \cup {None, Junk}
  BY LedgerFacts DEF FileType
<1>2. CASE tail' \in {None, Junk}
  BY <1>1, <1>2 DEF Readable
<1>3. CASE tail' = tail
  BY <1>1, <1>3 DEF Readable
<1>4. CASE Len(disk) < MaxRecords /\ tail' \in Record /\ MayFollow(disk, tail')
  BY <1>1, <1>4, ReplayableAppend DEF Readable
<1> QED
  BY <1>2, <1>3, <1>4

LEMMA AppendOkFile ==
    ASSUME LedgerInv, open, NEW r \in Record, MayFollow(disk, r), AppendOk(r),
           UNCHANGED header
    PROVE  /\ FileType' /\ disk' = Append(disk, r) /\ disk' \in Seq(Record)
           /\ grants' = Replay(disk') /\ Replayable(Readable)'
           /\ Readable' = disk' /\ synced' = Len(disk')
<1>1. /\ disk \in Seq(Record) /\ Len(disk) \in Nat /\ Replayable(disk)
      /\ grants = Replay(disk) /\ FileType
  BY LedgerFacts
<1>2. /\ disk' = Append(disk, r) /\ Len(disk) < MaxRecords
      /\ tail' \in {None, Junk} /\ grants' = [grants EXCEPT ![r.grant] = r]
      /\ synced' = Len(disk')
  BY DEF AppendOk
<1>3. disk' \in Seq(Record) /\ Len(disk') = Len(disk) + 1
  BY <1>1, <1>2, AppendFacts
<1>4. Readable' = disk'
  BY <1>2 DEF Readable
<1>5. grants' = Replay(disk')
  BY <1>1, <1>2, ReplayAppend
<1>6. Replayable(Readable)'
  BY <1>1, <1>2, <1>4, ReplayableAppend
<1>7. grants' \in [Grants -> Record \cup {None}]
  BY <1>3, <1>5, ReplayType
<1>8. FileType'
  BY <1>1, <1>2, <1>3, <1>7 DEF FileType
<1> QED
  BY <1>2, <1>3, <1>4, <1>5, <1>6, <1>8

LEMMA AppendFailsFile ==
    ASSUME LedgerInv, open, NEW r \in Record, MayFollow(disk, r),
           AppendFails(r), UNCHANGED header
    PROVE  /\ FileType' /\ UNCHANGED <<disk, synced, grants>>
           /\ Replayable(Readable)'
<1>1. /\ UNCHANGED <<disk, synced, grants>>
      /\ \/ tail' \in {None, Junk, tail}
         \/ Len(disk) < MaxRecords /\ tail' = r
  BY DEF AppendFails
<1>2. Replayable(Readable)' /\ tail' \in Record \cup {None, Junk}
  BY <1>1, TailReplays
<1>3. FileType
  BY LedgerFacts
<1> QED
  BY <1>1, <1>2, <1>3 DEF FileType

LEMMA LedgerAgain ==
    ASSUME TypeOK', (open => grants = Replay(disk))', Replayable(Readable)',
           ClosedIsIdle', BlankIsEmpty', CallsAreReserved'
    PROVE  LedgerInv'
BY DEF LedgerInv, LedgerIsTrue, MemoryIsJournal, JournalReplays

LEMMA ReserveLedger ==
    ASSUME LedgerInv, NEW g \in Grants, reserve(g)
    PROVE  LedgerInv'
<1>1. /\ TypeOK /\ FileType /\ CallType /\ ClosedIsIdle /\ BlankIsEmpty
      /\ CallsAreReserved /\ Replayable(Readable) /\ grants = Replay(disk)
      /\ open /\ pc[g] = "reserve" /\ header = "valid"
  BY LedgerFacts DEF reserve, ClosedIsIdle, BlankIsEmpty
<1>2. /\ UNCHANGED <<header, source, candidate, content, stale, open, sweep,
                     observed, crashes, edits, exchanges>>
  BY DEF reserve, tree
<1>3. /\ FileType' /\ grants' = Replay(disk') /\ Replayable(Readable)'
      /\ \/ grants' = [grants EXCEPT ![g] = Reservation(g)] /\ Goto(g, "create")
         \/ grants' = grants /\ Goto(g, "idle")
      /\ faults' \in 0..MaxFaults
  <2>1. CASE Unused(g) /\ AppendOk(Reservation(g)) /\ Goto(g, "create")
    <3>1. Reservation(g) \in Record /\ MayFollow(disk, Reservation(g))
      BY <1>1, <2>1, ReservationFollows
    <3>2. FileType' /\ grants' = Replay(disk') /\ Replayable(Readable)'
      BY <1>1, <1>2, <2>1, <3>1, AppendOkFile
    <3> QED
      BY <1>1, <2>1, <3>2 DEF AppendOk, Reservation, NoFault, CallType
  <2>2. CASE Unused(g) /\ AppendFails(Reservation(g)) /\ Goto(g, "idle")
    <3>1. Reservation(g) \in Record /\ MayFollow(disk, Reservation(g))
      BY <1>1, <2>2, ReservationFollows
    <3>2. FileType' /\ UNCHANGED <<disk, grants>> /\ Replayable(Readable)'
      BY <1>1, <1>2, <2>2, <3>1, AppendFailsFile
    <3> QED
      BY <1>1, <2>2, <3>2 DEF AppendFails, NoFault, Fault, CallType
  <2>3. CASE /\ ~Unused(g) /\ Goto(g, "idle")
             /\ UNCHANGED <<disk, tail, synced, grants, faults>>
    BY <1>1, <1>2, <2>3 DEF FileType, Readable, CallType
  <2> QED
    BY <2>1, <2>2, <2>3 DEF reserve
<1>4. CallType'
  BY <1>1, <1>2, <1>3 DEF CallType, Goto, PCs
<1>5. TypeOK'
  BY <1>1, <1>2, <1>3, <1>4, TypeParts, TypeAgain
<1>6. CallsAreReserved'
  <2>1. Reservation(g) # None /\ Reservation(g).state = "reserved"
    BY RecordFields DEF Reservation, Record
  <2> QED
    BY <1>1, <1>2, <1>3, <2>1 DEF CallsAreReserved, Goto, CallType, FileType,
       Working, Executing, Preparing
<1>7. ClosedIsIdle' /\ BlankIsEmpty'
  BY <1>1, <1>2 DEF ClosedIsIdle, BlankIsEmpty
<1> QED
  BY <1>3, <1>5, <1>6, <1>7, LedgerAgain

LEMMA FinalizeLedger ==
    ASSUME LedgerInv, NEW g \in Grants, open, NEW r \in Record,
           r.grant = g, MayFollow(disk, r),
           \/ r.state = "applied" /\ Finalize(g, r, "cleanup")
           \/ Finalize(g, r, "idle")
    PROVE  LedgerInv'
<1>1. /\ TypeOK /\ FileType /\ CallType /\ ClosedIsIdle /\ BlankIsEmpty
      /\ CallsAreReserved /\ Replayable(Readable) /\ grants = Replay(disk)
      /\ header = "valid"
  BY LedgerFacts DEF ClosedIsIdle, BlankIsEmpty
<1>2. /\ UNCHANGED <<header, source, candidate, content, stale, open, sweep,
                     observed, crashes, edits, exchanges>>
      /\ r # None
  BY RecordFields DEF Finalize, tree
<1>3. /\ FileType' /\ grants' = Replay(disk') /\ Replayable(Readable)'
      /\ \/ /\ grants' = [grants EXCEPT ![g] = r]
            /\ \/ r.state = "applied" /\ Goto(g, "cleanup")
               \/ Goto(g, "idle")
         \/ grants' = grants /\ Goto(g, "idle")
      /\ faults' \in 0..MaxFaults
  <2>1. CASE AppendOk(r)
    <3>1. FileType' /\ grants' = Replay(disk') /\ Replayable(Readable)'
      BY <1>1, <1>2, <2>1, AppendOkFile
    <3>2. \/ r.state = "applied" /\ Goto(g, "cleanup")
          \/ Goto(g, "idle")
      BY DEF Finalize
    <3> QED
      BY <1>1, <2>1, <3>1, <3>2 DEF AppendOk, NoFault, CallType
  <2>2. CASE AppendFails(r) /\ Goto(g, "idle")
    <3>1. FileType' /\ UNCHANGED <<disk, grants>> /\ Replayable(Readable)'
      BY <1>1, <1>2, <2>2, AppendFailsFile
    <3> QED
      BY <1>1, <2>2, <3>1 DEF AppendFails, NoFault, Fault, CallType
  <2> QED
    BY <2>1, <2>2 DEF Finalize
<1>4. CallType'
  BY <1>1, <1>2, <1>3 DEF CallType, Goto, PCs
<1>5. TypeOK'
  BY <1>1, <1>2, <1>3, <1>4, TypeParts, TypeAgain
<1>6. CallsAreReserved'
  BY <1>1, <1>2, <1>3 DEF CallsAreReserved, Goto, CallType, FileType, Working,
     Executing, Preparing
<1>7. ClosedIsIdle' /\ BlankIsEmpty'
  BY <1>1, <1>2 DEF ClosedIsIdle, BlankIsEmpty
<1> QED
  BY <1>3, <1>5, <1>6, <1>7, LedgerAgain

LEMMA FinalizeAppliedLedger ==
    ASSUME LedgerInv, NEW g \in Grants, finalize_applied(g)
    PROVE  LedgerInv'
<1>1. open /\ pc[g] = "finalize"
  BY LedgerFacts DEF finalize_applied, ClosedIsIdle
<1>2. /\ Applied(g, observed[g]) \in Record
      /\ MayFollow(disk, Applied(g, observed[g]))
  BY <1>1, AppliedFollows
<1>3. Applied(g, observed[g]).grant = g /\ Applied(g, observed[g]).state = "applied"
  BY DEF Applied
<1> QED
  BY <1>1, <1>2, <1>3, FinalizeLedger DEF finalize_applied

LEMMA FinalizeFailedLedger ==
    ASSUME LedgerInv, NEW g \in Grants, finalize_failed(g)
    PROVE  LedgerInv'
<1>1. open /\ pc[g] = "finalize_failed"
  BY LedgerFacts DEF finalize_failed, ClosedIsIdle
<1>2. Failed(g) \in Record /\ MayFollow(disk, Failed(g))
  BY <1>1, FailedFollows
<1>3. Failed(g).grant = g
  BY DEF Failed
<1> QED
  BY <1>1, <1>2, <1>3, FinalizeLedger DEF finalize_failed

LEMMA OpenLedger ==
    ASSUME LedgerInv, open_journal
    PROVE  LedgerInv'
<1>1. /\ TypeOK /\ FileType /\ CallType /\ ClosedIsIdle /\ BlankIsEmpty
      /\ CallsAreReserved /\ Readable \in Seq(Record) /\ Replayable(Readable)
      /\ ~open /\ disk \in Seq(Record) /\ Len(disk) \in Nat
      /\ synced \in 0..Len(disk)
  BY LedgerFacts DEF open_journal
<1>2. UNCHANGED <<synced, source, candidate, content, stale, sweep, pc,
                  observed, faults, crashes, edits, exchanges>>
  BY DEF open_journal, tree
<1>3. grants = [g \in Grants |-> None] /\ sweep = {}
      /\ \A g \in Grants : pc[g] = "idle"
  BY <1>1 DEF ClosedIsIdle
<1>4. CASE /\ header = "absent" /\ UNCHANGED <<disk, tail, grants>>
           /\ \/ header' = "valid" /\ open' = TRUE
              \/ header' = "blank" /\ open' = FALSE
  <2>1. disk = <<>> /\ tail = None
    BY <1>1, <1>4 DEF BlankIsEmpty
  <2>2. (open => grants = Replay(disk))'
    BY <1>3, <1>4, <2>1, ReplayEmpty
  <2>3. FileType' /\ CallType' /\ Replayable(Readable)'
    BY <1>1, <1>2, <1>4 DEF FileType, CallType, Readable
  <2>4. TypeOK'
    BY <1>1, <1>2, <2>3, TypeParts, TypeAgain
  <2>5. ClosedIsIdle' /\ BlankIsEmpty' /\ CallsAreReserved'
    BY <1>1, <1>2, <1>3, <1>4, <2>1 DEF ClosedIsIdle, BlankIsEmpty,
       CallsAreReserved, Working, Executing, Preparing
  <2> QED
    BY <2>2, <2>3, <2>4, <2>5, LedgerAgain
<1>5. CASE /\ header = "valid" /\ disk' = Readable /\ tail' = None
           /\ grants' = Replay(Readable) /\ open' = TRUE /\ UNCHANGED header
  <2>1. Readable' = disk' /\ Replayable(Readable)'
    BY <1>1, <1>5 DEF Readable
  <2>2. grants' \in [Grants -> Record \cup {None}]
    BY <1>1, <1>5, ReplayType
  <2>3. Len(Readable) <= MaxRecords /\ Len(disk) <= Len(Readable)
        /\ Len(Readable) \in Nat
    BY <1>1, AppendFacts DEF Replayable, Readable
  <2>4. FileType' /\ CallType'
    BY <1>1, <1>2, <1>5, <2>2, <2>3 DEF FileType, CallType
  <2>5. TypeOK'
    BY <1>1, <1>2, <2>4, TypeParts, TypeAgain
  <2>6. ClosedIsIdle' /\ BlankIsEmpty' /\ CallsAreReserved'
    BY <1>1, <1>2, <1>3, <1>5 DEF ClosedIsIdle, BlankIsEmpty,
       CallsAreReserved, Working, Executing, Preparing
  <2> QED
    BY <1>5, <2>1, <2>5, <2>6, LedgerAgain
<1> QED
  BY <1>4, <1>5 DEF open_journal

LEMMA CrashLedger ==
    ASSUME LedgerInv, Crash
    PROVE  LedgerInv'
<1>1. /\ TypeOK /\ FileType /\ CallType /\ BlankIsEmpty
      /\ Replayable(disk) /\ open /\ header = "valid" /\ header' = header
      /\ disk \in Seq(Record) /\ Len(disk) \in Nat /\ synced \in 0..Len(disk)
  BY LedgerFacts DEF Crash, BlankIsEmpty
<1>2. /\ open' = FALSE /\ sweep' = {} /\ grants' = [g \in Grants |-> None]
      /\ pc' = [g \in Grants |-> "idle"] /\ observed' = [g \in Grants |-> None]
  BY DEF Crash
<1>3. CallType'
  <2>1. crashes' \in 0..MaxCrashes /\ UNCHANGED <<faults, edits, exchanges>>
    BY <1>1 DEF Crash, CallType
  <2> QED
    BY <1>1, <1>2, <2>1 DEF CallType, PCs
<1>4. /\ disk' \in Seq(Record) /\ Len(disk') <= MaxRecords
      /\ synced' \in 0..Len(disk')
      /\ Replayable(Readable)' /\ tail' \in Record \cup {None, Junk}
  <2>1. CASE /\ disk' = disk /\ synced' \in 0..Len(disk)
             /\ tail' \in {None, tail} \cup UNION {Written(g) : g \in Grants}
    <3>1. \/ tail' \in {None, Junk, tail}
          \/ Len(disk) < MaxRecords /\ tail' \in Record /\ MayFollow(disk, tail')
      BY <1>1, <2>1, WrittenFollows
    <3> QED
      BY <1>1, <2>1, <3>1, TailReplays DEF FileType
  <2>2. CASE \E n \in 0..Len(disk) :
               /\ disk' = SubSeq(disk, 1, n) /\ synced' = n /\ n < Len(disk)
               /\ tail' \in {None, Junk}
    <3>1. PICK n \in 0..Len(disk) :
               /\ disk' = SubSeq(disk, 1, n) /\ synced' = n /\ n < Len(disk)
               /\ tail' \in {None, Junk}
      BY <2>2
    <3>2. disk' \in Seq(Record) /\ Len(disk') = n /\ Replayable(disk')
      BY <1>1, <3>1, CutFacts, ReplayableCut
    <3>3. Readable' = disk'
      BY <3>1 DEF Readable
    <3> QED
      BY <1>1, <3>1, <3>2, <3>3 DEF Replayable
  <2>3. CASE PowerLoss
    <3>1. PICK n \in synced..Len(disk) :
               disk' = SubSeq(disk, 1, n) /\ synced' = n
      BY <2>3 DEF PowerLoss
    <3>2. n \in 0..Len(disk) /\ Len(disk') = n
      BY <1>1, <3>1, CutFacts
    <3>3. n = Len(disk) => disk' = disk
      BY <1>1, <3>1
    <3> QED
      BY <2>1, <2>2, <2>3, <3>1, <3>2, <3>3 DEF PowerLoss
  <2> QED
    BY <1>1, <2>1, <2>3 DEF Crash
<1>5. FileType'
  BY <1>1, <1>2, <1>4 DEF FileType
<1>6. /\ source' \in Objects /\ candidate' \in [Grants -> Objects \cup {None}]
      /\ content' \in [Objects -> Trees \cup {None}] /\ stale' \subseteq Pasts
  <2>1. CASE UNCHANGED <<tree, stale>>
    BY <1>1, <2>1, TypeParts DEF tree, Pasts
  <2>2. CASE PowerLoss
    <3>1. PICK past \in Pasts :
            source' = past[1] /\ candidate' = past[2] /\ content' = past[3]
      BY <2>2 DEF PowerLoss, Pasts
    <3>2. TreeType(past)
      <4>1. TreeType(tree)
        BY <1>1 DEF TypeOK, TreeType, tree
      <4> QED
        BY <1>1, <3>1, <4>1, TypeParts DEF Pasts
    <3> QED
      BY <2>2, <3>1, <3>2 DEF PowerLoss, TreeType
  <2> QED
    BY <2>1, <2>2 DEF Crash
<1>7. TypeOK'
  BY <1>1, <1>3, <1>5, <1>6, StaleType, TypeAgain
<1>8. ClosedIsIdle' /\ BlankIsEmpty' /\ CallsAreReserved'
  BY <1>1, <1>2 DEF ClosedIsIdle, BlankIsEmpty, CallsAreReserved, Working,
     Executing, Preparing
<1> QED
  BY <1>2, <1>4, <1>7, <1>8, LedgerAgain

LEMMA OtherLedger ==
    ASSUME LedgerInv, reconcile \/ edit \/ UNCHANGED vars
    PROVE  LedgerInv'
<1>1. /\ TypeOK /\ FileType /\ CallType /\ ClosedIsIdle /\ CallsAreReserved
      /\ source \in Objects /\ candidate \in [Grants -> Objects \cup {None}]
      /\ content \in [Objects -> Trees \cup {None}]
  BY LedgerFacts, TypeParts
<1>2. UNCHANGED <<file, open, grants, pc, observed, source, candidate>>
  BY DEF reconcile, edit, vars, tree, memory
<1>3. CallType' /\ FileType'
  BY <1>1, <1>2 DEF reconcile, edit, vars, memory, CallType, FileType, file
<1>4. content' \in [Objects -> Trees \cup {None}] /\ stale' \subseteq Pasts
  BY <1>1 DEF reconcile, edit, vars, tree, Trees, Unsynced, Pasts
<1>5. TypeOK'
  BY <1>1, <1>2, <1>3, <1>4, StaleType, TypeAgain
<1>6. ClosedIsIdle'
  BY <1>1, <1>2 DEF reconcile, edit, vars, memory, ClosedIsIdle
<1>7. CallsAreReserved'
  BY <1>1, <1>2 DEF reconcile, edit, vars, memory, CallsAreReserved
<1> QED
  BY <1>2, <1>5, <1>6, <1>7, LedgerFrame

LEMMA NextLedger == LedgerInv /\ [Next]_vars => LedgerInv'
BY OtherLedger, CrashLedger, OpenLedger, ReserveLedger, FinalizeAppliedLedger,
   FinalizeFailedLedger, ExecuteAuthorizedChangeApplyLedger,
   CreateCandidateLedger, CopyStagedTreeLedger, CheckSourceLedger,
   ExchangeLedger, SyncExchangeLedger, VerifyExchangeLedger, UnwindLedger,
   InspectLedger, DiscardLedger, CleanupLedger, RecoverPendingChangeApplyLedger,
   FinalizeCommittedChangeApplyRecoveryLedger, ReconcileRecordLedger
   DEF Next, Step

LEMMA InitLedger == Init => LedgerInv
<1> SUFFICES ASSUME Init PROVE LedgerInv
  OBVIOUS
<1>1. TypeOK
  <2>1. disk \in Seq(Record) /\ Len(disk) = 0
    BY DEF Init
  <2>2. content \in [Objects -> Trees \cup {None}] /\ source \in Objects
    BY DEF Init, Trees, Objects
  <2>3. grants \in [Grants -> Record \cup {None}]
        /\ pc \in [Grants -> PCs] /\ exchanges \in [Grants -> Nat]
    BY DEF Init, PCs
  <2>4. /\ candidate \in [Grants -> Objects \cup {None}]
        /\ observed \in [Grants -> Objects \cup {None}]
    BY DEF Init
  <2>5. /\ synced \in 0..Len(disk) /\ Len(disk) <= MaxRecords
        /\ faults \in 0..MaxFaults /\ crashes \in 0..MaxCrashes
        /\ edits \in 0..MaxEdits
    BY <2>1 DEF Init
  <2>6. /\ header \in {"absent", "blank", "valid"}
        /\ tail \in Record \cup {None, Junk}
        /\ stale = {} /\ open \in BOOLEAN /\ sweep \subseteq Grants
    BY DEF Init
  <2> QED
    BY <2>1, <2>2, <2>3, <2>4, <2>5, <2>6 DEF TypeOK
<1>2. Replay(disk) = [g \in Grants |-> None] /\ Readable = <<>>
  BY ReplayEmpty DEF Init, Readable
<1>3. Replayable(<<>>)
  BY DEF Replayable
<1> QED
  BY <1>1, <1>2, <1>3 DEF Init, LedgerInv, LedgerIsTrue, MemoryIsJournal,
     JournalReplays, ClosedIsIdle, BlankIsEmpty, CallsAreReserved, Working,
     Executing, Preparing

---------------------------------------------------------------------------
(* The exchange.                                                           *)

\* Moved and WellFormed of the file system as it is.
Away(h) == source = h \/ \E k \in Grants \ {h} : candidate[k] = h
WellNow ==
    /\ \A h \in Grants : candidate[h] # source
    /\ \A g, h \in Grants : g # h /\ candidate[g] = candidate[h]
                               => candidate[g] = None
    /\ source = Original => \A h \in Grants : candidate[h] \in {None, h}
    /\ \A h \in Grants :
          /\ Away(h) \/ candidate[h] \notin {None, h} => exchanges[h] = 1
          /\ ~Away(h) => content[h] \in {None, "part", Staged(h)}

LEMMA AwayIsMoved ==
    ASSUME NEW h \in Grants PROVE Moved(tree, h) <=> Away(h)
BY DEF Moved, Away, tree

LEMMA AwayAgain ==
    ASSUME NEW h \in Grants PROVE Moved(tree', h) <=> Away(h)'
BY DEF Moved, Away, tree

LEMMA WellNowIs == WellFormed(tree) => WellNow
<1>1. tree[1] = source /\ tree[2] = candidate /\ tree[3] = content
  BY DEF tree
<1> QED
  BY <1>1, AwayIsMoved, Zenon DEF WellFormed, WellNow

LEMMA WellAgain ==
    ASSUME WellNow', NEW t, t = tree' PROVE WellFormed(t)'
<1>1. t[1] = source' /\ t[2] = candidate' /\ t[3] = content'
  BY DEF tree
<1>2. \A h \in Grants : Moved(t, h) <=> Away(h)'
  BY AwayAgain
<1> QED
  BY <1>1, <1>2, Zenon DEF WellFormed, WellNow, Staged

\* A file system stays well formed: an exchange is made once.
LEMMA WellStays ==
    ASSUME NEW t, WellFormed(t),
           \A h \in Grants : exchanges[h] = 1 => exchanges'[h] = 1
    PROVE  WellFormed(t)'
BY Zenon DEF WellFormed, Moved, Staged

LEMMA PastsGrow ==
    ASSUME stale' \subseteq Pasts
    PROVE  Pasts' \subseteq Pasts \cup {tree'}
BY DEF Pasts

\* A copy that cannot become live stays so unless it is exchanged.
LEMMA CleanStays ==
    ASSUME NEW h \in Grants, Clean(h), stale' \subseteq Pasts,
           Away(h)' => Away(h)
    PROVE  Clean(h)'
<1>1. ~Away(h)
  BY AwayIsMoved DEF Clean, Pasts
<1>2. ~Moved(tree', h)
  BY <1>1, AwayAgain
<1>3. \A t \in Pasts' : ~Moved(t, h)
  BY <1>2, PastsGrow DEF Clean
<1> QED
  BY <1>3 DEF Clean

LEMMA ApplyFacts ==
    ASSUME ApplyInv
    PROVE  /\ LedgerInv /\ TypeOK /\ FileType /\ CallType /\ CallsAreReserved
           /\ source \in Objects /\ candidate \in [Grants -> Objects \cup {None}]
           /\ content \in [Objects -> Trees \cup {None}]
           /\ UsesAreReserved /\ WellNow /\ OriginalStaysAway
           /\ CandidatesAreOwn /\ RecordsAreTrue
BY LedgerFacts, TypeParts, WellNowIs DEF ApplyInv, Pasts

\* While the copy of a call is unmoved, it has its own name and no other.
LEMMA OwnIsHome ==
    ASSUME ApplyInv, NEW g \in Grants, candidate[g] = g
    PROVE  ~Away(g)
BY ApplyFacts DEF WellNow, Away

\* A step that leaves the ledger's file alone.
LEMMA StepApply ==
    ASSUME ApplyInv, LedgerInv', UNCHANGED file, stale' \subseteq Pasts,
           WellNow', UsesAreReserved', CandidatesAreOwn', OriginalStaysAway',
           \A h \in Grants : exchanges[h] = 1 => exchanges'[h] = 1,
           \A h \in Grants : pc'[h] = "finalize_failed" => Clean(h)',
           \A r \in Entries(Readable) :
              r.state = "failed" => (Away(r.grant)' => Away(r.grant))
    PROVE  ApplyInv'
<1>1. ASSUME NEW t \in Pasts' PROVE WellFormed(t)'
  <2>1. CASE t \in Pasts
    BY <2>1, WellStays DEF ApplyInv
  <2>2. CASE t = tree'
    BY <2>2, WellAgain
  <2> QED
    BY <2>1, <2>2, PastsGrow
<1>2. Readable' = Readable
  BY DEF Readable, file
<1>3. /\ Readable \in Seq(Record) /\ RecordsAreTrue
  BY ApplyFacts, LedgerFacts
<1>4. \A r \in Entries(Readable) : r.grant \in Grants
  BY <1>3, RecordFields DEF Entries
<1>5. ASSUME NEW r \in Entries(Readable')
      PROVE  /\ r.state = "applied" => exchanges'[r.grant] = 1
             /\ r.state = "failed" => Clean(r.grant)'
  BY <1>2, <1>3, <1>4, CleanStays DEF RecordsAreTrue
<1>6. RecordsAreTrue'
  BY <1>5 DEF RecordsAreTrue
<1> QED
  BY <1>1, <1>6 DEF ApplyInv

\* One that leaves the directory alone as well.
LEMMA QuietApply ==
    ASSUME ApplyInv, LedgerInv', UNCHANGED <<file, tree, exchanges>>,
           stale' \subseteq stale, UsesAreReserved', CandidatesAreOwn',
           \A h \in Grants : pc'[h] = "finalize_failed" => Clean(h)
    PROVE  ApplyInv'
<1>1. UNCHANGED <<source, candidate, content>> /\ stale' \subseteq Pasts
  BY DEF tree, Pasts
<1>2. \A h \in Grants : Away(h)' <=> Away(h)
  BY <1>1 DEF Away
<1>3. WellNow'
  BY <1>1, <1>2, ApplyFacts, Zenon DEF WellNow, Staged
<1>4. OriginalStaysAway'
  BY <1>1, ApplyFacts DEF OriginalStaysAway
<1>5. \A h \in Grants : pc'[h] = "finalize_failed" => Clean(h)'
  BY <1>1, <1>2, CleanStays
<1>6. \A r \in Entries(Readable) : r.grant \in Grants
  BY ApplyFacts, LedgerFacts, RecordFields DEF Entries
<1> QED
  BY <1>1, <1>2, <1>3, <1>4, <1>5, <1>6, StepApply

LEMMA ExecuteAuthorizedChangeApplyApply ==
    ASSUME ApplyInv, LedgerInv', NEW g \in Grants,
           execute_authorized_change_apply(g)
    PROVE  ApplyInv'
<1>1. /\ LedgerInv /\ CallType /\ CallsAreReserved /\ UsesAreReserved
      /\ CandidatesAreOwn /\ RecordsAreTrue
  BY ApplyFacts
<1>2. UNCHANGED <<file, tree, exchanges>> /\ stale' \subseteq stale
  BY DEF execute_authorized_change_apply, Goto
<1>3. Readable' = Readable /\ UNCHANGED <<disk, synced, candidate, content>>
  BY <1>2 DEF Readable, file, tree
<1>4. UsesAreReserved'
  BY <1>1, <1>2, <1>3 DEF execute_authorized_change_apply, Goto,
     UsesAreReserved, CallType,
     Executing, Preparing
<1>5. CandidatesAreOwn'
  BY <1>1, <1>3 DEF execute_authorized_change_apply, Goto, CandidatesAreOwn,
     CallsAreReserved,
     CallType, Preparing, Staged
<1>6. \A h \in Grants : pc'[h] = "finalize_failed" => Clean(h)
  BY <1>1 DEF execute_authorized_change_apply, Goto, RecordsAreTrue, CallType
<1> QED
  BY <1>2, <1>4, <1>5, <1>6, QuietApply

LEMMA CheckSourceApply ==
    ASSUME ApplyInv, LedgerInv', NEW g \in Grants, check_source(g)
    PROVE  ApplyInv'
<1>1. /\ LedgerInv /\ CallType /\ CallsAreReserved /\ UsesAreReserved
      /\ CandidatesAreOwn /\ RecordsAreTrue
  BY ApplyFacts
<1>2. UNCHANGED <<file, tree, exchanges>> /\ stale' \subseteq stale
  BY DEF check_source, Goto, Fault, NoFault
<1>3. Readable' = Readable /\ UNCHANGED <<disk, synced, candidate, content>>
  BY <1>2 DEF Readable, file, tree
<1>4. UsesAreReserved'
  BY <1>1, <1>2, <1>3 DEF check_source, Goto, Fault, NoFault,
     UsesAreReserved, CallType,
     Executing, Preparing
<1>5. CandidatesAreOwn'
  BY <1>1, <1>3 DEF check_source, Goto, Fault, NoFault, CandidatesAreOwn,
     CallsAreReserved,
     CallType, Preparing, Staged
<1>6. \A h \in Grants : pc'[h] = "finalize_failed" => Clean(h)
  BY <1>1 DEF check_source, Goto, Fault, NoFault, RecordsAreTrue, CallType
<1> QED
  BY <1>2, <1>4, <1>5, <1>6, QuietApply

LEMMA SyncExchangeApply ==
    ASSUME ApplyInv, LedgerInv', NEW g \in Grants, sync_exchange(g)
    PROVE  ApplyInv'
<1>1. /\ LedgerInv /\ CallType /\ CallsAreReserved /\ UsesAreReserved
      /\ CandidatesAreOwn /\ RecordsAreTrue
  BY ApplyFacts
<1>2. UNCHANGED <<file, tree, exchanges>> /\ stale' \subseteq stale
  BY DEF sync_exchange, Goto, Fault, NoFault, Synced
<1>3. Readable' = Readable /\ UNCHANGED <<disk, synced, candidate, content>>
  BY <1>2 DEF Readable, file, tree
<1>4. UsesAreReserved'
  BY <1>1, <1>2, <1>3 DEF sync_exchange, Goto, Fault, NoFault, Synced,
     UsesAreReserved, CallType,
     Executing, Preparing
<1>5. CandidatesAreOwn'
  BY <1>1, <1>3 DEF sync_exchange, Goto, Fault, NoFault, Synced,
     CandidatesAreOwn, CallsAreReserved,
     CallType, Preparing, Staged
<1>6. \A h \in Grants : pc'[h] = "finalize_failed" => Clean(h)
  BY <1>1 DEF sync_exchange, Goto, Fault, NoFault, Synced, RecordsAreTrue,
     CallType
<1> QED
  BY <1>2, <1>4, <1>5, <1>6, QuietApply

LEMMA VerifyExchangeApply ==
    ASSUME ApplyInv, LedgerInv', NEW g \in Grants, verify_exchange(g)
    PROVE  ApplyInv'
<1>1. /\ LedgerInv /\ CallType /\ CallsAreReserved /\ UsesAreReserved
      /\ CandidatesAreOwn /\ RecordsAreTrue
  BY ApplyFacts
<1>2. UNCHANGED <<file, tree, exchanges>> /\ stale' \subseteq stale
  BY DEF verify_exchange, Goto, Fault, NoFault
<1>3. Readable' = Readable /\ UNCHANGED <<disk, synced, candidate, content>>
  BY <1>2 DEF Readable, file, tree
<1>4. UsesAreReserved'
  BY <1>1, <1>2, <1>3 DEF verify_exchange, Goto, Fault, NoFault,
     UsesAreReserved, CallType,
     Executing, Preparing
<1>5. CandidatesAreOwn'
  BY <1>1, <1>3 DEF verify_exchange, Goto, Fault, NoFault, CandidatesAreOwn,
     CallsAreReserved,
     CallType, Preparing, Staged
<1>6. \A h \in Grants : pc'[h] = "finalize_failed" => Clean(h)
  BY <1>1 DEF verify_exchange, Goto, Fault, NoFault, RecordsAreTrue, CallType
<1> QED
  BY <1>2, <1>4, <1>5, <1>6, QuietApply

LEMMA RecoverPendingChangeApplyApply ==
    ASSUME ApplyInv, LedgerInv', NEW g \in Grants, recover_pending_change_apply(g)
    PROVE  ApplyInv'
<1>1. /\ LedgerInv /\ CallType /\ CallsAreReserved /\ UsesAreReserved
      /\ CandidatesAreOwn /\ RecordsAreTrue
  BY ApplyFacts
<1>2. UNCHANGED <<file, tree, exchanges>> /\ stale' \subseteq stale
  BY DEF recover_pending_change_apply, Recover, Goto
<1>3. Readable' = Readable /\ UNCHANGED <<disk, synced, candidate, content>>
  BY <1>2 DEF Readable, file, tree
<1>4. UsesAreReserved'
  BY <1>1, <1>2, <1>3 DEF recover_pending_change_apply, Recover, Goto,
     UsesAreReserved, CallType,
     Executing, Preparing
<1>5. CandidatesAreOwn'
  BY <1>1, <1>3 DEF recover_pending_change_apply, Recover, Goto,
     CandidatesAreOwn, CallsAreReserved,
     CallType, Preparing, Staged
<1>6. \A h \in Grants : pc'[h] = "finalize_failed" => Clean(h)
  BY <1>1 DEF recover_pending_change_apply, Recover, Goto, RecordsAreTrue,
     CallType
<1> QED
  BY <1>2, <1>4, <1>5, <1>6, QuietApply

LEMMA FinalizeCommittedChangeApplyRecoveryApply ==
    ASSUME ApplyInv, LedgerInv', NEW g \in Grants,
           finalize_committed_change_apply_recovery(g)
    PROVE  ApplyInv'
<1>1. /\ LedgerInv /\ CallType /\ CallsAreReserved /\ UsesAreReserved
      /\ CandidatesAreOwn /\ RecordsAreTrue
  BY ApplyFacts
<1>2. UNCHANGED <<file, tree, exchanges>> /\ stale' \subseteq stale
  BY DEF finalize_committed_change_apply_recovery, Recover, Goto
<1>3. Readable' = Readable /\ UNCHANGED <<disk, synced, candidate, content>>
  BY <1>2 DEF Readable, file, tree
<1>4. UsesAreReserved'
  BY <1>1, <1>2, <1>3 DEF finalize_committed_change_apply_recovery, Recover,
     Goto, UsesAreReserved, CallType,
     Executing, Preparing
<1>5. CandidatesAreOwn'
  BY <1>1, <1>3 DEF finalize_committed_change_apply_recovery, Recover, Goto,
     CandidatesAreOwn, CallsAreReserved,
     CallType, Preparing, Staged
<1>6. \A h \in Grants : pc'[h] = "finalize_failed" => Clean(h)
  BY <1>1 DEF finalize_committed_change_apply_recovery, Recover, Goto,
     RecordsAreTrue, CallType
<1> QED
  BY <1>2, <1>4, <1>5, <1>6, QuietApply

LEMMA ReconcileRecordApply ==
    ASSUME ApplyInv, LedgerInv', NEW g \in Grants, reconcile_record(g)
    PROVE  ApplyInv'
<1>1. /\ LedgerInv /\ CallType /\ CallsAreReserved /\ UsesAreReserved
      /\ CandidatesAreOwn /\ RecordsAreTrue
  BY ApplyFacts
<1>0. /\ grants[g] # None
      /\ StateOf(g) \in {"reserved", "applied", "failed"}
  BY <1>1, LedgerFacts, RecordFields DEF reconcile_record, CallsAreReserved,
     FileType, StateOf
<1>2. UNCHANGED <<file, tree, exchanges>> /\ stale' \subseteq stale
  BY DEF reconcile_record, Goto, Fault, NoFault
<1>3. Readable' = Readable /\ UNCHANGED <<disk, synced, candidate, content>>
  BY <1>2 DEF Readable, file, tree
<1>4. UsesAreReserved'
  BY <1>1, <1>0, <1>2, <1>3 DEF reconcile_record, Goto, Fault, NoFault,
     UsesAreReserved, CallType,
     Executing, Preparing
<1>5. CandidatesAreOwn'
  BY <1>1, <1>0, <1>3 DEF reconcile_record, Goto, Fault, NoFault,
     CandidatesAreOwn, CallsAreReserved,
     CallType, Preparing, Staged
<1>6. \A h \in Grants : pc'[h] = "finalize_failed" => Clean(h)
  BY <1>1, <1>0 DEF reconcile_record, Goto, Fault, NoFault, RecordsAreTrue,
     CallType
<1> QED
  BY <1>2, <1>4, <1>5, <1>6, QuietApply

\* A call that gives up, or sees that there is nothing to do.
LEMMA LeaveApply ==
    ASSUME ApplyInv, LedgerInv', NEW g \in Grants, NEW to,
           to \in {"idle", "inspect"}, Goto(g, to),
           UNCHANGED <<file, tree, stale, open, grants, sweep, observed,
                       exchanges>>
    PROVE  ApplyInv'
<1>1. /\ LedgerInv /\ CallType /\ UsesAreReserved /\ CandidatesAreOwn
      /\ RecordsAreTrue
  BY ApplyFacts
<1>3. Readable' = Readable /\ UNCHANGED <<disk, synced, candidate, content>>
  BY DEF Readable, file, tree
<1>4. UsesAreReserved'
  BY <1>1, <1>3 DEF Goto, UsesAreReserved, CallType, Executing, Preparing
<1>5. CandidatesAreOwn'
  BY <1>1, <1>3 DEF Goto, CandidatesAreOwn, CallType, Preparing, Staged
<1>6. \A h \in Grants : pc'[h] = "finalize_failed" => Clean(h)
  BY <1>1 DEF Goto, RecordsAreTrue, CallType
<1> QED
  BY <1>4, <1>5, <1>6, QuietApply

\* An entry classified as exchanged was: a copy that is still under its own
\* name holds the stage, which is not the baseline.
LEMMA CommittedIsExchanged ==
    ASSUME ApplyInv, NEW g \in Grants, classify(g) = "exchange_committed"
    PROVE  exchanges[g] = 1
<1>1. candidate[g] # None /\ content[candidate[g]] = "baseline"
      /\ content[source] = Staged(g) /\ Staged(g) # "baseline"
  BY DEF classify
<1>2. CASE candidate[g] = g
  BY <1>1, <1>2, ApplyFacts, OwnIsHome DEF WellNow
<1>3. CASE candidate[g] # g
  BY <1>1, <1>3, ApplyFacts DEF WellNow
<1> QED
  BY <1>2, <1>3

\* While the original is live, and only a loss of power could bring it back,
\* no copy has been moved in any file system that may come back.
LEMMA OriginalIsClean ==
    ASSUME ApplyInv, source = Original, NEW g \in Grants
    PROVE  Clean(g)
<1>1. \A t \in Pasts : t[1] = Original
  BY ApplyFacts DEF OriginalStaysAway, Pasts, tree
<1>2. \A t \in Pasts : \A h \in Grants : t[2][h] \in {None, h}
  BY <1>1 DEF ApplyInv, WellFormed
<1>3. ASSUME NEW t \in Pasts PROVE ~Moved(t, g)
  BY <1>1, <1>2 DEF Moved
<1> QED
  BY <1>3 DEF Clean

LEMMA InspectApply ==
    ASSUME ApplyInv, LedgerInv', NEW g \in Grants, inspect(g)
    PROVE  ApplyInv'
<1>1. /\ LedgerInv /\ CallType /\ CallsAreReserved /\ UsesAreReserved
      /\ CandidatesAreOwn /\ RecordsAreTrue
  BY ApplyFacts
<1>2. UNCHANGED <<file, tree, exchanges>> /\ stale' \subseteq stale
  BY DEF inspect
<1>3. Readable' = Readable /\ UNCHANGED <<disk, synced, candidate, content>>
  BY <1>2 DEF Readable, file, tree
<1>4. \E to \in {"finalize", "discard", "finalize_failed", "idle"} :
        /\ pc' = [pc EXCEPT ![g] = to]
        /\ to = "finalize" => exchanges[g] = 1
        /\ to = "finalize_failed" => Clean(g)
  BY CommittedIsExchanged, OriginalIsClean DEF inspect, Goto
<1>5. UsesAreReserved'
  BY <1>1, <1>2, <1>3, <1>4 DEF UsesAreReserved, CallType, Executing, Preparing
<1>6. CandidatesAreOwn'
  BY <1>1, <1>3, <1>4 DEF CandidatesAreOwn, CallType, Staged
<1>7. \A h \in Grants : pc'[h] = "finalize_failed" => Clean(h)
  BY <1>1, <1>4 DEF RecordsAreTrue, CallType
<1> QED
  BY <1>2, <1>5, <1>6, <1>7, QuietApply

LEMMA CreateCandidateApply ==
    ASSUME ApplyInv, LedgerInv', NEW g \in Grants, create_candidate(g)
    PROVE  ApplyInv'
<1>1. /\ LedgerInv /\ CallType /\ UsesAreReserved /\ CandidatesAreOwn
      /\ RecordsAreTrue /\ WellNow /\ OriginalStaysAway
      /\ source \in Objects /\ candidate \in [Grants -> Objects \cup {None}]
      /\ content \in [Objects -> Trees \cup {None}]
  BY ApplyFacts
<1>2. UNCHANGED <<file, source, exchanges>> /\ pc[g] = "create"
  BY DEF create_candidate
<1>3. Readable' = Readable /\ UNCHANGED <<disk, synced>>
  BY <1>2 DEF Readable, file
<1>4. UsesAreReserved'
  BY <1>1, <1>2, <1>3 DEF create_candidate, Goto, UsesAreReserved, CallType,
     Executing, Preparing
<1>5. \A h \in Grants : pc'[h] = "finalize_failed" => pc[h] = "finalize_failed"
  BY <1>1 DEF create_candidate, Goto, CallType
<1>6. CASE UNCHANGED <<candidate, content, stale>>
  <2>1. CandidatesAreOwn'
    BY <1>1, <1>6 DEF create_candidate, Goto, CandidatesAreOwn, CallType, Staged
  <2> QED
    BY <1>1, <1>2, <1>4, <1>5, <1>6, <2>1, QuietApply DEF tree, RecordsAreTrue
<1>7. CASE /\ Eligible(g) /\ candidate[g] = None
           /\ candidate' = [candidate EXCEPT ![g] = g]
           /\ content' = [content EXCEPT ![g] = "part"]
           /\ Unsynced /\ Goto(g, "copy")
  <2>1. source = Original /\ \A h \in Grants : candidate[h] \in {None, h}
    BY <1>1, <1>7 DEF Eligible, WellNow
  <2>2. \A h \in Grants : candidate'[h] \in {None, h}
    BY <1>1, <1>7, <2>1
  <2>3. \A h \in Grants : ~Away(h) /\ ~Away(h)'
    BY <1>2, <2>1, <2>2 DEF Away
  <2>4. \A h \in Grants : content'[h] \in {content[h], "part"}
    BY <1>1, <1>7
  <2>5. WellNow'
    BY <1>1, <1>2, <2>1, <2>2, <2>3, <2>4 DEF WellNow, Staged
  <2>6. stale' \subseteq Pasts /\ OriginalStaysAway'
    BY <1>1, <1>2, <1>7, <2>1 DEF Unsynced, Pasts, OriginalStaysAway, tree
  <2>7. CandidatesAreOwn'
    BY <1>1, <1>7, <2>1 DEF Goto, CandidatesAreOwn, CallType, Staged, Objects
  <2>8. \A h \in Grants : pc'[h] = "finalize_failed" => Clean(h)'
    BY <1>1, <1>5, <2>3, <2>6, CleanStays DEF RecordsAreTrue
  <2>9. \A r \in Entries(Readable) : r.grant \in Grants
    BY <1>1, LedgerFacts, RecordFields DEF Entries
  <2> QED
    BY <1>2, <1>4, <2>3, <2>5, <2>6, <2>7, <2>8, <2>9, StepApply
<1> QED
  BY <1>6, <1>7 DEF create_candidate

LEMMA CopyStagedTreeApply ==
    ASSUME ApplyInv, LedgerInv', NEW g \in Grants, copy_staged_tree(g)
    PROVE  ApplyInv'
<1>1. /\ LedgerInv /\ CallType /\ UsesAreReserved /\ CandidatesAreOwn
      /\ RecordsAreTrue /\ WellNow /\ OriginalStaysAway /\ CallsAreReserved
      /\ source \in Objects /\ candidate \in [Grants -> Objects \cup {None}]
      /\ content \in [Objects -> Trees \cup {None}]
  BY ApplyFacts
<1>2. UNCHANGED <<file, source, candidate, exchanges>> /\ pc[g] = "copy"
  BY DEF copy_staged_tree
<1>3. Readable' = Readable /\ UNCHANGED <<disk, synced>> /\ candidate[g] = g
  BY <1>1, <1>2 DEF Readable, file, CallsAreReserved, Preparing
<1>4. UsesAreReserved'
  BY <1>1, <1>2, <1>3 DEF copy_staged_tree, Goto, UsesAreReserved, CallType,
     Executing, Preparing
<1>5. \A h \in Grants : pc'[h] = "finalize_failed" => pc[h] = "finalize_failed"
  BY <1>1 DEF copy_staged_tree, Goto, CallType
<1>6. CASE UNCHANGED <<content, stale>> /\ Goto(g, "unwind")
  <2>1. CandidatesAreOwn'
    BY <1>1, <1>2, <1>6 DEF Goto, CandidatesAreOwn, CallType, Staged
  <2> QED
    BY <1>1, <1>2, <1>4, <1>5, <1>6, <2>1, QuietApply DEF tree, RecordsAreTrue
<1>7. CASE /\ content' = [content EXCEPT ![g] = Staged(g)]
           /\ Synced /\ Goto(g, "check")
  <2>1. \A h \in Grants : Away(h)' <=> Away(h)
    BY <1>2 DEF Away
  <2>2. \A h \in Grants : content'[h] \in {content[h], Staged(h)}
    BY <1>1, <1>7
  <2>3. WellNow'
    BY <1>1, <1>2, <2>1, <2>2 DEF WellNow, Staged
  <2>4. stale' \subseteq Pasts /\ OriginalStaysAway'
    BY <1>7 DEF Synced, OriginalStaysAway
  <2>5. \A h \in Grants : h # g => candidate[h] # g
    BY <1>1, <1>3 DEF WellNow
  <2>6. CandidatesAreOwn'
    BY <1>1, <1>2, <1>7, <2>5 DEF Goto, CandidatesAreOwn, CallType, Staged,
       Objects
  <2>7. \A h \in Grants : pc'[h] = "finalize_failed" => Clean(h)'
    BY <1>1, <1>5, <2>1, <2>4, CleanStays DEF RecordsAreTrue
  <2>8. \A r \in Entries(Readable) : r.grant \in Grants
    BY <1>1, LedgerFacts, RecordFields DEF Entries
  <2> QED
    BY <1>2, <1>4, <2>1, <2>3, <2>4, <2>6, <2>7, <2>8, StepApply
<1> QED
  BY <1>6, <1>7 DEF copy_staged_tree

LEMMA ExchangeApply ==
    ASSUME ApplyInv, LedgerInv', NEW g \in Grants, exchange(g)
    PROVE  ApplyInv'
<1>1. /\ LedgerInv /\ CallType /\ UsesAreReserved /\ CandidatesAreOwn
      /\ RecordsAreTrue /\ WellNow /\ OriginalStaysAway /\ CallsAreReserved
      /\ source \in Objects /\ candidate \in [Grants -> Objects \cup {None}]
      /\ content \in [Objects -> Trees \cup {None}]
      /\ exchanges \in [Grants -> Nat]
  BY ApplyFacts DEF CallType
<1>2. UNCHANGED <<file, content>> /\ pc[g] = "exchange"
  BY DEF exchange
<1>3. Readable' = Readable /\ UNCHANGED <<disk, synced>> /\ candidate[g] = g
  BY <1>1, <1>2 DEF Readable, file, CallsAreReserved, Preparing
<1>4. UsesAreReserved'
  BY <1>1, <1>2, <1>3 DEF exchange, Goto, UsesAreReserved, CallType,
     Executing, Preparing
<1>5. \A h \in Grants : pc'[h] = "finalize_failed" =>
                          h # g /\ pc[h] = "finalize_failed"
  BY <1>1 DEF exchange, Goto, CallType
<1>6. CASE UNCHANGED <<source, candidate, stale, exchanges>> /\ Goto(g, "unwind")
  <2>1. CandidatesAreOwn'
    BY <1>1, <1>2, <1>6 DEF Goto, CandidatesAreOwn, CallType, Staged
  <2> QED
    BY <1>1, <1>2, <1>4, <1>5, <1>6, <2>1, QuietApply DEF tree, RecordsAreTrue
<1>7. CASE /\ source' = candidate[g]
           /\ candidate' = [candidate EXCEPT ![g] = source]
           /\ Unsynced /\ Goto(g, "sync")
           /\ exchanges' = [exchanges EXCEPT ![g] = @ + 1]
  <2>0. /\ exchanges[g] = 0 /\ source' = g /\ source # g /\ source # None
        /\ \A h \in Grants : h # g => candidate[h] # g
    BY <1>1, <1>2, <1>3, <1>7 DEF UsesAreReserved, WellNow, Preparing, Objects
  <2>1. \A h \in Grants : h # g => (Away(h)' <=> Away(h))
    BY <1>1, <1>3, <1>7, <2>0 DEF Away
  <2>2. Away(g)' /\ exchanges'[g] = 1
    BY <1>1, <1>7, <2>0 DEF Away
  <2>3. \A h \in Grants : h # g => exchanges'[h] = exchanges[h]
                                     /\ candidate'[h] = candidate[h]
    BY <1>1, <1>7
  <2>4. WellNow'
    <3>1. \A h \in Grants : candidate'[h] # source'
      BY <1>1, <1>7, <2>0
    <3>2. \A h, k \in Grants : h # k /\ candidate'[h] = candidate'[k]
                                 => candidate'[h] = None
      BY <1>1, <1>7, <2>0 DEF WellNow
    <3>3. source' # Original
      BY <2>0
    <3>4. ASSUME NEW h \in Grants
          PROVE  /\ Away(h)' \/ candidate'[h] \notin {None, h}
                      => exchanges'[h] = 1
                 /\ ~Away(h)' => content'[h] \in {None, "part", Staged(h)}
      BY <1>1, <1>2, <2>1, <2>2, <2>3 DEF WellNow
    <3> QED
      BY <3>1, <3>2, <3>3, <3>4 DEF WellNow, Staged
  <2>5. stale' \subseteq Pasts /\ OriginalStaysAway'
    BY <1>7, <2>0 DEF Unsynced, Pasts, OriginalStaysAway
  <2>6. CandidatesAreOwn'
    BY <1>1, <1>2, <1>7, <2>0 DEF Goto, CandidatesAreOwn, CallType, Staged
  <2>7. \A h \in Grants : pc'[h] = "finalize_failed" => Clean(h)'
    BY <1>1, <1>5, <2>1, <2>5, CleanStays DEF RecordsAreTrue
  <2>8. \A r \in Entries(Readable) :
           r.grant \in Grants /\ (r.state = "failed" => r.grant # g)
    <3>1. \A r \in Entries(Readable) : r.grant \in Grants
      BY <1>1, LedgerFacts, RecordFields DEF Entries
    <3>2. \A r \in Entries(Readable) : r.grant = g => r.state = "reserved"
      BY <1>1, <1>2 DEF UsesAreReserved, Executing, Preparing
    <3> QED
      BY <3>1, <3>2
  <2>9. \A h \in Grants : exchanges[h] = 1 => exchanges'[h] = 1
    BY <2>2, <2>3
  <2> QED
    BY <1>2, <1>4, <2>1, <2>4, <2>5, <2>6, <2>7, <2>8, <2>9, StepApply
<1> QED
  BY <1>6, <1>7 DEF exchange

LEMMA RemoveContentsApply ==
    ASSUME ApplyInv, LedgerInv', NEW g \in Grants, NEW at, NEW next,
           RemoveContents(g, at, next),
           \/ at = "unwind" /\ next = "unwind_unlink"
           \/ at = "discard" /\ next = "discard_unlink" /\ candidate[g] = g
           \/ at = "cleanup" /\ next = "cleanup_unlink"
    PROVE  ApplyInv'
<1>1. /\ LedgerInv /\ CallType /\ UsesAreReserved /\ CandidatesAreOwn
      /\ RecordsAreTrue /\ WellNow /\ OriginalStaysAway /\ CallsAreReserved
      /\ source \in Objects /\ candidate \in [Grants -> Objects \cup {None}]
      /\ content \in [Objects -> Trees \cup {None}]
  BY ApplyFacts
<1>2. UNCHANGED <<file, source, candidate, exchanges>> /\ pc[g] = at
      /\ content' = [content EXCEPT ![candidate[g]] = "part"]
      /\ candidate[g] # None /\ candidate[g] \in Objects
      /\ Unsynced /\ pc' = [pc EXCEPT ![g] = next]
  BY <1>1 DEF RemoveContents, Goto
<1>3. Readable' = Readable /\ UNCHANGED <<disk, synced>>
  BY <1>2 DEF Readable, file
<1>4. UsesAreReserved'
  BY <1>1, <1>2, <1>3 DEF UsesAreReserved, CallType, Executing, Preparing
<1>5. \A h \in Grants : pc'[h] = "finalize_failed" => pc[h] = "finalize_failed"
  BY <1>1, <1>2 DEF CallType
<1>11. \A h \in Grants : Away(h)' <=> Away(h)
  BY <1>2 DEF Away
<1>12. \A h \in Grants : content'[h] \in {content[h], "part"}
  BY <1>1, <1>2 DEF Objects
<1>13. WellNow'
  BY <1>1, <1>2, <1>11, <1>12 DEF WellNow, Staged
<1>14. stale' \subseteq Pasts /\ OriginalStaysAway'
  BY <1>1, <1>2 DEF Unsynced, Pasts, OriginalStaysAway, tree
<1>15. \A h \in Grants : h # g /\ candidate[h] # None
                           => candidate[h] # candidate[g]
  BY <1>1 DEF WellNow
<1>16. CandidatesAreOwn'
  BY <1>1, <1>2, <1>15 DEF CandidatesAreOwn, CallsAreReserved, CallType,
     Preparing, Staged, Objects
<1>17. \A h \in Grants : pc'[h] = "finalize_failed" => Clean(h)'
  BY <1>1, <1>5, <1>11, <1>14, CleanStays DEF RecordsAreTrue
<1>18. \A r \in Entries(Readable) : r.grant \in Grants
  BY <1>1, LedgerFacts, RecordFields DEF Entries
<1> QED
  BY <1>2, <1>4, <1>11, <1>13, <1>14, <1>16, <1>17, <1>18, StepApply

LEMMA UnlinkApply ==
    ASSUME ApplyInv, LedgerInv', NEW g \in Grants, NEW next, Unlink(g, next),
           pc[g] \in {"unwind_unlink", "discard_unlink", "cleanup_unlink"},
           next \in {"inspect", "inspect_again", "idle"}
    PROVE  ApplyInv'
<1>1. /\ LedgerInv /\ CallType /\ UsesAreReserved /\ CandidatesAreOwn
      /\ RecordsAreTrue /\ WellNow /\ OriginalStaysAway /\ CallsAreReserved
      /\ source \in Objects /\ candidate \in [Grants -> Objects \cup {None}]
      /\ content \in [Objects -> Trees \cup {None}]
  BY ApplyFacts
<1>2. /\ UNCHANGED <<file, source, exchanges>>
      /\ candidate' = [candidate EXCEPT ![g] = None]
      /\ content' = [content EXCEPT ![candidate[g]] = None]
      /\ stale' \subseteq Pasts
      /\ stale' # {} => tree \in stale' /\ stale' = stale \cup {tree}
  BY DEF Unlink, Synced, Unsynced, Pasts
<1>3. \E to \in {"inspect", "inspect_again", "idle"} :
         pc' = [pc EXCEPT ![g] = to]
  BY DEF Unlink, Goto
<1>4. candidate[g] # None /\ candidate[g] \in Objects
  BY <1>1 DEF CandidatesAreOwn, CallsAreReserved, Preparing
<1>5. Readable' = Readable /\ UNCHANGED <<disk, synced>>
  BY <1>2 DEF Readable, file
<1>6. UsesAreReserved'
  BY <1>1, <1>2, <1>3, <1>5 DEF UsesAreReserved, CallType, Executing, Preparing
<1>7. \A h \in Grants : pc'[h] = "finalize_failed" => pc[h] = "finalize_failed"
  BY <1>1, <1>3 DEF CallType
<1>8. \A h \in Grants :
         /\ candidate'[h] \in {candidate[h], None}
         /\ content'[h] \in {content[h], None}
  BY <1>1, <1>2 DEF Objects
<1>9. \A h \in Grants : Away(h)' => Away(h)
  BY <1>1, <1>2, <1>8 DEF Away
<1>10. \A h \in Grants : Away(h) /\ ~Away(h)' => content'[h] = None
  <2>1. ASSUME NEW h \in Grants, Away(h), ~Away(h)' PROVE candidate[g] = h
    BY <1>1, <1>2, <2>1 DEF Away
  <2> QED
    BY <1>1, <1>2, <2>1 DEF Objects
<1>11. WellNow'
  <2>1. \A h \in Grants : candidate'[h] # source'
    BY <1>1, <1>2, <1>8 DEF WellNow, Objects
  <2>2. \A h, k \in Grants : h # k /\ candidate'[h] = candidate'[k]
                               => candidate'[h] = None
    BY <1>1, <1>8 DEF WellNow
  <2>3. source' = Original => \A h \in Grants : candidate'[h] \in {None, h}
    BY <1>1, <1>2, <1>8 DEF WellNow
  <2>4. ASSUME NEW h \in Grants
        PROVE  /\ Away(h)' \/ candidate'[h] \notin {None, h}
                    => exchanges'[h] = 1
               /\ ~Away(h)' => content'[h] \in {None, "part", Staged(h)}
    BY <1>1, <1>2, <1>8, <1>9, <1>10 DEF WellNow
  <2> QED
    BY <2>1, <2>2, <2>3, <2>4 DEF WellNow, Staged
<1>12. OriginalStaysAway'
  BY <1>1, <1>2 DEF OriginalStaysAway, Pasts, tree
<1>13. \A h \in Grants : h # g /\ candidate[h] # None
                            => candidate[h] # candidate[g]
  BY <1>1 DEF WellNow
<1>14. CandidatesAreOwn'
  BY <1>1, <1>2, <1>3, <1>4, <1>13 DEF CandidatesAreOwn, CallsAreReserved,
     CallType, Preparing, Staged, Objects
<1>15. \A h \in Grants : pc'[h] = "finalize_failed" => Clean(h)'
  BY <1>1, <1>2, <1>7, <1>9, CleanStays DEF RecordsAreTrue
<1>16. \A r \in Entries(Readable) : r.grant \in Grants
  BY <1>1, LedgerFacts, RecordFields DEF Entries
<1> QED
  BY <1>2, <1>6, <1>9, <1>11, <1>12, <1>14, <1>15, <1>16, StepApply

LEMMA EditApply ==
    ASSUME ApplyInv, LedgerInv', edit
    PROVE  ApplyInv'
<1>1. /\ LedgerInv /\ CallType /\ UsesAreReserved /\ CandidatesAreOwn
      /\ RecordsAreTrue /\ WellNow /\ OriginalStaysAway /\ CallsAreReserved
      /\ source \in Objects /\ candidate \in [Grants -> Objects \cup {None}]
      /\ content \in [Objects -> Trees \cup {None}]
  BY ApplyFacts
<1>2. /\ UNCHANGED <<file, source, candidate, exchanges, pc>>
      /\ content' = [content EXCEPT ![source] = "edited"] /\ Unsynced
  BY DEF edit, memory
<1>3. Readable' = Readable /\ UNCHANGED <<disk, synced>>
  BY <1>2 DEF Readable, file
<1>4. UsesAreReserved'
  BY <1>1, <1>2, <1>3 DEF UsesAreReserved
<1>5. \A h \in Grants : Away(h)' <=> Away(h)
  BY <1>2 DEF Away
<1>6. \A h \in Grants : ~Away(h) => content'[h] = content[h]
  BY <1>1, <1>2 DEF Away, Objects
<1>7. WellNow'
  BY <1>1, <1>2, <1>5, <1>6 DEF WellNow, Staged
<1>8. stale' \subseteq Pasts /\ OriginalStaysAway'
  BY <1>1, <1>2 DEF Unsynced, Pasts, OriginalStaysAway, tree
<1>9. \A h \in Grants : candidate[h] # source
  BY <1>1 DEF WellNow
<1>10. CandidatesAreOwn'
  BY <1>1, <1>2, <1>9 DEF CandidatesAreOwn, CallsAreReserved, Preparing,
     Staged, Objects
<1>11. \A h \in Grants : pc'[h] = "finalize_failed" => Clean(h)'
  BY <1>1, <1>2, <1>5, <1>8, CleanStays DEF RecordsAreTrue
<1>12. \A r \in Entries(Readable) : r.grant \in Grants
  BY <1>1, LedgerFacts, RecordFields DEF Entries
<1> QED
  BY <1>2, <1>4, <1>5, <1>7, <1>8, <1>10, <1>11, <1>12, StepApply

LEMMA UnwindApply ==
    ASSUME ApplyInv, LedgerInv', NEW g \in Grants, unwind(g)
    PROVE  ApplyInv'
<1>1. CASE RemoveContents(g, "unwind", "unwind_unlink")
  BY <1>1, RemoveContentsApply
<1>2. CASE GiveUp(g, "unwind", "inspect") \/ GiveUp(g, "unwind_unlink", "inspect")
  BY <1>2, LeaveApply DEF GiveUp
<1>3. CASE pc[g] = "unwind_unlink" /\ Unlink(g, "inspect")
  BY <1>3, UnlinkApply
<1> QED
  BY <1>1, <1>2, <1>3 DEF unwind

LEMMA DiscardApply ==
    ASSUME ApplyInv, LedgerInv', NEW g \in Grants, discard(g)
    PROVE  ApplyInv'
<1>1. CASE /\ classify(g) = "candidate_prepared" /\ source = Original
           /\ RemoveContents(g, "discard", "discard_unlink")
  <2>1. candidate[g] = g
    BY <1>1, ApplyFacts DEF RemoveContents, WellNow
  <2> QED
    BY <1>1, <2>1, RemoveContentsApply
<1>2. CASE \/ GiveUp(g, "discard", "idle") \/ GiveUp(g, "discard_unlink", "idle")
           \/ /\ Goto(g, "idle")
              /\ UNCHANGED <<file, tree, stale, open, grants, sweep, observed,
                             faults, crashes, edits, exchanges>>
  BY <1>2, LeaveApply DEF GiveUp
<1>3. CASE pc[g] = "discard_unlink" /\ Unlink(g, "inspect_again")
  BY <1>3, UnlinkApply
<1> QED
  BY <1>1, <1>2, <1>3 DEF discard

LEMMA CleanupApply ==
    ASSUME ApplyInv, LedgerInv', NEW g \in Grants, cleanup(g)
    PROVE  ApplyInv'
<1>1. CASE RemoveContents(g, "cleanup", "cleanup_unlink")
  BY <1>1, RemoveContentsApply
<1>2. CASE \/ GiveUp(g, "cleanup", "idle") \/ GiveUp(g, "cleanup_unlink", "idle")
           \/ /\ Goto(g, "idle")
              /\ UNCHANGED <<file, tree, stale, open, grants, sweep, observed,
                             faults, crashes, edits, exchanges>>
  BY <1>2, LeaveApply DEF GiveUp
<1>3. CASE pc[g] = "cleanup_unlink" /\ Unlink(g, "idle")
  BY <1>3, UnlinkApply
<1> QED
  BY <1>1, <1>2, <1>3 DEF cleanup

LEMMA ReconcileApply ==
    ASSUME ApplyInv, LedgerInv', reconcile \/ UNCHANGED vars
    PROVE  ApplyInv'
<1>1. UsesAreReserved /\ CandidatesAreOwn /\ RecordsAreTrue
  BY ApplyFacts
<1>2. UNCHANGED <<file, tree, stale, exchanges, pc>>
  BY DEF reconcile, vars, memory
<1>3. Readable' = Readable /\ UNCHANGED <<disk, synced, candidate, content>>
  BY <1>2 DEF Readable, file, tree
<1>4. UsesAreReserved' /\ CandidatesAreOwn'
  BY <1>1, <1>2, <1>3 DEF UsesAreReserved, CandidatesAreOwn, Staged
<1> QED
  BY <1>1, <1>2, <1>4, QuietApply DEF RecordsAreTrue

\* A step that leaves the directory alone and writes to the ledger: what it
\* writes is true.
LEMMA WriteApply ==
    ASSUME ApplyInv, LedgerInv', UNCHANGED <<tree, stale, exchanges>>,
           UsesAreReserved', CandidatesAreOwn',
           \A h \in Grants : pc'[h] = "finalize_failed" => pc[h] = "finalize_failed",
           NEW g \in Grants, NEW r \in Record, r.grant = g,
           \A x \in Entries(Readable') : x \in Entries(Readable) \/ x = r,
           r.state = "applied" => exchanges[g] = 1,
           r.state = "failed" => Clean(g)
    PROVE  ApplyInv'
<1>1. UNCHANGED <<source, candidate, content, Pasts>>
  BY DEF tree, Pasts
<1>2. ASSUME NEW h PROVE Clean(h)' <=> Clean(h)
  BY <1>1 DEF Clean
<1>3. ASSUME NEW t \in Pasts' PROVE WellFormed(t)'
  BY <1>1, WellStays DEF ApplyInv
<1>4. RecordsAreTrue /\ OriginalStaysAway
  BY ApplyFacts
<1>5. RecordsAreTrue'
  BY <1>2, <1>4 DEF RecordsAreTrue
<1>6. OriginalStaysAway'
  BY <1>1, <1>4 DEF OriginalStaysAway
<1> QED
  BY <1>3, <1>5, <1>6 DEF ApplyInv

LEMMA EntriesAppend ==
    ASSUME NEW s \in Seq(Record), NEW r \in Record,
           NEW x \in Entries(Append(s, r))
    PROVE  x \in Entries(s) \/ x = r
<1>1. PICK i \in 1..Len(Append(s, r)) : x = Append(s, r)[i]
  BY DEF Entries
<1>2. Len(s) \in Nat /\ (i \in 1..Len(s) \/ i = Len(s) + 1)
  BY AppendFacts
<1> QED
  BY <1>1, <1>2, AppendFacts DEF Entries

LEMMA DiskIsRead ==
    ASSUME LedgerInv, NEW x \in Entries(disk)
    PROVE  x \in Entries(Readable)
<1>1. disk \in Seq(Record) /\ Len(disk) \in Nat
  BY LedgerFacts
<1>2. PICK i \in 1..Len(disk) : x = disk[i]
  BY DEF Entries
<1>3. CASE tail \in Record
  <2>1. i \in 1..Len(Readable) /\ Readable[i] = x
    BY <1>1, <1>2, <1>3, AppendFacts DEF Readable
  <2> QED
    BY <2>1 DEF Entries
<1>4. CASE tail \notin Record
  BY <1>4 DEF Readable
<1> QED
  BY <1>3, <1>4

\* What the file holds after an append that succeeded or failed.
LEMMA AppendEntries ==
    ASSUME LedgerInv, NEW r \in Record, AppendOk(r) \/ AppendFails(r),
           NEW x \in Entries(Readable')
    PROVE  x \in Entries(Readable) \/ x = r
<1>1. disk \in Seq(Record) /\ tail \in Record \cup {None, Junk}
  BY LedgerFacts DEF FileType
<1>2. \/ Readable' = Append(disk, r)
      \/ Readable' = disk
      \/ Readable' = Readable
  <2>1. CASE AppendOk(r)
    BY <1>1, <2>1 DEF AppendOk, Readable
  <2>2. CASE AppendFails(r)
    BY <1>1, <2>2 DEF AppendFails, Readable
  <2> QED
    BY <2>1, <2>2
<1>3. Readable' = Append(disk, r) => x \in Entries(disk) \/ x = r
  BY <1>1, EntriesAppend
<1> QED
  BY <1>2, <1>3, DiskIsRead

\* No append takes a synced record away.
LEMMA AppendKeeps ==
    ASSUME LedgerInv, NEW r \in Record, AppendOk(r) \/ AppendFails(r),
           NEW h, \E n \in 1..synced : disk[n].grant = h
    PROVE  \E n \in 1..synced' : disk'[n].grant = h
<1>1. disk \in Seq(Record) /\ Len(disk) \in Nat /\ synced \in 0..Len(disk)
  BY LedgerFacts
<1>2. CASE AppendOk(r)
  <2>1. /\ synced' = Len(disk) + 1 /\ \A n \in 1..Len(disk) : disk'[n] = disk[n]
    BY <1>1, <1>2, AppendFacts DEF AppendOk
  <2> QED
    BY <1>1, <2>1
<1>3. CASE AppendFails(r)
  BY <1>3 DEF AppendFails
<1> QED
  BY <1>2, <1>3

LEMMA ReserveApply ==
    ASSUME ApplyInv, LedgerInv', NEW g \in Grants, reserve(g)
    PROVE  ApplyInv'
<1>1. /\ LedgerInv /\ CallType /\ UsesAreReserved /\ CandidatesAreOwn
      /\ CallsAreReserved /\ open /\ pc[g] = "reserve"
      /\ disk \in Seq(Record) /\ Len(disk) \in Nat /\ synced \in 0..Len(disk)
      /\ grants = Replay(disk)
  BY ApplyFacts, LedgerFacts DEF reserve, ClosedIsIdle
<1>2. UNCHANGED <<tree, stale, exchanges, candidate, content>>
  BY DEF reserve, tree
<1>3. Reservation(g) \in Record /\ Reservation(g).grant = g
      /\ Reservation(g).state = "reserved"
  BY DEF Reservation, Record
<1>4. \A h \in Grants : pc'[h] = "finalize_failed" => pc[h] = "finalize_failed"
  BY <1>1 DEF reserve, Goto, CallType
<1>5. CandidatesAreOwn'
  BY <1>1, <1>2 DEF reserve, Goto, CandidatesAreOwn, CallType, Staged
<1>6. CASE ~Unused(g) /\ Goto(g, "idle") /\ UNCHANGED <<disk, tail, synced>>
  <2>1. Readable' = Readable
    BY <1>6 DEF Readable
  <2>2. UsesAreReserved'
    BY <1>1, <1>2, <1>6, <2>1 DEF UsesAreReserved, Goto, CallType, Executing,
       Preparing
  <2> QED
    BY <1>2, <1>3, <1>4, <1>5, <2>1, <2>2, WriteApply
<1>7. CASE /\ Unused(g)
           /\ \/ AppendOk(Reservation(g)) /\ Goto(g, "create")
              \/ AppendFails(Reservation(g)) /\ Goto(g, "idle")
  <2>1. \A x \in Entries(Readable') : x \in Entries(Readable) \/ x = Reservation(g)
    BY <1>1, <1>3, <1>7, AppendEntries
  <2>2. \A h \in Grants : (\E n \in 1..synced : disk[n].grant = h)
                            => \E n \in 1..synced' : disk'[n].grant = h
    BY <1>1, <1>3, <1>7, AppendKeeps
  <2>3. \A i \in 1..Len(disk) : disk[i].grant # g
    <3>1. grants[g] = None
      BY <1>1 DEF CallsAreReserved
    <3> QED
      BY <1>1, <3>1, ReplayCases, RecordFields
  <2>4. exchanges[g] = 0
    <3>1. \A n \in 1..synced : disk[n].grant # g
      BY <1>1, <2>3
    <3> QED
      BY <1>1, <3>1 DEF UsesAreReserved, CallType
  <2>5. CASE AppendOk(Reservation(g)) /\ Goto(g, "create")
    <3>1. /\ Readable' = disk' /\ disk' = Append(disk, Reservation(g))
          /\ synced' = Len(disk) + 1 /\ disk'[synced'] = Reservation(g)
      BY <1>1, <1>3, <2>5, AppendFacts DEF AppendOk, Readable
    <3>2. \A x \in Entries(Readable') : x.grant = g => x.state = "reserved"
      <4>1. \A x \in Entries(disk) : x.grant # g
        BY <2>3 DEF Entries
      <4> QED
        BY <1>1, <1>3, <3>1, <4>1, EntriesAppend
    <3>3. \E n \in 1..synced' : disk'[n].grant = g
      BY <1>1, <1>3, <3>1
    <3>4. UsesAreReserved'
      BY <1>1, <1>2, <1>3, <2>1, <2>2, <2>4, <2>5, <3>2, <3>3 DEF
         UsesAreReserved, Goto, CallType, Executing, Preparing
    <3> QED
      BY <1>2, <1>3, <1>4, <1>5, <2>1, <3>4, WriteApply
  <2>6. CASE AppendFails(Reservation(g)) /\ Goto(g, "idle")
    <3>1. UsesAreReserved'
      <4>1. \A h \in Grants :
               pc'[h] \in Executing \cup {"finalize"} => h # g /\ pc'[h] = pc[h]
        BY <1>1, <2>6 DEF Goto, CallType, Executing, Preparing
      <4>2. \A h \in Grants : exchanges[h] > 0 \/ pc'[h] \in Executing =>
               \E n \in 1..synced' : disk'[n].grant = h
        BY <1>1, <2>2, <4>1 DEF UsesAreReserved
      <4>3. \A h \in Grants : pc'[h] \in Executing =>
               \A x \in Entries(Readable') : x.grant = h => x.state = "reserved"
        BY <1>1, <1>3, <2>1, <4>1 DEF UsesAreReserved
      <4> QED
        BY <1>1, <1>2, <4>1, <4>2, <4>3 DEF UsesAreReserved, Executing,
           Preparing
    <3> QED
      BY <1>2, <1>3, <1>4, <1>5, <2>1, <3>1, WriteApply
  <2> QED
    BY <1>7, <2>5, <2>6
<1> QED
  BY <1>6, <1>7 DEF reserve

LEMMA FinalizeApply ==
    ASSUME ApplyInv, LedgerInv', NEW g \in Grants, NEW r \in Record,
           r.grant = g, NEW next \in {"cleanup", "idle"}, Finalize(g, r, next),
           pc[g] \in {"finalize", "finalize_failed"},
           r.state = "applied" => exchanges[g] = 1,
           r.state = "failed" => Clean(g)
    PROVE  ApplyInv'
<1>1. /\ LedgerInv /\ CallType /\ UsesAreReserved /\ CandidatesAreOwn
      /\ CallsAreReserved
  BY ApplyFacts
<1>2. UNCHANGED <<tree, stale, exchanges, candidate, content>>
  BY DEF Finalize, tree
<1>3. /\ AppendOk(r) \/ AppendFails(r)
      /\ \E to \in {"cleanup", "idle"} : pc' = [pc EXCEPT ![g] = to]
  BY DEF Finalize, Goto
<1>4. \A h \in Grants : pc'[h] = "finalize_failed" => pc[h] = "finalize_failed"
  BY <1>1, <1>3 DEF CallType
<1>5. CandidatesAreOwn'
  BY <1>1, <1>2, <1>3 DEF CandidatesAreOwn, CallType, Staged
<1>6. \A x \in Entries(Readable') : x \in Entries(Readable) \/ x = r
  BY <1>1, <1>3, AppendEntries
<1>7. \A h \in Grants : (\E n \in 1..synced : disk[n].grant = h)
                          => \E n \in 1..synced' : disk'[n].grant = h
  BY <1>1, <1>3, AppendKeeps
<1>8. UsesAreReserved'
  BY <1>1, <1>2, <1>3, <1>6, <1>7 DEF UsesAreReserved, CallType, Executing,
     Preparing
<1> QED
  BY <1>2, <1>4, <1>5, <1>6, <1>8, WriteApply

LEMMA FinalizeAppliedApply ==
    ASSUME ApplyInv, LedgerInv', NEW g \in Grants, finalize_applied(g)
    PROVE  ApplyInv'
<1>1. open /\ pc[g] = "finalize" /\ exchanges[g] = 1 /\ LedgerInv
  BY ApplyFacts, LedgerFacts DEF finalize_applied, ClosedIsIdle, UsesAreReserved
<1>2. Applied(g, observed[g]) \in Record
  BY <1>1, AppliedFollows
<1>3. Applied(g, observed[g]).grant = g /\ Applied(g, observed[g]).state = "applied"
  BY DEF Applied
<1> QED
  BY <1>1, <1>2, <1>3, FinalizeApply DEF finalize_applied

LEMMA FinalizeFailedApply ==
    ASSUME ApplyInv, LedgerInv', NEW g \in Grants, finalize_failed(g)
    PROVE  ApplyInv'
<1>1. open /\ pc[g] = "finalize_failed" /\ Clean(g) /\ LedgerInv
  BY ApplyFacts, LedgerFacts DEF finalize_failed, ClosedIsIdle, RecordsAreTrue
<1>2. Failed(g) \in Record
  BY <1>1, FailedFollows
<1>3. Failed(g).grant = g /\ Failed(g).state = "failed"
  BY DEF Failed
<1> QED
  BY <1>1, <1>2, <1>3, FinalizeApply DEF finalize_failed

LEMMA OpenApply ==
    ASSUME ApplyInv, LedgerInv', open_journal
    PROVE  ApplyInv'
<1>1. /\ LedgerInv /\ UsesAreReserved /\ CandidatesAreOwn /\ RecordsAreTrue
      /\ OriginalStaysAway
      /\ disk \in Seq(Record) /\ Len(disk) \in Nat /\ synced \in 0..Len(disk)
  BY ApplyFacts, LedgerFacts
<1>2. UNCHANGED <<tree, stale, exchanges, candidate, content, source, synced,
                  pc, Pasts>>
  BY DEF open_journal, tree, Pasts
<1>3. Readable' = Readable /\ \A n \in 1..Len(disk) : disk'[n] = disk[n]
  <2>1. CASE UNCHANGED <<disk, tail>>
    BY <2>1 DEF Readable
  <2>2. CASE disk' = Readable /\ tail' = None
    BY <1>1, <2>2, AppendFacts DEF Readable
  <2> QED
    BY <2>1, <2>2 DEF open_journal
<1>4. UsesAreReserved'
  <2>1. \A h \in Grants : (\E n \in 1..synced : disk[n].grant = h)
                            => \E n \in 1..synced' : disk'[n].grant = h
    BY <1>1, <1>2, <1>3
  <2> QED
    BY <1>1, <1>2, <1>3, <2>1 DEF UsesAreReserved
<1>5. CandidatesAreOwn' /\ OriginalStaysAway'
  BY <1>1, <1>2 DEF CandidatesAreOwn, OriginalStaysAway, Staged
<1>6. RecordsAreTrue'
  BY <1>1, <1>2, <1>3 DEF RecordsAreTrue, Clean
<1>7. ASSUME NEW t \in Pasts' PROVE WellFormed(t)'
  BY <1>2, WellStays DEF ApplyInv
<1> QED
  BY <1>4, <1>5, <1>6, <1>7 DEF ApplyInv

\* What a daemon that dies may have written is true as well.
LEMMA WrittenIsTrue ==
    ASSUME ApplyInv, open, NEW g \in Grants, NEW w \in Written(g), w \in Record
    PROVE  /\ w.state = "applied" => exchanges[w.grant] = 1
           /\ w.state = "failed" => Clean(w.grant)
<1>0. LedgerInv /\ Len(disk) \in Nat /\ UsesAreReserved /\ RecordsAreTrue
  BY ApplyFacts, LedgerFacts
<1>1. CASE w = Reservation(g)
  BY <1>1 DEF Reservation
<1>2. CASE pc[g] = "finalize" /\ w = Applied(g, observed[g])
  BY <1>0, <1>2 DEF Applied, UsesAreReserved
<1>3. CASE pc[g] = "finalize_failed" /\ w = Failed(g)
  BY <1>0, <1>3 DEF Failed, RecordsAreTrue
<1>4. w # Junk
  BY RecordFields
<1> QED
  BY <1>1, <1>2, <1>3, <1>4 DEF Written

LEMMA CrashApply ==
    ASSUME ApplyInv, LedgerInv', Crash
    PROVE  ApplyInv'
<1>1. /\ LedgerInv /\ CallType /\ UsesAreReserved /\ RecordsAreTrue
      /\ OriginalStaysAway /\ open
      /\ disk \in Seq(Record) /\ Len(disk) \in Nat /\ synced \in 0..Len(disk)
      /\ tail \in Record \cup {None, Junk}
  BY ApplyFacts, LedgerFacts DEF Crash, FileType
<1>2. pc' = [h \in Grants |-> "idle"] /\ UNCHANGED exchanges
  BY DEF Crash
<1>3. /\ disk' \in Seq(Record) /\ synced' \in Nat /\ synced' >= synced
      /\ \A n \in 1..synced : disk'[n] = disk[n]
      /\ \A n \in 1..Len(disk') : n \in 1..Len(disk) /\ disk'[n] = disk[n]
      /\ tail' \in {None, Junk, tail} \cup UNION {Written(g) : g \in Grants}
      /\ tail' = tail => disk' = disk \/ tail \in {None, Junk}
  <2>1. CASE PowerLoss
    <3>1. PICK n \in synced..Len(disk) :
               disk' = SubSeq(disk, 1, n) /\ synced' = n
      BY <2>1 DEF PowerLoss
    <3>2. /\ n \in 0..Len(disk) /\ disk' \in Seq(Record) /\ Len(disk') = n
          /\ \A i \in 1..n : disk'[i] = disk[i]
      BY <1>1, <3>1, CutFacts
    <3>3. n = Len(disk) => disk' = disk
      BY <1>1, <3>1
    <3>4. /\ tail' \in {None, Junk, tail} \cup UNION {Written(g) : g \in Grants}
          /\ n < Len(disk) => tail' \in {None, Junk}
      BY <2>1, <3>2 DEF PowerLoss
    <3> QED
      BY <1>1, <3>1, <3>2, <3>3, <3>4
  <2>2. CASE /\ tail' \in {tail} \cup UNION {Written(g) : g \in Grants}
             /\ UNCHANGED <<disk, synced>>
    BY <1>1, <2>2
  <2> QED
    BY <2>1, <2>2 DEF Crash
<1>4. ASSUME NEW t \in Pasts'
      PROVE  \E past \in Pasts :
                past[1] = t[1] /\ past[2] = t[2] /\ past[3] = t[3]
  <2>1. CASE UNCHANGED <<tree, stale>>
    BY <2>1 DEF Pasts
  <2>2. CASE PowerLoss
    <3>1. PICK past \in Pasts :
            source' = past[1] /\ candidate' = past[2] /\ content' = past[3]
      BY <2>2 DEF PowerLoss, Pasts
    <3>2. t = tree'
      BY <2>2 DEF PowerLoss, Pasts
    <3> QED
      BY <3>1, <3>2 DEF tree
  <2> QED
    BY <2>1, <2>2 DEF Crash
<1>5. ASSUME NEW t \in Pasts' PROVE WellFormed(t)'
  <2>1. PICK past \in Pasts :
           past[1] = t[1] /\ past[2] = t[2] /\ past[3] = t[3]
    BY <1>4
  <2>2. WellFormed(past)'
    BY <1>2, WellStays DEF ApplyInv
  <2>3. \A h \in Grants : Moved(past, h) <=> Moved(t, h)
    BY <2>1 DEF Moved
  <2> QED
    BY <2>1, <2>2, <2>3 DEF WellFormed
<1>6. UsesAreReserved'
  <2>1. ASSUME NEW h \in Grants, NEW n \in 1..synced, disk[n].grant = h
        PROVE  \E m \in 1..synced' : disk'[m].grant = h
    <3>1. n \in 1..synced' /\ disk'[n].grant = h
      BY <1>1, <1>3, <2>1
    <3> QED
      BY <3>1
  <2> QED
    BY <1>1, <1>2, <2>1 DEF UsesAreReserved, Executing, Preparing
<1>7. CandidatesAreOwn'
  BY <1>2 DEF CandidatesAreOwn, Preparing
<1>8. OriginalStaysAway'
  <2>1. CASE UNCHANGED <<tree, stale>>
    BY <1>1, <2>1 DEF OriginalStaysAway, tree
  <2>2. CASE PowerLoss
    BY <2>2 DEF PowerLoss, OriginalStaysAway
  <2> QED
    BY <2>1, <2>2 DEF Crash
<1>9. ASSUME NEW x \in Entries(Readable')
      PROVE  \/ x \in Entries(Readable)
             \/ x \in Record /\ \E g \in Grants : x \in Written(g)
  <2>1. CASE tail' \in Record
    <3>1. x \in Entries(disk') \/ x = tail'
      BY <1>3, <2>1, EntriesAppend DEF Readable
    <3>2. x \in Entries(disk') => x \in Entries(disk)
      BY <1>3 DEF Entries
    <3>3. tail' \in {tail} \cup UNION {Written(g) : g \in Grants}
      BY <1>3, <2>1, RecordFields
    <3>4. CASE x = tail' /\ tail' = tail
      <4>1. disk' = disk /\ tail \in Record
        BY <1>3, <2>1, <3>4, RecordFields
      <4>2. Readable' = Readable
        BY <3>4, <4>1 DEF Readable
      <4> QED
        BY <4>2
    <3> QED
      BY <1>1, <2>1, <3>1, <3>2, <3>3, <3>4, DiskIsRead
  <2>2. CASE tail' \notin Record
    <3>1. x \in Entries(disk')
      BY <2>2 DEF Readable
    <3>2. x \in Entries(disk)
      BY <1>3, <3>1 DEF Entries
    <3> QED
      BY <1>1, <3>2, DiskIsRead
  <2> QED
    BY <2>1, <2>2
<1>10. RecordsAreTrue'
  <2>1. ASSUME NEW x \in Entries(Readable')
        PROVE  /\ x.state = "applied" => exchanges[x.grant] = 1
               /\ x.state = "failed" => Clean(x.grant)
    BY <1>1, <1>9, WrittenIsTrue DEF RecordsAreTrue
  <2>2. ASSUME NEW h, Clean(h) PROVE Clean(h)'
    BY <1>4, <2>2 DEF Clean, Moved
  <2> QED
    BY <1>2, <2>1, <2>2 DEF RecordsAreTrue
<1> QED
  BY <1>5, <1>6, <1>7, <1>8, <1>10 DEF ApplyInv

LEMMA NextApply == ApplyInv /\ [Next]_vars => ApplyInv'
<1> SUFFICES ASSUME ApplyInv, [Next]_vars PROVE ApplyInv'
  OBVIOUS
<1>1. LedgerInv'
  BY ApplyFacts, NextLedger
<1> QED
  BY <1>1, ReconcileApply, EditApply, CrashApply, OpenApply, ReserveApply,
     FinalizeAppliedApply, FinalizeFailedApply,
     ExecuteAuthorizedChangeApplyApply, CreateCandidateApply,
     CopyStagedTreeApply, CheckSourceApply, ExchangeApply, SyncExchangeApply,
     VerifyExchangeApply, UnwindApply, InspectApply, DiscardApply, CleanupApply,
     RecoverPendingChangeApplyApply,
     FinalizeCommittedChangeApplyRecoveryApply, ReconcileRecordApply
     DEF Next, Step

LEMMA InitApply == Init => ApplyInv
<1> SUFFICES ASSUME Init PROVE ApplyInv
  OBVIOUS
<1>1. LedgerInv
  BY InitLedger
<1>2. \A g \in Grants : pc[g] = "idle" /\ exchanges[g] = 0 /\ candidate[g] = None
  BY DEF Init
<1>3. Entries(Readable) = {}
  BY DEF Init, Readable, Entries
<1>4. ASSUME NEW t \in Pasts PROVE WellFormed(t)
  <2>1. t[1] = Original /\ t[2] = [g \in Grants |-> None]
        /\ \A g \in Grants : t[3][g] = None
    BY DEF Pasts, tree, Init, Objects
  <2> QED
    BY <2>1 DEF WellFormed, Moved, Objects
<1>5. UsesAreReserved
  BY <1>2 DEF UsesAreReserved, Executing, Preparing
<1>6. CandidatesAreOwn /\ OriginalStaysAway
  BY <1>2 DEF CandidatesAreOwn, OriginalStaysAway, Init
<1>7. RecordsAreTrue
  BY <1>2, <1>3 DEF RecordsAreTrue
<1> QED
  BY <1>1, <1>4, <1>5, <1>6, <1>7 DEF ApplyInv

LEMMA ApplyImplies == ApplyInv => SingleUse /\ OutcomeIsTrue
<1> SUFFICES ASSUME ApplyInv PROVE SingleUse /\ OutcomeIsTrue
  OBVIOUS
<1>1. /\ LedgerInv /\ CallType /\ UsesAreReserved /\ RecordsAreTrue
      /\ disk \in Seq(Record) /\ Len(disk) \in Nat /\ synced \in 0..Len(disk)
      /\ Readable \in Seq(Record) /\ Replayable(disk)
  BY ApplyFacts, LedgerFacts
<1>2. ASSUME NEW g \in Grants, NEW h \in Grants, g # h,
             ManifestOf[g] = ManifestOf[h], exchanges[g] > 0, exchanges[h] > 0
      PROVE  FALSE
  <2>1. PICK n \in 1..synced : disk[n].grant = g
    BY <1>1, <1>2 DEF UsesAreReserved
  <2>2. PICK m \in 1..synced : disk[m].grant = h
    BY <1>1, <1>2 DEF UsesAreReserved
  <2>3. n \in 1..Len(disk) /\ m \in 1..Len(disk)
    BY <1>1
  <2> QED
    BY <1>1, <1>2, <2>1, <2>2, <2>3, OneGrantOfChange
<1>3. \A g \in Grants : exchanges[g] \in Nat /\ exchanges[g] <= 1
  BY <1>1 DEF UsesAreReserved, CallType
<1>4. SingleUse
  BY <1>2, <1>3 DEF SingleUse
<1>5. ASSUME NEW g \in Grants, Replay(Readable)[g] # None
      PROVE  \E x \in Entries(Readable) : x = Replay(Readable)[g] /\ x.grant = g
  BY <1>1, <1>5, ReplayCases DEF LastOf, Entries
<1>6. ASSUME NEW g \in Grants, Outcome(g) = "applied" PROVE exchanges[g] = 1
  <2>1. Replay(Readable)[g] # None /\ Replay(Readable)[g].state = "applied"
    BY <1>6 DEF Outcome
  <2> QED
    BY <1>1, <1>5, <2>1 DEF RecordsAreTrue
<1>7. ASSUME NEW g \in Grants, Outcome(g) = "failed"
      PROVE  source # g /\ \A h \in Grants \ {g} : candidate[h] # g
  <2>1. Replay(Readable)[g] # None /\ Replay(Readable)[g].state = "failed"
    BY <1>7 DEF Outcome
  <2>2. Clean(g)
    BY <1>1, <1>5, <2>1 DEF RecordsAreTrue
  <2> QED
    BY <2>2, AwayIsMoved DEF Clean, Pasts, Away
<1> QED
  BY <1>4, <1>6, <1>7 DEF OutcomeIsTrue, AppliedIsInstalled, FailedIsUntouched

---------------------------------------------------------------------------
(* The theorems about Spec: any crash, any loss of power.                  *)

\* change_apply_gate, change_apply_exchange and change_apply_journal: what the
\* ledger, the directory, the calls under way and every file system that a
\* loss of power may bring back have to do with each other.
THEOREM ApplyInvariant == Spec => []ApplyInv
BY InitApply, NextApply, PTL DEF Spec

\* change_apply_journal: the maps in memory are those a restart rebuilds, and
\* the whole records in the file, the one a failed rollback left included, are
\* always a legal replay. Of a torn tail it says nothing: open refuses a file
\* with one whatever the records before it are.
THEOREM LedgerStaysTrue == Spec => []LedgerIsTrue
<1>1. ApplyInv => LedgerIsTrue
  BY DEF ApplyInv, LedgerInv
<1> QED
  BY <1>1, ApplyInvariant, PTL

\* verify_and_reserve_change_apply: a grant is exchanged at most once, and only
\* one grant of a change is.
THEOREM ChangeIsAppliedOnce == Spec => []SingleUse
BY ApplyImplies, ApplyInvariant, PTL

\* change_apply_journal::finalize: a terminal record says what happened to the
\* entry: applied only after the exchange, failed only if the copy is not and
\* will not be installed.
THEOREM OutcomesAreTrue == Spec => []OutcomeIsTrue
BY ApplyImplies, ApplyInvariant, PTL

---------------------------------------------------------------------------
(* While the power does not fail, nothing is lost.                         *)

\* Where nobody edits, no file system that may come back has been edited.
NoEdits == edits = 0 /\ \A t \in Pasts : \A o \in Objects : t[3][o] # "edited"

\* The invariant of MCSpec: in a rough scene the power does not fail, in the
\* others nobody edits.
SceneInv ==
    /\ ApplyInv
    /\ Rough => TreesInv
    /\ ~Rough => NoEdits

LEMMA StagedIsWhole ==
    ASSUME NEW g \in Grants
    PROVE  Staged(g) \notin {"part", "edited", None}
BY DEF Staged

\* Only the copy of a call that is under way, or a baseline whose replacement
\* is recorded, is taken away, and never the live entry.
LEMMA RemovalIsSafe ==
    ASSUME ApplyInv, NEW g \in Grants,
           unwind(g) \/ discard(g) \/ cleanup(g),
           content' # content
    PROVE  /\ candidate[g] \in Objects /\ candidate[g] # source
           /\ \/ content' = [content EXCEPT ![candidate[g]] = "part"]
              \/ content' = [content EXCEPT ![candidate[g]] = None]
           /\ content[candidate[g]] # "edited"
           /\ \/ candidate[g] # Original
              \/ grants[g] # None /\ grants[g].state = "applied" /\ open
           /\ UNCHANGED <<source, disk>> /\ stale' \subseteq Pasts
<1>1. /\ CallType /\ CandidatesAreOwn /\ WellNow /\ CallsAreReserved
      /\ ClosedIsIdle /\ candidate \in [Grants -> Objects \cup {None}]
  BY ApplyFacts, LedgerFacts
<1>2. candidate[g] = g => content[g] # "edited" /\ g # Original
  BY <1>1, OwnIsHome, StagedIsWhole DEF WellNow
<1>3. /\ \E at \in {"unwind", "discard", "cleanup", "unwind_unlink",
                    "discard_unlink", "cleanup_unlink"} : pc[g] = at
      /\ \/ content' = [content EXCEPT ![candidate[g]] = "part"]
         \/ content' = [content EXCEPT ![candidate[g]] = None]
      /\ UNCHANGED <<source, disk>> /\ stale' \subseteq Pasts
  BY DEF unwind, discard, cleanup, RemoveContents, Unlink, GiveUp, tree, file,
     Synced, Unsynced, Pasts
<1>4. CASE pc[g] \in {"unwind", "unwind_unlink"}
  <2>1. candidate[g] = g
    BY <1>1, <1>4 DEF CallsAreReserved, Preparing
  <2> QED
    BY <1>1, <1>2, <1>3, <2>1 DEF WellNow, Objects
<1>5. CASE pc[g] = "discard"
  <2>1. candidate[g] # None /\ source = Original /\ classify(g) = "candidate_prepared"
    BY <1>5 DEF unwind, discard, cleanup, RemoveContents, Unlink, GiveUp, tree
  <2>2. candidate[g] = g
    BY <1>1, <2>1 DEF WellNow
  <2> QED
    BY <1>1, <1>2, <1>3, <2>2 DEF WellNow, Objects
<1>6. CASE pc[g] = "discard_unlink"
  <2>1. candidate[g] = g
    BY <1>1, <1>6 DEF CandidatesAreOwn
  <2> QED
    BY <1>1, <1>2, <1>3, <2>1 DEF WellNow, Objects
<1>7. CASE pc[g] \in {"cleanup", "cleanup_unlink"}
  <2>1. grants[g] # None /\ grants[g].state = "applied" /\ open
    BY <1>1, <1>7 DEF CallsAreReserved, ClosedIsIdle
  <2>2. candidate[g] # None /\ content[candidate[g]] # "edited"
    <3>1. CASE pc[g] = "cleanup"
      BY <3>1 DEF unwind, discard, cleanup, RemoveContents, Unlink, GiveUp,
         tree, MayCleanUp
    <3>2. CASE pc[g] = "cleanup_unlink"
      BY <1>1, <3>2 DEF CandidatesAreOwn
    <3> QED
      BY <1>7, <3>1, <3>2
  <2> QED
    BY <1>1, <1>3, <2>1, <2>2 DEF WellNow
<1> QED
  BY <1>3, <1>4, <1>5, <1>6, <1>7

\* What a step does to the trees, as long as nobody dies.
Careful ==
    /\ \A o \in Objects : content[o] = "edited" => content'[o] = "edited"
    /\ content[source] \notin {"part", None}
          => content'[source'] \notin {"part", None}
    /\ content'[Original] \in {"part", None} =>
          \/ content[Original] \in {"part", None}
          \/ \E r \in Entries(disk) : r.state = "applied"
    /\ \A r \in Entries(disk) : r \in Entries(disk')
    /\ stale' \subseteq Pasts
    /\ edits' = edits =>
          \A o \in Objects : content'[o] = "edited" => content[o] = "edited"

LEMMA AppendGrows ==
    ASSUME LedgerInv, NEW q \in Record, AppendOk(q) \/ AppendFails(q),
           NEW r \in Entries(disk)
    PROVE  r \in Entries(disk')
<1>1. disk \in Seq(Record) /\ Len(disk) \in Nat
  BY LedgerFacts
<1>2. PICK i \in 1..Len(disk) : r = disk[i]
  BY DEF Entries
<1>3. i \in 1..Len(disk') /\ disk'[i] = r
  BY <1>1, <1>2, AppendFacts DEF AppendOk, AppendFails
<1> QED
  BY <1>3 DEF Entries

LEMMA KeptIsCareful ==
    ASSUME UNCHANGED <<source, content, disk>>, stale' \subseteq Pasts
    PROVE  Careful
BY DEF Careful

LEMMA WriteIsCareful ==
    ASSUME ApplyInv, NEW g \in Grants,
           reserve(g) \/ finalize_applied(g) \/ finalize_failed(g)
    PROVE  Careful
<1>1. LedgerInv /\ ClosedIsIdle
  BY ApplyFacts, LedgerFacts
<1>2. UNCHANGED <<source, content, stale>>
  BY DEF reserve, finalize_applied, finalize_failed, Finalize, tree
<1>3. \/ UNCHANGED disk
      \/ \E q \in Record : AppendOk(q) \/ AppendFails(q)
  <2>1. CASE reserve(g)
    <3>1. Reservation(g) \in Record
      BY DEF Reservation, Record
    <3> QED
      BY <2>1, <3>1 DEF reserve
  <2>2. CASE finalize_applied(g)
    <3>1. Applied(g, observed[g]) \in Record
      BY <1>1, <2>2, AppliedFollows DEF finalize_applied, ClosedIsIdle
    <3> QED
      BY <2>2, <3>1 DEF finalize_applied, Finalize
  <2>3. CASE finalize_failed(g)
    <3>1. Failed(g) \in Record
      BY <1>1, <2>3, FailedFollows DEF finalize_failed, ClosedIsIdle
    <3> QED
      BY <2>3, <3>1 DEF finalize_failed, Finalize
  <2> QED
    BY <2>1, <2>2, <2>3
<1>4. \A r \in Entries(disk) : r \in Entries(disk')
  BY <1>1, <1>3, AppendGrows
<1> QED
  BY <1>2, <1>4 DEF Careful, Pasts

LEMMA ChangeIsCareful ==
    ASSUME ApplyInv, NEW g \in Grants,
           create_candidate(g) \/ copy_staged_tree(g) \/ exchange(g)
    PROVE  Careful
<1>1. /\ LedgerInv /\ CallType /\ CandidatesAreOwn /\ WellNow /\ CallsAreReserved
      /\ source \in Objects /\ candidate \in [Grants -> Objects \cup {None}]
      /\ content \in [Objects -> Trees \cup {None}]
  BY ApplyFacts
<1>2. UNCHANGED disk /\ stale' \subseteq Pasts
  BY DEF create_candidate, copy_staged_tree, exchange, file, Synced, Unsynced,
     Pasts
<1>3. CASE UNCHANGED <<source, content>>
  BY <1>2, <1>3, KeptIsCareful
<1>4. CASE /\ create_candidate(g) \/ copy_staged_tree(g)
           /\ ~UNCHANGED <<source, content>>
  <2>1. /\ source' = source
        /\ \/ content' = [content EXCEPT ![g] = "part"]
           \/ content' = [content EXCEPT ![g] = Staged(g)]
        /\ \/ candidate[g] = g
           \/ source = Original /\ candidate[g] = None
    BY <1>1, <1>4 DEF create_candidate, copy_staged_tree, Eligible,
       CallsAreReserved, Preparing
  <2>2. ~Away(g) /\ source # g
    BY <1>1, <2>1, OwnIsHome DEF WellNow, Away
  <2>3. content[g] # "edited" /\ g # Original
    BY <1>1, <2>2, StagedIsWhole DEF WellNow
  <2> QED
    BY <1>1, <1>2, <2>1, <2>2, <2>3, StagedIsWhole DEF Careful, Objects
<1>5. CASE exchange(g) /\ source' # source
  <2>1. source' = g /\ UNCHANGED content /\ content[g] = Staged(g)
    BY <1>1, <1>5 DEF exchange, CallsAreReserved, CandidatesAreOwn, Preparing
  <2> QED
    BY <1>2, <2>1, StagedIsWhole DEF Careful
<1> QED
  BY <1>3, <1>4, <1>5 DEF exchange

LEMMA RemovalIsCareful ==
    ASSUME ApplyInv, NEW g \in Grants, unwind(g) \/ discard(g) \/ cleanup(g)
    PROVE  Careful
<1>1. /\ LedgerInv /\ source \in Objects
      /\ content \in [Objects -> Trees \cup {None}]
      /\ disk \in Seq(Record) /\ (open => grants = Replay(disk))
  BY ApplyFacts, LedgerFacts
<1>2. CASE content' = content
  <2>1. UNCHANGED <<source, disk>> /\ stale' \subseteq Pasts
    BY DEF unwind, discard, cleanup, RemoveContents, Unlink, GiveUp, tree,
       file, Synced, Unsynced, Pasts
  <2> QED
    BY <1>2, <2>1, KeptIsCareful
<1>3. CASE content' # content
  <2>1. /\ candidate[g] \in Objects /\ candidate[g] # source
        /\ \/ content' = [content EXCEPT ![candidate[g]] = "part"]
           \/ content' = [content EXCEPT ![candidate[g]] = None]
        /\ content[candidate[g]] # "edited"
        /\ \/ candidate[g] # Original
           \/ grants[g] # None /\ grants[g].state = "applied" /\ open
        /\ UNCHANGED <<source, disk>> /\ stale' \subseteq Pasts
    BY <1>3, RemovalIsSafe
  <2>2. \/ candidate[g] # Original
        \/ \E r \in Entries(disk) : r.state = "applied"
    <3>1. ASSUME grants[g] # None, grants[g].state = "applied", open
          PROVE  \E r \in Entries(disk) : r.state = "applied"
      <4>1. PICK n \in 1..Len(disk) : grants[g] = disk[n]
        BY <1>1, <3>1, ReplayCases
      <4> QED
        BY <3>1, <4>1 DEF Entries
    <3> QED
      BY <2>1, <3>1
  <2>3. \A o \in Objects : o # candidate[g] => content'[o] = content[o]
    BY <1>1, <2>1
  <2>4. content'[candidate[g]] \in {"part", None}
    BY <1>1, <2>1
  <2> QED
    BY <1>1, <2>1, <2>2, <2>3, <2>4 DEF Careful, Objects
<1> QED
  BY <1>2, <1>3

LEMMA OpenIsCareful ==
    ASSUME ApplyInv, open_journal
    PROVE  Careful
<1>1. LedgerInv /\ disk \in Seq(Record) /\ Len(disk) \in Nat
  BY ApplyFacts, LedgerFacts
<1>2. UNCHANGED <<source, content, stale>>
  BY DEF open_journal, tree
<1>3. disk' \in {disk, Readable}
  BY DEF open_journal
<1>4. \A r \in Entries(disk) : r \in Entries(disk')
  BY <1>1, <1>3, DiskIsRead
<1> QED
  BY <1>2, <1>4 DEF Careful, Pasts

LEMMA EditIsCareful ==
    ASSUME ApplyInv, edit
    PROVE  Careful
<1>1. /\ source \in Objects /\ content \in [Objects -> Trees \cup {None}]
      /\ edits \in Nat
  BY ApplyFacts DEF CallType
<1>2. /\ content' = [content EXCEPT ![source] = "edited"] /\ edits' # edits
      /\ UNCHANGED <<source, disk>> /\ stale' \subseteq Pasts
  BY <1>1 DEF edit, file, Unsynced, Pasts
<1> QED
  BY <1>1, <1>2 DEF Careful, Objects

LEMMA NextIsCareful ==
    ASSUME ApplyInv, [Next]_vars, ~Crash
    PROVE  Careful
<1>1. CASE reconcile \/ UNCHANGED vars
  BY <1>1, KeptIsCareful DEF reconcile, vars, tree, file, Pasts
<1>2. ASSUME NEW g \in Grants,
             \/ execute_authorized_change_apply(g)
             \/ recover_pending_change_apply(g)
             \/ finalize_committed_change_apply_recovery(g)
             \/ reconcile_record(g) \/ check_source(g) \/ sync_exchange(g)
             \/ verify_exchange(g) \/ inspect(g)
      PROVE  Careful
  <2>1. UNCHANGED <<file, tree>> /\ (stale' = stale \/ stale' = {})
    BY <1>2 DEF execute_authorized_change_apply, recover_pending_change_apply,
       finalize_committed_change_apply_recovery, Recover, reconcile_record,
       check_source, sync_exchange, Synced, verify_exchange, inspect
  <2> QED
    BY <2>1, KeptIsCareful DEF tree, file, Pasts
<1> QED
  BY <1>1, <1>2, OpenIsCareful, EditIsCareful, WriteIsCareful, ChangeIsCareful,
     RemovalIsCareful DEF Next, Step

LEMMA SceneStep ==
    ASSUME SceneInv, [MCNext]_<<vars, team>>
    PROVE  SceneInv' /\ [\A o \in Objects :
              content[o] = "edited" => content'[o] = "edited"]_vars
<1>1. [Next]_vars /\ ApplyInv /\ ApplyInv' /\ (Rough' <=> Rough)
  BY NextApply DEF MCNext, SceneInv, Rough, vars
<1>2. /\ source \in Objects /\ content \in [Objects -> Trees \cup {None}]
      /\ CallType
  BY <1>1, ApplyFacts
<1>3. CASE Crash
  <2>1. crashes' > crashes /\ UNCHANGED edits
    BY <1>2, <1>3 DEF Crash, CallType
  <2>2. MCNext
    BY <1>2, <2>1 DEF vars, CallType
  <2>3. CASE Rough
    <3>1. UNCHANGED <<disk, source, content>>
      BY <2>1, <2>2, <2>3 DEF MCNext, tree
    <3> QED
      BY <1>1, <2>3, <3>1 DEF SceneInv, TreesInv, SourceIsWhole
  <2>4. CASE ~Rough
    <3>1. NoEdits
      BY <2>4 DEF SceneInv
    <3>2. UNCHANGED <<tree, stale>> \/ PowerLoss
      BY <1>3 DEF Crash
    <3>3. \A t \in Pasts' : \A o \in Objects : t[3][o] # "edited"
      <4>1. CASE UNCHANGED <<tree, stale>>
        BY <3>1, <4>1 DEF NoEdits, Pasts
      <4>2. CASE PowerLoss
        <5>1. PICK past \in Pasts : content' = past[3]
          BY <4>2 DEF PowerLoss, Pasts
        <5>2. Pasts' = {tree'} /\ tree'[3] = content'
          BY <4>2 DEF PowerLoss, Pasts, tree
        <5> QED
          BY <3>1, <5>1, <5>2 DEF NoEdits
      <4> QED
        BY <3>2, <4>1, <4>2
    <3>4. \A o \in Objects : content[o] # "edited"
      <4>1. tree \in Pasts /\ tree[3] = content
        BY DEF Pasts, tree
      <4> QED
        BY <3>1, <4>1 DEF NoEdits
    <3> QED
      BY <1>1, <2>1, <2>4, <3>1, <3>3, <3>4 DEF SceneInv, NoEdits
  <2> QED
    BY <2>3, <2>4
<1>4. CASE ~Crash
  <2>1. Careful
    BY <1>1, <1>4, NextIsCareful
  <2>2. Rough => TreesInv'
    BY <2>1 DEF SceneInv, TreesInv, SourceIsWhole, Careful
  <2>3. ASSUME ~Rough PROVE NoEdits'
    <3>1. edits = 0 /\ \A t \in Pasts : \A o \in Objects : t[3][o] # "edited"
      BY <2>3 DEF SceneInv, NoEdits
    <3>2. edits' = 0
      <4>1. faults' \in Nat /\ edits' \in Nat
        BY <1>1, ApplyFacts DEF ApplyInv, LedgerInv, LedgerIsTrue, TypeOK
      <4> QED
        BY <2>3, <3>1, <4>1 DEF MCNext, vars
    <3>3. \A o \in Objects : content[o] # "edited"
      <4>1. tree \in Pasts /\ tree[3] = content
        BY DEF Pasts, tree
      <4> QED
        BY <3>1, <4>1
    <3>4. \A o \in Objects : tree'[3][o] # "edited"
      BY <2>1, <3>1, <3>2, <3>3 DEF Careful, tree
    <3>5. Pasts' \subseteq Pasts \cup {tree'}
      BY <2>1, PastsGrow DEF Careful
    <3> QED
      BY <3>1, <3>2, <3>4, <3>5 DEF NoEdits
  <2> QED
    BY <1>1, <2>1, <2>2, <2>3 DEF SceneInv, Careful
<1> QED
  BY <1>3, <1>4

LEMMA SceneInit == MCInit => SceneInv
<1> SUFFICES ASSUME MCInit PROVE SceneInv
  OBVIOUS
<1>1. ApplyInv
  BY InitApply DEF MCInit
<1>2. content[Original] = "baseline" /\ source = Original /\ edits = 0
      /\ \A o \in Objects : content[o] # "edited"
  BY DEF MCInit, Init, Objects
<1>3. Pasts = {tree} /\ tree[3] = content
  BY DEF MCInit, Init, Pasts, tree
<1>4. TreesInv /\ NoEdits
  BY <1>2, <1>3 DEF TreesInv, SourceIsWhole, NoEdits
<1> QED
  BY <1>1, <1>4 DEF SceneInv

LEMMA SceneImplies == SceneInv => TreesSurviveCrashes
<1> SUFFICES ASSUME SceneInv, Rough PROVE TreesSurvive
  BY DEF TreesSurviveCrashes
<1>1. TreesInv /\ LedgerInv /\ Readable \in Seq(Record) /\ Replayable(Readable)
  BY ApplyFacts, LedgerFacts DEF SceneInv
<1>2. ASSUME NEW r \in Entries(disk), r.state = "applied"
      PROVE  \E g \in Grants : Outcome(g) = "applied"
  <2>1. PICK i \in 1..Len(Readable) : r = Readable[i]
    BY <1>1, DiskIsRead DEF Entries
  <2>2. r \in Record /\ r.grant \in Grants /\ r # None
    BY <1>1, <2>1, RecordFields
  <2>3. Replay(Readable)[r.grant] = r
    BY <1>1, <1>2, <2>1, TerminalIsLast
  <2>4. Outcome(r.grant) = "applied"
    BY <1>2, <2>2, <2>3 DEF Outcome
  <2> QED
    BY <2>2, <2>4
<1> QED
  BY <1>1, <1>2 DEF TreesSurvive, SourceIsWhole, BaselineSurvives, TreesInv

\* execute_change_apply_exchange and cleanup_finalized_change_apply_baseline:
\* while the power does not fail, the live name has a whole tree wherever a
\* call fails or the daemon dies, and the tree it had at first is not removed
\* before its replacement is on record.
THEOREM TreesAreKept == MCSpec => []TreesSurviveCrashes
<1>1. SceneInv /\ [MCNext]_<<vars, team>> => SceneInv'
  BY SceneStep
<1> QED
  BY <1>1, SceneInit, SceneImplies, PTL DEF MCSpec

\* cleanup, discard and the unwinding of a failed exchange never remove what
\* somebody wrote into the live entry, whoever exchanged it away.
THEOREM EditsAreKept == MCSpec => EditsSurvive
<1>1. SceneInv /\ [MCNext]_<<vars, team>> => SceneInv'
  BY SceneStep
<1>2. SceneInv /\ [MCNext]_<<vars, team>> =>
        [\A o \in Objects : content[o] = "edited" => content'[o] = "edited"]_vars
  BY SceneStep
<1> QED
  BY <1>1, <1>2, SceneInit, PTL DEF MCSpec, EditsSurvive
=============================================================================
