--------------------------- MODULE PublishProofs ---------------------------
(***************************************************************************)
(* Theorems of the write path, for every set of events, every fault the    *)
(* configuration lets happen, and every bound.                             *)
(***************************************************************************)
EXTENDS Publish, TLAPS

Rows == {Row(ev) : ev \in Event}

(***************************************************************************)
(* A row is its event but for created_at.                                  *)
(***************************************************************************)
LEMMA RowKeeps ==
  ASSUME NEW ev \in Event
  PROVE  /\ Row(ev).id = ev.id
         /\ Row(ev).pubkey = ev.pubkey
         /\ Row(ev).kind = ev.kind
         /\ Row(ev).tags = ev.tags
         /\ Delegators(Row(ev)) = Delegators(ev)
         /\ IndexEntries(Row(ev)) = IndexEntries(ev)
<1>1. /\ Row(ev).id = ev.id
      /\ Row(ev).pubkey = ev.pubkey
      /\ Row(ev).kind = ev.kind
      /\ Row(ev).tags = ev.tags
  BY EventIsRecord DEF Row
<1>2. Delegators(Row(ev)) = Delegators(ev)
  BY <1>1 DEF Delegators, TagValues, TagsNamed
<1> QED BY <1>1, <1>2 DEF IndexEntries

(***************************************************************************)
(* The results the code answers with.                                      *)
(***************************************************************************)
LEMMA ResultsTyped ==
  /\ Accept \in Results /\ NoResult \in Results
  /\ \A m \in {"invalid", "error", "duplicate"} : Reject(m) \in Results
  /\ \A ev \in Event, f \in BOOLEAN : InsertResult(ev, f) \in Results
BY DEF Accept, NoResult, Reject, InsertResult, StoreOnly, Results

-----------------------------------------------------------------------------
(***************************************************************************)
(* The inductive invariant.  DelegationSound is not inductive by itself:   *)
(* an index entry is written one or more steps after the row it points     *)
(* at, and the row must still be there.                                    *)
(***************************************************************************)
IndexedIsHeld == pc = "index" => Row(cur) \in event

SoundInv == TypeOK /\ DelegationSound /\ IndexedIsHeld

LEMMA SoundInit == Init => SoundInv
<1> SUFFICES ASSUME Init PROVE SoundInv OBVIOUS
<1>1. StorageTypeOK
  BY LegacyIsEvents DEF Init, StorageTypeOK
<1>2. NoResult \in Results
  BY ResultsTyped
<1>3. now \in 0..MaxNow
  BY BoundsAreNaturals DEF Init
<1> QED
  BY <1>1, <1>2, <1>3
  DEF Init, SoundInv, TypeOK, DelegationSound, IndexedIsHeld, TodoOK, Publishing, Steps, StorageTypeOK

(***************************************************************************)
(* Deleting rows: their index entries go with them.                        *)
(***************************************************************************)
LEMMA DeleteRowsSound ==
  ASSUME StorageTypeOK, DelegationSound, NEW rows, DeleteRows(rows)
  PROVE  StorageTypeOK' /\ DelegationSound'
<1>1. StorageTypeOK'
  BY DEF StorageTypeOK, DeleteRows
<1>2. ASSUME NEW entry \in delegation'
      PROVE  \E r \in event' : r.id = entry[1] /\ entry[2] \in Delegators(r)
  <2>1. entry \in delegation /\ entry[1] \notin Ids(rows)
    BY <1>2 DEF DeleteRows
  <2>2. PICK r \in event : r.id = entry[1] /\ entry[2] \in Delegators(r)
    BY <2>1 DEF DelegationSound
  <2>3. r \notin rows
    BY <2>1, <2>2 DEF Ids
  <2> QED BY <2>2, <2>3 DEF DeleteRows
<1> QED BY <1>1, <1>2 DEF DelegationSound

(***************************************************************************)
(* Writing an index entry of a stored row keeps the index sound.           *)
(***************************************************************************)
LEMMA IndexDelegatorSound ==
  ASSUME StorageTypeOK, DelegationSound,
         NEW r \in event, NEW entry \in IndexEntries(r), IndexDelegator(entry)
  PROVE  StorageTypeOK' /\ DelegationSound'
<1>1. PICK ev \in Event : r = Row(ev)
  BY DEF StorageTypeOK
<1>2. entry \in IndexEntries(ev)
  BY <1>1, RowKeeps
<1>3. StorageTypeOK'
  BY <1>2 DEF StorageTypeOK, IndexDelegator
<1>4. r.id = entry[1] /\ entry[2] \in Delegators(r)
  BY DEF IndexEntries
<1>5. DelegationSound'
  BY <1>4 DEF DelegationSound, IndexDelegator
<1> QED BY <1>3, <1>5

(***************************************************************************)
(* A step that leaves the tables alone leaves the index sound.             *)
(***************************************************************************)
LEMMA StorageKept ==
  ASSUME StorageTypeOK, DelegationSound, UNCHANGED storageVars
  PROVE  StorageTypeOK' /\ DelegationSound'
BY DEF StorageTypeOK, DelegationSound, storageVars

(***************************************************************************)
(* A handler that is done with the store and answers.                      *)
(***************************************************************************)
LEMMA AnsweringSound ==
  ASSUME SoundInv, Publishing, NEW r \in Results, Answering(r),
         UNCHANGED <<storageVars, now, cur, failed, before>>
  PROVE  SoundInv'
<1>1. StorageTypeOK' /\ DelegationSound'
  BY StorageKept DEF SoundInv, TypeOK
<1> QED
  BY <1>1 DEF SoundInv, TypeOK, TodoOK, Publishing, Steps, IndexedIsHeld, Answering

-----------------------------------------------------------------------------
(***************************************************************************)
(* The actions, group by group.                                            *)
(***************************************************************************)
LEMMA ReceiveSound ==
  ASSUME SoundInv, NEW ev \in Event, NEW auth, NEW valid, Receive(ev, auth, valid)
  PROVE  SoundInv'
<1>1. StorageTypeOK' /\ DelegationSound'
  BY StorageKept DEF SoundInv, TypeOK, Receive
<1>2. before' \subseteq Rows /\ now' \in 0..MaxNow /\ cur' \in Event /\ failed' \in BOOLEAN
  BY DEF SoundInv, TypeOK, StorageTypeOK, Receive, Rows
<1>3. /\ pc' \in {"reply", "replace", "targets", "vanish", "insert"}
      /\ pc' = "targets" => todo' \subseteq DeletionTargets(cur')
      /\ pc' # "targets" => todo' = {}
      /\ result' \in Results
  BY ResultsTyped DEF SoundInv, TypeOK, Receive, Dispatch, Answering
<1> QED
  BY <1>1, <1>2, <1>3 DEF SoundInv, TypeOK, TodoOK, Publishing, Steps, IndexedIsHeld, Rows

LEMMA ReplaceSound ==
  ASSUME SoundInv, Replace \/ ReplaceFails \/ ReplaceMisread
  PROVE  SoundInv'
<1>1. ASSUME Replace \/ ReplaceMisread PROVE SoundInv'
  <2>1. PICK rows : DeleteRows(rows)
    BY <1>1 DEF Replace, ReplaceMisread
  <2>2. StorageTypeOK' /\ DelegationSound'
    BY <2>1, DeleteRowsSound DEF SoundInv, TypeOK
  <2> QED
    BY <1>1, <2>2
    DEF SoundInv, TypeOK, TodoOK, Publishing, Steps, IndexedIsHeld, Replace, ReplaceMisread
<1>2. CASE ReplaceFails
  BY <1>2, AnsweringSound, ResultsTyped DEF ReplaceFails, Publishing
<1> QED BY <1>1, <1>2

LEMMA TargetsSound ==
  ASSUME SoundInv,
         \/ \E p \in todo : \/ DeleteEventTarget(p) \/ DeleteAddressTarget(p)
                            \/ DeleteTargetFails(p)
                            \/ EventTargetMisread(p) \/ AddressTargetMisread(p)
         \/ TargetsDone
  PROVE  SoundInv'
<1>1. ASSUME NEW p \in todo,
             DeleteEventTarget(p) \/ DeleteAddressTarget(p) \/ AddressTargetMisread(p)
      PROVE  SoundInv'
  <2>1. PICK rows : DeleteRows(rows)
    BY <1>1 DEF DeleteEventTarget, DeleteAddressTarget, AddressTargetMisread
  <2>2. StorageTypeOK' /\ DelegationSound'
    BY <2>1, DeleteRowsSound DEF SoundInv, TypeOK
  <2>3. /\ failed' \in BOOLEAN /\ pc = "targets" /\ todo' = todo \ {p}
        /\ UNCHANGED <<now, pc, cur, result, before>>
    BY <1>1 DEF SoundInv, TypeOK, DeleteEventTarget, DeleteAddressTarget, AddressTargetMisread
  <2> QED
    BY <2>2, <2>3 DEF SoundInv, TypeOK, TodoOK, Publishing, Steps, IndexedIsHeld
<1>2. ASSUME NEW p \in todo, DeleteTargetFails(p) \/ EventTargetMisread(p) PROVE SoundInv'
  <2>1. StorageTypeOK' /\ DelegationSound'
    BY <1>2, StorageKept DEF SoundInv, TypeOK, DeleteTargetFails, EventTargetMisread
  <2>2. failed' \in BOOLEAN
    BY <1>2 DEF SoundInv, TypeOK, DeleteTargetFails, EventTargetMisread
  <2> QED
    BY <1>2, <2>1, <2>2
    DEF SoundInv, TypeOK, TodoOK, Publishing, Steps, IndexedIsHeld, DeleteTargetFails, EventTargetMisread
<1>3. CASE TargetsDone
  <2>1. StorageTypeOK' /\ DelegationSound'
    BY <1>3, StorageKept DEF SoundInv, TypeOK, TargetsDone
  <2> QED
    BY <1>3, <2>1
    DEF SoundInv, TypeOK, TodoOK, Publishing, Steps, IndexedIsHeld, TargetsDone
<1> QED BY <1>1, <1>2, <1>3

LEMMA VanishSound ==
  ASSUME SoundInv, Vanish \/ VanishFails
  PROVE  SoundInv'
<1>1. CASE Vanish
  <2>1. StorageTypeOK' /\ DelegationSound'
    BY <1>1, DeleteRowsSound DEF SoundInv, TypeOK, Vanish
  <2> QED
    BY <1>1, <2>1 DEF SoundInv, TypeOK, TodoOK, Publishing, Steps, IndexedIsHeld, Vanish
<1>2. CASE VanishFails
  BY <1>2, AnsweringSound, ResultsTyped DEF VanishFails, Publishing
<1> QED BY <1>1, <1>2

LEMMA InsertSound ==
  ASSUME SoundInv, Insert \/ InsertRefused \/ Index \/ IndexFails \/ Indexed \/ Reply
  PROVE  SoundInv'
<1>1. CASE Insert
  <2>1. cur \in Event
    BY <1>1 DEF SoundInv, TypeOK, Publishing, Insert
  <2>2. StorageTypeOK' /\ DelegationSound'
    BY <1>1, <2>1 DEF SoundInv, TypeOK, StorageTypeOK, DelegationSound, Insert, InsertRow
  <2> QED
    BY <1>1, <2>2
    DEF SoundInv, TypeOK, TodoOK, Publishing, Steps, IndexedIsHeld, Insert, InsertRow
<1>2. CASE InsertRefused
  BY <1>2, AnsweringSound, ResultsTyped DEF InsertRefused, Publishing
<1>3. CASE Index
  <2>1. PICK entry \in todo : IndexDelegator(entry) /\ todo' = todo \ {entry}
    BY <1>3 DEF Index
  <2>2. cur \in Event /\ entry \in IndexEntries(cur) /\ Row(cur) \in event
    BY <1>3 DEF SoundInv, TypeOK, TodoOK, Publishing, IndexedIsHeld, Index
  <2>3. StorageTypeOK' /\ DelegationSound'
    BY <2>1, <2>2, RowKeeps, IndexDelegatorSound DEF SoundInv, TypeOK
  <2> QED
    BY <1>3, <2>1, <2>2, <2>3
    DEF SoundInv, TypeOK, TodoOK, Publishing, Steps, IndexedIsHeld, Index, IndexDelegator
<1>4. CASE IndexFails
  <2>1. StorageTypeOK' /\ DelegationSound'
    BY <1>4, StorageKept DEF SoundInv, TypeOK, IndexFails
  <2> QED
    BY <1>4, <2>1
    DEF SoundInv, TypeOK, TodoOK, Publishing, Steps, IndexedIsHeld, IndexFails, storageVars
<1>5. CASE Indexed
  <2>1. InsertResult(cur, failed) \in Results
    BY <1>5, ResultsTyped DEF SoundInv, TypeOK, Publishing, Indexed
  <2> QED BY <1>5, <2>1, AnsweringSound DEF Indexed, Publishing
<1>6. CASE Reply
  <2>1. StorageTypeOK' /\ DelegationSound'
    BY <1>6, StorageKept DEF SoundInv, TypeOK, Reply
  <2> QED
    BY <1>6, <2>1, ResultsTyped
    DEF SoundInv, TypeOK, TodoOK, Publishing, Steps, IndexedIsHeld, Reply
<1> QED BY <1>1, <1>2, <1>3, <1>4, <1>5, <1>6

LEMMA PurgeSound ==
  ASSUME SoundInv, Purge
  PROVE  SoundInv'
<1>1. CASE PurgeBegin
  <2>1. StorageTypeOK' /\ DelegationSound'
    BY <1>1, StorageKept DEF SoundInv, TypeOK, PurgeBegin
  <2>2. todo' \subseteq before' /\ before' \subseteq Rows
    BY <1>1
    DEF SoundInv, TypeOK, StorageTypeOK, PurgeBegin, PurgeScans, PurgeCandidates, Rows
  <2> QED
    BY <1>1, <2>1, <2>2
    DEF SoundInv, TypeOK, TodoOK, Publishing, Steps, IndexedIsHeld, PurgeBegin, Rows
<1>2. CASE PurgeRow
  <2>1. PICK rows : DeleteRows(rows)
    BY <1>2 DEF PurgeRow
  <2>2. StorageTypeOK' /\ DelegationSound'
    BY <2>1, DeleteRowsSound DEF SoundInv, TypeOK
  <2> QED
    BY <1>2, <2>2 DEF SoundInv, TypeOK, TodoOK, Publishing, Steps, IndexedIsHeld, PurgeRow
<1>3. CASE PurgeRowFails \/ PurgeEnd
  <2>1. StorageTypeOK' /\ DelegationSound'
    BY <1>3, StorageKept DEF SoundInv, TypeOK, PurgeRowFails, PurgeEnd
  <2> QED
    BY <1>3, <2>1
    DEF SoundInv, TypeOK, TodoOK, Publishing, Steps, IndexedIsHeld, PurgeRowFails, PurgeEnd
<1> QED BY <1>1, <1>2, <1>3 DEF Purge

LEMMA LifecycleSound ==
  ASSUME SoundInv, Lifecycle
  PROVE  SoundInv'
<1>1. CASE Stop \/ Crash
  <2>1. StorageTypeOK' /\ DelegationSound'
    BY <1>1, StorageKept DEF SoundInv, TypeOK, Stop, Crash, GoDown
  <2> QED
    BY <1>1, <2>1, ResultsTyped
    DEF SoundInv, TypeOK, TodoOK, Publishing, Steps, IndexedIsHeld, Stop, Crash, GoDown
<1>2. CASE Start
  <2>1. StorageTypeOK' /\ DelegationSound'
    BY <1>2, StorageKept DEF SoundInv, TypeOK, Start
  <2> QED
    BY <1>2, <2>1
    DEF SoundInv, TypeOK, TodoOK, Publishing, Steps, IndexedIsHeld, Start, storageVars, MigrationCandidates
<1>3. CASE Backfill
  <2>1. PICK entry \in todo : IndexDelegator(entry) /\ todo' = todo \ {entry}
    BY <1>3 DEF Backfill
  <2>2. PICK r \in event : entry \in IndexEntries(r)
    BY <1>3 DEF SoundInv, TypeOK, TodoOK, Backfill
  <2>3. StorageTypeOK' /\ DelegationSound'
    BY <2>1, <2>2, IndexDelegatorSound DEF SoundInv, TypeOK
  <2> QED
    BY <1>3, <2>1, <2>3
    DEF SoundInv, TypeOK, TodoOK, Publishing, Steps, IndexedIsHeld, Backfill, IndexDelegator
<1>4. CASE BackfillDone
  <2>1. StorageTypeOK' /\ DelegationSound'
    BY <1>4 DEF SoundInv, TypeOK, StorageTypeOK, DelegationSound, BackfillDone, MarkBackfilled
  <2> QED
    BY <1>4, <2>1 DEF SoundInv, TypeOK, TodoOK, Publishing, Steps, IndexedIsHeld, BackfillDone
<1>5. CASE BackfillFails \/ MarkFails
  <2>1. StorageTypeOK' /\ DelegationSound'
    BY <1>5, StorageKept DEF SoundInv, TypeOK, BackfillFails, MarkFails
  <2> QED
    BY <1>5, <2>1
    DEF SoundInv, TypeOK, TodoOK, Publishing, Steps, IndexedIsHeld, BackfillFails, MarkFails, storageVars
<1> QED BY <1>1, <1>2, <1>3, <1>4, <1>5 DEF Lifecycle, Migration

LEMMA TickSound ==
  ASSUME SoundInv, Tick \/ UNCHANGED vars
  PROVE  SoundInv'
<1>1. StorageTypeOK' /\ DelegationSound'
  BY StorageKept DEF SoundInv, TypeOK, Tick, vars, storageVars
<1>2. now' \in 0..MaxNow
  BY BoundsAreNaturals DEF SoundInv, TypeOK, Tick, vars
<1> QED
  BY <1>1, <1>2
  DEF SoundInv, TypeOK, TodoOK, Publishing, Steps, IndexedIsHeld, Tick, vars, jobVars, storageVars

LEMMA SoundNext == SoundInv /\ [Next]_vars => SoundInv'
<1> SUFFICES ASSUME SoundInv, [Next]_vars PROVE SoundInv' OBVIOUS
<1> QED
  BY ReceiveSound, ReplaceSound, TargetsSound, VanishSound, InsertSound,
     PurgeSound, LifecycleSound, TickSound
  DEF Next, Listener

-----------------------------------------------------------------------------
(***************************************************************************)
(* The state of the write path is well typed, whatever fails and wherever  *)
(* the process dies.                                                       *)
(***************************************************************************)
THEOREM TypeCorrect == Spec => []TypeOK
<1>1. SoundInv => TypeOK
  BY DEF SoundInv
<1> QED BY <1>1, SoundInit, SoundNext, PTL DEF Spec

(***************************************************************************)
(* The delegation index never points at an event that is gone, or at one   *)
(* that names no such delegator (storage.c:1236, "ON DELETE CASCADE keeps  *)
(* it in sync with event deletions"), whatever fails and wherever the      *)
(* process dies.                                                           *)
(***************************************************************************)
THEOREM IndexIsSound == Spec => []DelegationSound
<1>1. SoundInv => DelegationSound
  BY DEF SoundInv
<1> QED BY <1>1, SoundInit, SoundNext, PTL DEF Spec

-----------------------------------------------------------------------------
(***************************************************************************)
(* Theorems of the write path that need some faults to be absent: the      *)
(* delegation index misses nothing, and a duplicate is one.                *)
(***************************************************************************)

(***************************************************************************)
(* The inductive invariant.  Entries that are not written yet are the work *)
(* left in the loop of store_delegations or of the migration.  A database  *)
(* that goes down while neither loop runs has none.                        *)
(***************************************************************************)
Writing == pc = "backfill" \/ (backfilled /\ pc = "index")

Covered ==
  /\ Writing => \A r \in event : IndexEntries(r) \subseteq delegation \cup todo
  /\ backfilled /\ pc # "index" => \A r \in event : IndexEntries(r) \subseteq delegation

CompleteInv == SoundInv /\ Covered

NoneIsLost == Faults \cap {"crash", "index", "read"} = {}

(***************************************************************************)
(* The migration looks for the word itself in a row's text: no client has  *)
(* written the name of a delegation tag with an escape.                    *)
(***************************************************************************)
DelegationIsPlain == \A ev \in Event : Delegators(ev) # {} => Says(ev, "delegation")

LEMMA IndexedAreCandidates ==
  ASSUME DelegationIsPlain, StorageTypeOK, NEW r \in event, IndexEntries(r) # {}
  PROVE  r \in MigrationCandidates
<1>1. PICK ev \in Event : r = Row(ev)
  BY DEF StorageTypeOK
<1>2. r.id = ev.id /\ Delegators(r) = Delegators(ev)
  BY <1>1, RowKeeps
<1>3. Says(ev, "delegation")
  BY <1>2 DEF DelegationIsPlain, IndexEntries
<1> QED BY <1>2, <1>3 DEF MigrationCandidates, Says, Written

(***************************************************************************)
(* A table has one row of an id.                                           *)
(***************************************************************************)
LEMMA RowOfId ==
  ASSUME StorageTypeOK, NEW r \in event, NEW s \in event, r.id = s.id
  PROVE  r = s
<1>1. PICK e \in Event : r = Row(e)
  BY DEF StorageTypeOK
<1>2. PICK f \in Event : s = Row(f)
  BY DEF StorageTypeOK
<1>3. e.id = f.id
  BY <1>1, <1>2, RowKeeps
<1> QED BY <1>1, <1>2, <1>3, IdIsHash

(***************************************************************************)
(* A delete takes the entries of the rows it deletes, and no other row's.  *)
(***************************************************************************)
LEMMA DeleteRowsCovered ==
  ASSUME StorageTypeOK, NEW rows, rows \subseteq event, DeleteRows(rows),
         \A r \in event : IndexEntries(r) \subseteq delegation
  PROVE  \A r \in event' : IndexEntries(r) \subseteq delegation'
<1> SUFFICES ASSUME NEW r \in event', NEW entry \in IndexEntries(r)
             PROVE  entry \in delegation'
  OBVIOUS
<1>1. r \in event /\ r \notin rows /\ entry \in delegation
  BY DEF DeleteRows
<1>2. entry[1] = r.id
  BY DEF IndexEntries
<1>3. entry[1] \notin Ids(rows)
  BY <1>1, <1>2, RowOfId DEF Ids
<1> QED BY <1>1, <1>3 DEF DeleteRows

(***************************************************************************)
(* Steps that delete while no entry is due, and steps that write nothing.  *)
(***************************************************************************)
LEMMA DeletingCovered ==
  ASSUME CompleteInv, pc \notin {"index", "backfill"}, pc' \notin {"index", "backfill"},
         NEW rows, rows \subseteq event, DeleteRows(rows)
  PROVE  Covered'
<1>1. CASE backfilled
  BY <1>1, DeleteRowsCovered DEF CompleteInv, SoundInv, TypeOK, Covered, Writing, DeleteRows
<1>2. CASE ~backfilled
  BY <1>2 DEF Covered, Writing, DeleteRows
<1> QED BY <1>1, <1>2

LEMMA QuietCovered ==
  ASSUME CompleteInv, pc \notin {"index", "backfill"}, pc' \notin {"index", "backfill"},
         UNCHANGED storageVars
  PROVE  Covered'
BY DEF CompleteInv, Covered, Writing, storageVars

-----------------------------------------------------------------------------
LEMMA TargetsCovered ==
  ASSUME CompleteInv, NEW p \in todo,
         \/ DeleteEventTarget(p) \/ DeleteAddressTarget(p)
         \/ DeleteTargetFails(p)
         \/ EventTargetMisread(p) \/ AddressTargetMisread(p)
  PROVE  Covered'
<1>1. CASE DeleteEventTarget(p)
  <2>1. EventTargetRows(TargetValue(p)) \subseteq event
    BY DEF EventTargetRows, ByIdAndKindAndPtag, ByIdAndPubkey
  <2> QED BY <1>1, <2>1, DeletingCovered DEF DeleteEventTarget
<1>2. CASE DeleteAddressTarget(p) \/ AddressTargetMisread(p)
  <2>1. AddressTargetRows(TargetValue(p)) \subseteq event
    BY DEF AddressTargetRows, ByKindAndPubkeyAndDtag, ByKindAndPubkey
  <2>2. PICK rows \in SUBSET AddressTargetRows(TargetValue(p)) : DeleteRows(rows)
    BY <1>2 DEF DeleteAddressTarget, AddressTargetMisread
  <2>3. pc = "targets" /\ pc' = "targets"
    BY <1>2 DEF DeleteAddressTarget, AddressTargetMisread
  <2> QED BY <2>1, <2>2, <2>3, DeletingCovered
<1>3. CASE DeleteTargetFails(p) \/ EventTargetMisread(p)
  BY <1>3, QuietCovered DEF DeleteTargetFails, EventTargetMisread
<1> QED BY <1>1, <1>2, <1>3

LEMMA ListenerCovered ==
  ASSUME NoneIsLost, CompleteInv, Listener
  PROVE  Covered'
<1>1. CASE Replace \/ ReplaceMisread
  <2>1. OlderVersions(cur) \subseteq event
    BY DEF OlderVersions, ByKindAndPubkeyAndDtag, ByKindAndPubkey
  <2>2. PICK rows \in SUBSET OlderVersions(cur) : DeleteRows(rows)
    BY <1>1 DEF Replace, ReplaceMisread
  <2>3. pc = "replace" /\ pc' = "insert"
    BY <1>1 DEF Replace, ReplaceMisread
  <2> QED BY <2>1, <2>2, <2>3, DeletingCovered
<1>2. CASE Vanish
  <2>1. ByPubkeyUpTo(cur.pubkey, cur.created_at, cur.kind) \subseteq event
    BY DEF ByPubkeyUpTo
  <2> QED BY <1>2, <2>1, DeletingCovered DEF Vanish
<1>3. CASE ReplaceFails \/ VanishFails \/ TargetsDone \/ InsertRefused \/ Reply
  BY <1>3, QuietCovered
  DEF ReplaceFails, VanishFails, TargetsDone, InsertRefused, Reply, Answering
<1>4. CASE Insert
  <2>1. cur \in Event
    BY <1>4 DEF CompleteInv, SoundInv, TypeOK, Publishing, Insert
  <2>2. IndexEntries(Row(cur)) = todo'
    BY <1>4, <2>1, RowKeeps DEF Insert
  <2> QED BY <1>4, <2>2 DEF CompleteInv, Covered, Writing, Insert, InsertRow
<1>5. CASE Index
  <2>1. PICK entry \in todo : IndexDelegator(entry) /\ todo' = todo \ {entry}
    BY <1>5 DEF Index
  <2>2. cur \in Event /\ entry \in IndexEntries(cur) /\ Row(cur) \in event
    BY <1>5 DEF CompleteInv, SoundInv, TypeOK, TodoOK, Publishing, IndexedIsHeld, Index
  <2>3. entry[1] = cur.id /\ Row(cur).id = cur.id
    BY <2>2, RowKeeps DEF IndexEntries
  <2>4. delegation' = delegation \cup {entry} /\ UNCHANGED <<event, backfilled>>
    BY <2>1, <2>2, <2>3 DEF IndexDelegator, Ids
  <2> QED BY <1>5, <2>1, <2>4 DEF CompleteInv, Covered, Writing, Index
<1>6. CASE Indexed
  BY <1>6 DEF CompleteInv, Covered, Writing, Indexed, Answering, storageVars
<1>7. ~IndexFails
  BY DEF NoneIsLost, IndexFails
<1> QED
  BY <1>1, <1>2, <1>3, <1>4, <1>5, <1>6, <1>7, TargetsCovered DEF Listener

LEMMA PurgeCovered ==
  ASSUME CompleteInv, Purge
  PROVE  Covered'
<1>1. CASE PurgeRow
  <2>1. PICK rows \in SUBSET event : DeleteRows(rows)
    BY <1>1 DEF PurgeRow, ByIdAndPubkey
  <2> QED BY <1>1, <2>1, DeletingCovered DEF PurgeRow
<1>2. CASE PurgeBegin \/ PurgeRowFails \/ PurgeEnd
  BY <1>2, QuietCovered DEF PurgeBegin, PurgeRowFails, PurgeEnd
<1> QED BY <1>1, <1>2 DEF Purge

LEMMA LifecycleCovered ==
  ASSUME NoneIsLost, DelegationIsPlain, CompleteInv, Lifecycle
  PROVE  Covered'
<1>1. ~Crash /\ ~BackfillFails
  BY DEF NoneIsLost, Crash, BackfillFails
<1>2. CASE Stop
  BY <1>2, QuietCovered DEF Stop, GoDown
<1>3. CASE Start
  <2>1. CASE pc' = "backfill"
    <3>1. todo' = UNION {IndexEntries(r) : r \in MigrationCandidates}
      BY <1>3, <2>1 DEF Start
    <3>2. \A r \in event : IndexEntries(r) \subseteq todo'
      BY <3>1, IndexedAreCandidates DEF CompleteInv, SoundInv, TypeOK
    <3> QED BY <1>3, <2>1, <3>2 DEF CompleteInv, Covered, Writing, Start, storageVars
  <2>2. CASE pc' = "idle"
    BY <1>3, <2>2 DEF CompleteInv, Covered, Writing, Start, storageVars
  <2> QED BY <1>3, <2>1, <2>2 DEF Start
<1>4. CASE Backfill
  <2>1. PICK entry \in todo : IndexDelegator(entry) /\ todo' = todo \ {entry}
    BY <1>4 DEF Backfill
  <2>2. PICK r \in event : entry \in IndexEntries(r)
    BY <1>4 DEF CompleteInv, SoundInv, TypeOK, TodoOK, Backfill
  <2>3. entry[1] = r.id
    BY <2>2 DEF IndexEntries
  <2>4. delegation' = delegation \cup {entry} /\ UNCHANGED <<event, backfilled>>
    BY <2>1, <2>2, <2>3 DEF IndexDelegator, Ids
  <2> QED BY <1>4, <2>1, <2>4 DEF CompleteInv, Covered, Writing, Backfill
<1>5. CASE BackfillDone
  BY <1>5 DEF CompleteInv, Covered, Writing, BackfillDone, MarkBackfilled
<1>6. CASE MarkFails
  BY <1>6 DEF CompleteInv, Covered, Writing, MarkFails, storageVars
<1> QED
  BY <1>1, <1>2, <1>3, <1>4, <1>5, <1>6 DEF Lifecycle, Migration

LEMMA CompleteNext ==
  NoneIsLost /\ DelegationIsPlain /\ CompleteInv /\ [Next]_vars => CompleteInv'
<1> SUFFICES ASSUME NoneIsLost, DelegationIsPlain, CompleteInv, [Next]_vars PROVE Covered'
  BY SoundNext DEF CompleteInv
<1>1. ASSUME NEW ev \in Event, NEW auth, NEW valid, Receive(ev, auth, valid) PROVE Covered'
  <2>1. pc' \notin {"index", "backfill"}
    BY <1>1 DEF Receive, Dispatch, Answering
  <2> QED BY <1>1, <2>1, QuietCovered DEF Receive
<1>2. CASE Tick \/ UNCHANGED vars
  BY <1>2 DEF CompleteInv, Covered, Writing, Tick, vars, jobVars, storageVars
<1> QED
  BY <1>1, <1>2, ListenerCovered, PurgeCovered, LifecycleCovered DEF Next

-----------------------------------------------------------------------------
(***************************************************************************)
(* Between handlers a migrated database has every delegation tag of every  *)
(* row in the index (storage.c:1255-1316), as long as the process does not *)
(* die, no entry fails to be written, no scan breaks off and no tag's name *)
(* is written with an escape: whatever else fails, the mark included, and  *)
(* however often it is restarted.                                          *)
(***************************************************************************)
THEOREM IndexIsComplete ==
  NoneIsLost /\ DelegationIsPlain => (Spec => []DelegationComplete)
<1>1. ASSUME NoneIsLost, DelegationIsPlain PROVE Spec => []DelegationComplete
  <2>1. Init => CompleteInv
    BY SoundInit DEF Init, CompleteInv, Covered, Writing
  <2>2. CompleteInv /\ [Next]_vars => CompleteInv'
    BY <1>1, CompleteNext
  <2>3. CompleteInv => DelegationComplete
    BY DEF CompleteInv, Covered, DelegationComplete
  <2> QED BY <2>1, <2>2, <2>3, PTL DEF Spec
<1> QED BY <1>1
=============================================================================
