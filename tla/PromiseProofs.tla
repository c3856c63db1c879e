--------------------------- MODULE PromiseProofs ---------------------------
(***************************************************************************)
(* The write path keeps the promise of EventStore, and owes every removal  *)
(* to an event it holds, as long as every created_at fits in an int.       *)
(***************************************************************************)
EXTENDS PublishProofs

(***************************************************************************)
(* The events whose created_at the storage layer can represent.            *)
(***************************************************************************)
InRange == \A ev \in Event : ev.created_at \in (-(IntMax + 1))..IntMax

LEMMA ToIntInRange ==
  ASSUME NEW t \in (-(IntMax + 1))..IntMax
  PROVE  ToInt(t) = t
<1> DEFINE w == 2 * (IntMax + 1)
           x == t + IntMax + 1
<1>1. w \in Nat \ {0} /\ x \in 0..(w - 1)
  BY IntMaxIsPositive
<1>2. x % w = x
  BY <1>1
<1> QED BY <1>2, IntMaxIsPositive DEF ToInt

(***************************************************************************)
(* In range, the table holds the events as their authors signed them.      *)
(***************************************************************************)
LEMMA RowIsEvent ==
  ASSUME InRange, NEW ev \in Event
  PROVE  Row(ev) = ev
<1>1. ToInt(ev.created_at) = ev.created_at
  BY ToIntInRange DEF InRange
<1> QED BY <1>1, EventIsRecord DEF Row

LEMMA StoredIsTable ==
  ASSUME InRange, StorageTypeOK
  PROVE  event \subseteq Event /\ Stored = event
<1>1. event \subseteq Event
  BY RowIsEvent DEF StorageTypeOK
<1> QED BY <1>1, IdIsHash DEF Stored, Ids

(***************************************************************************)
(* A deleted event was among the rows the delete selected.                 *)
(***************************************************************************)
LEMMA RemovedRows ==
  ASSUME InRange, StorageTypeOK, NEW rows, DeleteRows(rows)
  PROVE  /\ StorageTypeOK'
         /\ Stored' = Stored \ rows
         /\ Stored' \subseteq Stored
         /\ \A f \in Stored \ Stored' : f \in rows /\ f \in event /\ f \in Event
<1>1. StorageTypeOK'
  BY DEF StorageTypeOK, DeleteRows
<1>2. event' \subseteq Event /\ Stored' = event'
  <2>1. event' \subseteq Event
    BY <1>1, RowIsEvent DEF StorageTypeOK
  <2> QED BY <2>1, IdIsHash DEF Stored, Ids
<1> QED BY <1>1, <1>2, StoredIsTable DEF DeleteRows

-----------------------------------------------------------------------------
(***************************************************************************)
(* Every delete of a listener selects rows its event has authority over.   *)
(***************************************************************************)
LEMMA SameIdentifier == \A e : Promise!DIdentifier(e) = DIdentifier(e)
BY DEF Promise!DIdentifier, DIdentifier, Promise!TagsNamed, TagsNamed

LEMMA ReplaceAuthority ==
  ASSUME InRange, StorageTypeOK, cur \in Event,
         IsReplaceable(cur.kind) \/ IsAddressable(cur.kind),
         NEW f \in OlderVersions(cur)
  PROVE  Promise!Authorises(cur, f)
<1>1. f \in event /\ f.kind = cur.kind /\ f.pubkey = cur.pubkey /\ f.created_at < cur.created_at
  BY ToIntInRange DEF InRange, OlderVersions, ByKindAndPubkeyAndDtag, ByKindAndPubkey
<1>2. IsAddressable(cur.kind) => DIdentifier(f) = DIdentifier(cur)
  BY DEF OlderVersions, ByKindAndPubkeyAndDtag
<1>3. Promise!SameAddress(cur, f)
  <2>1. CASE IsAddressable(cur.kind)
    BY <1>1, <1>2, <2>1, SameIdentifier DEF Promise!SameAddress, Promise!IsAddressable, IsAddressable
  <2>2. CASE IsReplaceable(cur.kind)
    BY <1>1, <2>2 DEF Promise!SameAddress, Promise!IsReplaceable, IsReplaceable
  <2> QED BY <2>1, <2>2
<1> QED BY <1>1, <1>3 DEF Promise!Authorises, Promise!Supersedes

LEMMA TargetIsNamed ==
  ASSUME NEW name, NEW p \in DeletionTargets(cur), TargetIn(name, p)
  PROVE  TargetValue(p) \in Promise!Named(cur, name)
BY DEF TargetIn, TargetValue, Promise!Named, Promise!DeletionTargets, DeletionTargets,
       Promise!TagsNamed, TagsNamed

LEMMA KindRequested ==
  ASSUME NEW kind, kind_is_requested(cur, kind)
  PROVE  Promise!kind_is_requested(cur, kind)
BY DEF kind_is_requested, Promise!kind_is_requested, nip_event_has_named, Promise!nip_event_has_named,
       nip_event_has_tag, Promise!nip_event_has_tag, TagValues, Promise!TagValues,
       TagsNamed, Promise!TagsNamed

LEMMA EventTargetAuthority ==
  ASSUME InRange, StorageTypeOK, cur \in Event, cur.kind = DELETION,
         NEW p \in DeletionTargets(cur), TargetIn("e", p),
         NEW f \in EventTargetRows(TargetValue(p))
  PROVE  Promise!Authorises(cur, f)
<1> DEFINE id == TargetValue(p)
<1>1. PICK r \in AuthorizedTarget(id) :
        f \in IF r.kind = 1059 THEN ByIdAndKindAndPtag(id, 1059, cur.pubkey)
              ELSE ByIdAndPubkey(id, cur.pubkey)
  BY DEF EventTargetRows
<1>2. /\ f \in event /\ f.id = id /\ r \in event /\ r.id = id
      /\ deletion_authorized(cur, r) /\ kind_is_requested(cur, r.kind)
  BY <1>1 DEF AuthorizedTarget, ByIdAndKindAndPtag, ByIdAndPubkey
<1>3. f = r
  BY <1>2, StoredIsTable, IdIsHash
<1>4. Promise!deletion_authorized(cur, f)
  BY <1>2, <1>3
  DEF deletion_authorized, Promise!deletion_authorized, nip_event_has_tag, Promise!nip_event_has_tag,
      TagValues, Promise!TagValues, TagsNamed, Promise!TagsNamed
<1>5. f.id \in Promise!Named(cur, "e")
  BY <1>2, TargetIsNamed
<1> QED
  BY <1>2, <1>3, <1>4, <1>5, KindRequested
  DEF Promise!Authorises, Promise!RequestsDeletion, DELETION, Promise!DELETION

LEMMA AddressTargetAuthority ==
  ASSUME InRange, StorageTypeOK, cur \in Event, cur.kind = DELETION,
         NEW p \in DeletionTargets(cur), TargetIn("a", p),
         NEW f \in AddressTargetRows(TargetValue(p))
  PROVE  Promise!Authorises(cur, f)
<1> DEFINE a == TargetValue(p)
           t == parse_a_tag(a)
<1>1. IsOurs(a)
  BY DEF AddressTargetRows
<1>2. /\ f.kind = t.kind /\ f.pubkey = t.pubkey /\ f.created_at < cur.created_at
      /\ t.d \in {"", DIdentifier(f)}
  BY <1>1, ToIntInRange
  DEF InRange, AddressTargetRows, ByKindAndPubkeyAndDtag, ByKindAndPubkey
<1>3. Promise!Covers(a, f)
  BY <1>1, <1>2, SameIdentifier
  DEF IsOurs, Promise!Covers, parse_a_tag_ok, Promise!parse_a_tag_ok, parse_a_tag, Promise!parse_a_tag
<1>4. a \in Promise!Named(cur, "a")
  BY TargetIsNamed
<1>5. f.pubkey = cur.pubkey /\ kind_is_requested(cur, f.kind)
  BY <1>1, <1>2 DEF IsOurs
<1> QED
  BY <1>2, <1>3, <1>4, <1>5, KindRequested
  DEF Promise!Authorises, Promise!RequestsDeletion, DELETION, Promise!DELETION

LEMMA VanishAuthority ==
  ASSUME InRange, StorageTypeOK, cur \in Event, cur.kind = VANISH, nip62_should_vanish(cur),
         NEW f \in ByPubkeyUpTo(cur.pubkey, cur.created_at, cur.kind)
  PROVE  Promise!Authorises(cur, f)
<1>1. f.pubkey = cur.pubkey /\ f.kind # VANISH /\ f.created_at <= cur.created_at
  BY ToIntInRange DEF InRange, ByPubkeyUpTo, VANISH
<1>2. Promise!nip62_should_vanish(cur)
  BY DEF nip62_should_vanish, Promise!nip62_should_vanish, nip_event_has_relay_tag, Promise!nip_event_has_relay_tag,
         nip_event_has_tag, Promise!nip_event_has_tag, TagValues, Promise!TagValues,
         TagsNamed, Promise!TagsNamed
<1> QED BY <1>1, <1>2 DEF Promise!Authorises, Promise!Vanishes, VANISH, Promise!VANISH

-----------------------------------------------------------------------------
(***************************************************************************)
(* Each listener runs for the kinds it is registered for.                  *)
(***************************************************************************)
Dispatched ==
  /\ pc = "replace" => IsReplaceable(cur.kind) \/ IsAddressable(cur.kind)
  /\ pc = "targets" => cur.kind = DELETION
  /\ pc = "vanish" => cur.kind = VANISH /\ nip62_should_vanish(cur)

LEMMA DispatchedNext ==
  ASSUME Dispatched, [Next]_vars
  PROVE  Dispatched'
<1>1. ASSUME NEW ev \in Event, NEW auth, NEW valid, Receive(ev, auth, valid) PROVE Dispatched'
  <2>1. cur' = ev /\ (pc' = "reply" \/ Dispatch(ev))
    BY <1>1 DEF Receive, Answering
  <2>2. CASE pc' = "reply"
    BY <2>2 DEF Dispatched
  <2>3. CASE Dispatch(ev)
    BY <2>1, <2>3 DEF Dispatched, Dispatch, Answering
  <2> QED BY <2>1, <2>2, <2>3
<1>2. CASE Listener
  <2>1. \/ pc' \notin {"replace", "targets", "vanish"}
        \/ pc' = pc /\ cur' = cur
    BY <1>2
    DEF Listener, Replace, ReplaceFails, ReplaceMisread, DeleteEventTarget, DeleteAddressTarget,
        DeleteTargetFails, EventTargetMisread, AddressTargetMisread, TargetsDone, Vanish, VanishFails,
        Insert, InsertRefused,
        Index, IndexFails, Indexed, Reply, Answering
  <2> QED BY <2>1 DEF Dispatched
<1>3. CASE Purge
  BY <1>3 DEF Purge, PurgeBegin, PurgeRow, PurgeRowFails, PurgeEnd, Dispatched
<1>4. CASE Lifecycle
  BY <1>4 DEF Lifecycle, Stop, Crash, GoDown, Start, Migration, Backfill, BackfillFails,
              BackfillDone, MarkFails, Dispatched
<1>5. CASE Tick \/ UNCHANGED vars
  BY <1>5 DEF Tick, jobVars, vars, Dispatched
<1> QED BY <1>1, <1>2, <1>3, <1>4, <1>5 DEF Next

PromiseInv == SoundInv /\ Dispatched

LEMMA PromiseInvariant == Spec => []PromiseInv
<1>1. Init => PromiseInv
  BY SoundInit DEF PromiseInv, Dispatched, Init
<1>2. PromiseInv /\ [Next]_vars => PromiseInv'
  BY SoundNext, DispatchedNext DEF PromiseInv
<1> QED BY <1>1, <1>2, PTL DEF Spec

-----------------------------------------------------------------------------
(***************************************************************************)
(* Steps of the write path as steps of the promise.                        *)
(***************************************************************************)
StoreStep == [Promise!StoreNext]_(Promise!storeVars)

LEMMA DiscardStep ==
  ASSUME InRange, PromiseInv, Publishing, pc # "reply",
         NEW rows, DeleteRows(rows),
         \A f \in rows : Promise!Authorises(cur, f),
         UNCHANGED <<cur, now>>, pc' # "reply"
  PROVE  StoreStep
<1>1. /\ Stored' \subseteq Stored
      /\ \A f \in Stored \ Stored' : Promise!Authorises(cur, f)
  BY RemovedRows DEF PromiseInv, SoundInv, TypeOK
<1>2. cur # NoEvent /\ Verdict = "none" /\ Verdict' = "none"
  BY NoEventIsNoEvent DEF PromiseInv, SoundInv, TypeOK, Verdict
<1> QED
  BY <1>1, <1>2 DEF StoreStep, Promise!StoreNext, Promise!Discard, Promise!storeVars

LEMMA StoredKept ==
  ASSUME UNCHANGED storageVars
  PROVE  UNCHANGED Stored
BY DEF storageVars, Stored, Ids

LEMMA ReceiveStep ==
  ASSUME PromiseInv, NEW ev \in Event, NEW auth, NEW valid, Receive(ev, auth, valid)
  PROVE  StoreStep
<1>1. UNCHANGED <<Stored, now>> /\ cur = NoEvent /\ cur' = ev
  BY StoredKept DEF Receive, PromiseInv, SoundInv, TypeOK, Publishing
<1>2. Verdict' \in Promise!Verdicts
  BY DEF Verdict, Promise!Verdicts
<1>3. Verdict' = "accepted" => Promise!IsEphemeral(ev.kind)
  BY DEF Verdict, Receive, Dispatch, Answering, Reject, IsEphemeral, Promise!IsEphemeral
<1>4. Promise!Submit(ev)
  BY <1>1, <1>2, <1>3 DEF Promise!Submit
<1> QED BY <1>4 DEF StoreStep, Promise!StoreNext

LEMMA ReplaceStep ==
  ASSUME InRange, PromiseInv, Replace \/ ReplaceMisread
  PROVE  StoreStep
<1>1. PICK rows \in SUBSET OlderVersions(cur) : DeleteRows(rows)
  BY DEF Replace, ReplaceMisread
<1>2. \A f \in rows : Promise!Authorises(cur, f)
  BY <1>1, ReplaceAuthority
  DEF PromiseInv, SoundInv, TypeOK, Publishing, Dispatched, Replace, ReplaceMisread
<1> QED
  BY <1>1, <1>2, DiscardStep DEF Publishing, Replace, ReplaceMisread

LEMMA TargetStep ==
  ASSUME InRange, PromiseInv, NEW p \in todo,
         DeleteEventTarget(p) \/ DeleteAddressTarget(p) \/ AddressTargetMisread(p)
  PROVE  StoreStep
<1>1. cur \in Event /\ cur.kind = DELETION /\ p \in DeletionTargets(cur) /\ pc = "targets"
  BY DEF PromiseInv, SoundInv, TypeOK, TodoOK, Publishing, Dispatched,
         DeleteEventTarget, DeleteAddressTarget, AddressTargetMisread
<1>2. PICK rows : DeleteRows(rows) /\ \A f \in rows : Promise!Authorises(cur, f)
  <2>1. CASE DeleteEventTarget(p)
    BY <1>1, <2>1, EventTargetAuthority DEF PromiseInv, SoundInv, TypeOK, DeleteEventTarget
  <2>2. CASE DeleteAddressTarget(p) \/ AddressTargetMisread(p)
    <3>1. TargetIn("a", p) /\ \E rows \in SUBSET AddressTargetRows(TargetValue(p)) : DeleteRows(rows)
      BY <2>2 DEF DeleteAddressTarget, AddressTargetMisread
    <3> QED BY <1>1, <3>1, AddressTargetAuthority DEF PromiseInv, SoundInv, TypeOK
  <2> QED BY <2>1, <2>2
<1>3. UNCHANGED <<cur, now, pc>>
  BY DEF DeleteEventTarget, DeleteAddressTarget, AddressTargetMisread
<1> QED BY <1>1, <1>2, <1>3, DiscardStep DEF Publishing

LEMMA VanishStep ==
  ASSUME InRange, PromiseInv, Vanish
  PROVE  StoreStep
<1>1. \A f \in ByPubkeyUpTo(cur.pubkey, cur.created_at, cur.kind) : Promise!Authorises(cur, f)
  BY VanishAuthority DEF PromiseInv, SoundInv, TypeOK, Publishing, Dispatched, Vanish
<1> QED
  BY <1>1, DiscardStep DEF Publishing, Vanish

LEMMA InsertStep ==
  ASSUME InRange, PromiseInv, Insert
  PROVE  StoreStep
<1>1. cur \in Event /\ cur # NoEvent /\ Row(cur) = cur
  BY NoEventIsNoEvent, RowIsEvent DEF PromiseInv, SoundInv, TypeOK, Publishing, Insert
<1>2. Stored' = Stored \cup {cur}
  BY <1>1, IdIsHash DEF Insert, InsertRow, Stored, Ids
<1>3. Verdict = "none" /\ UNCHANGED <<Verdict, cur, now>>
  BY DEF Verdict, Insert
<1> QED
  BY <1>1, <1>2, <1>3 DEF StoreStep, Promise!StoreNext, Promise!Hold

LEMMA DecideStep ==
  ASSUME PromiseInv, ReplaceFails \/ VanishFails \/ InsertRefused \/ Indexed
  PROVE  StoreStep
<1>1. cur \in Event /\ cur # NoEvent /\ Verdict = "none"
  BY NoEventIsNoEvent
  DEF PromiseInv, SoundInv, TypeOK, Publishing, Verdict, ReplaceFails, VanishFails, InsertRefused, Indexed
<1>2. UNCHANGED <<Stored, cur, now>>
  BY StoredKept DEF ReplaceFails, VanishFails, InsertRefused, Indexed
<1>3. Verdict' = "refused" \/ (Verdict' = "accepted" /\ cur \in Stored)
  <2>1. CASE Indexed
    <3>1. cur \in Stored
      BY <1>1, <2>1, RowKeeps DEF PromiseInv, SoundInv, IndexedIsHeld, Indexed, Stored, Ids
    <3> QED BY <2>1, <3>1 DEF Indexed, Answering, InsertResult, StoreOnly, Accept, Verdict
  <2>2. CASE ReplaceFails \/ VanishFails \/ InsertRefused
    BY <2>2 DEF ReplaceFails, VanishFails, InsertRefused, Answering, Reject, Verdict
  <2> QED BY <2>1, <2>2
<1> QED
  BY <1>1, <1>2, <1>3 DEF StoreStep, Promise!StoreNext, Promise!Decide

(***************************************************************************)
(* The steps that end a publication, or find none to end.                  *)
(***************************************************************************)
LEMMA SettleStep ==
  ASSUME PromiseInv, Reply \/ Stop \/ Crash
  PROVE  StoreStep
<1>1. UNCHANGED <<Stored, now>> /\ cur' = NoEvent /\ Verdict' = "none"
  BY StoredKept DEF Reply, Stop, Crash, GoDown, Verdict
<1>2. CASE cur = NoEvent
  <2>1. Verdict = "none"
    BY <1>2, NoEventIsNoEvent DEF PromiseInv, SoundInv, TypeOK, Publishing, Verdict
  <2> QED BY <1>1, <1>2, <2>1 DEF StoreStep, Promise!storeVars
<1>3. CASE cur # NoEvent
  BY <1>1, <1>3 DEF StoreStep, Promise!StoreNext, Promise!Settle
<1> QED BY <1>2, <1>3

LEMMA ExpireStep ==
  ASSUME InRange, PromiseInv, PurgeRow
  PROVE  StoreStep
<1>1. PICK rows : DeleteRows(rows) /\ \A f \in rows : nip40_event_is_expired(f, now)
  BY DEF PurgeRow
<1>2. /\ Stored' \subseteq Stored
      /\ \A f \in Stored \ Stored' : nip40_event_is_expired(f, now)
  BY <1>1, RemovedRows DEF PromiseInv, SoundInv, TypeOK
<1>3. \A f \in Stored \ Stored' : Promise!nip40_event_is_expired(f, now)
  BY <1>2 DEF nip40_event_is_expired, Promise!nip40_event_is_expired, TagValues, Promise!TagValues,
              TagsNamed, Promise!TagsNamed
<1>4. cur = NoEvent /\ UNCHANGED <<cur, now, Verdict>>
  BY DEF PromiseInv, SoundInv, TypeOK, Publishing, PurgeRow, Verdict
<1> QED
  BY <1>2, <1>3, <1>4 DEF StoreStep, Promise!StoreNext, Promise!Expire

(***************************************************************************)
(* The steps the promise does not see.                                     *)
(***************************************************************************)
LEMMA QuietStep ==
  ASSUME PromiseInv,
         \/ \E p \in todo : DeleteTargetFails(p) \/ EventTargetMisread(p)
         \/ TargetsDone \/ Index \/ IndexFails
         \/ PurgeBegin \/ PurgeRowFails \/ PurgeEnd
         \/ Start \/ Migration
         \/ UNCHANGED vars
  PROVE  StoreStep
<1>1. UNCHANGED event
  BY DEF DeleteTargetFails, EventTargetMisread, TargetsDone, Index, IndexFails, IndexDelegator,
         PurgeBegin, PurgeRowFails, PurgeEnd, Start, Migration, Backfill, BackfillFails,
         BackfillDone, MarkBackfilled, MarkFails, vars, storageVars
<1>2. UNCHANGED <<cur, now, Verdict>>
  BY DEF DeleteTargetFails, EventTargetMisread, TargetsDone, Index, IndexFails,
         PurgeBegin, PurgeRowFails, PurgeEnd, Start, Migration, Backfill, BackfillFails,
         BackfillDone, MarkFails, vars, Verdict
<1> QED BY <1>1, <1>2 DEF StoreStep, Promise!storeVars, Stored, Ids

LEMMA TickStep ==
  ASSUME Tick
  PROVE  StoreStep
<1>1. UNCHANGED <<Stored, cur, Verdict>> /\ now' = now + 1
  BY StoredKept DEF Tick, jobVars, Verdict
<1> QED BY <1>1 DEF StoreStep, Promise!StoreNext, Promise!Pass

LEMMA NextStep == InRange /\ PromiseInv /\ [Next]_vars => StoreStep
<1> SUFFICES ASSUME InRange, PromiseInv, [Next]_vars PROVE StoreStep OBVIOUS
<1>1. CASE Listener
  BY <1>1, ReplaceStep, DecideStep, TargetStep, QuietStep, VanishStep, InsertStep, SettleStep
  DEF Listener
<1>2. CASE Purge
  BY <1>2, ExpireStep, QuietStep DEF Purge
<1>3. CASE Lifecycle
  BY <1>3, SettleStep, QuietStep DEF Lifecycle
<1> QED
  BY <1>1, <1>2, <1>3, ReceiveStep, TickStep, QuietStep DEF Next

LEMMA InitStep == InRange /\ Init => Promise!StoreInit
BY LegacyIsEvents DEF Init, Promise!StoreInit, Stored, Verdict

(***************************************************************************)
(* The write path implements the promise: nothing leaves the table but by  *)
(* authority of the event being published or by expiry, nothing enters but *)
(* that event, and "accepted" is never said of an event that is not held,  *)
(* whatever fails and wherever the process dies, as long as every          *)
(* created_at fits in an int.                                              *)
(***************************************************************************)
THEOREM PromiseKept == InRange => (Spec => KeepsPromise)
<1>1. ASSUME InRange PROVE Spec => KeepsPromise
  <2>1. Init => Promise!StoreInit
    BY <1>1, InitStep
  <2>2. PromiseInv /\ [Next]_vars => StoreStep
    BY <1>1, NextStep
  <2> QED
    BY <2>1, <2>2, PromiseInvariant, PTL DEF Spec, KeepsPromise, Promise!StoreSpec, StoreStep
<1> QED BY <1>1

-----------------------------------------------------------------------------
(***************************************************************************)
(* What a publication removes is owed to it from the first delete on; that *)
(* its event is held in the end is the insert's doing.                     *)
(***************************************************************************)
Owed ==
  /\ Publishing => before \subseteq Event /\ \A f \in before \ event : Promise!Authorises(cur, f)
  /\ pc \in {"replace", "vanish"} => before \subseteq event
  /\ pc = "reply" => before \subseteq event \/ cur \in Stored

OwedInv == PromiseInv /\ Owed

LEMMA OwedDelete ==
  ASSUME InRange, OwedInv, Publishing, Publishing', pc' \notin {"replace", "vanish", "reply"},
         NEW rows, DeleteRows(rows), \A f \in rows : Promise!Authorises(cur, f),
         UNCHANGED <<cur, before>>
  PROVE  Owed'
<1>1. \A f \in before \ event' : Promise!Authorises(cur, f)
  BY DEF OwedInv, Owed, DeleteRows
<1> QED BY <1>1 DEF OwedInv, Owed

LEMMA OwedQuiet ==
  ASSUME OwedInv, Publishing, UNCHANGED <<event, cur, before>>, pc' \notin {"replace", "vanish", "reply"}
  PROVE  Owed'
<1>1. \A f \in before \ event' : Promise!Authorises(cur, f)
  BY DEF OwedInv, Owed
<1> QED BY <1>1 DEF OwedInv, Owed

LEMMA OwedAnswer ==
  ASSUME OwedInv, Publishing, UNCHANGED <<event, cur, before>>, pc' = "reply",
         before \subseteq event \/ cur \in Stored
  PROVE  Owed'
<1>1. \A f \in before \ event' : Promise!Authorises(cur, f)
  BY DEF OwedInv, Owed
<1>2. UNCHANGED Stored
  BY DEF Stored, Ids
<1> QED BY <1>1, <1>2 DEF OwedInv, Owed

LEMMA OwedTargets ==
  ASSUME InRange, OwedInv, NEW p \in todo,
         \/ DeleteEventTarget(p) \/ DeleteAddressTarget(p)
         \/ DeleteTargetFails(p)
         \/ EventTargetMisread(p) \/ AddressTargetMisread(p)
  PROVE  Owed'
<1>1. CASE DeleteTargetFails(p) \/ EventTargetMisread(p)
  BY <1>1, OwedQuiet DEF DeleteTargetFails, EventTargetMisread, storageVars, Publishing
<1>2. CASE DeleteEventTarget(p) \/ DeleteAddressTarget(p) \/ AddressTargetMisread(p)
  <2>1. cur \in Event /\ cur.kind = DELETION /\ p \in DeletionTargets(cur) /\ pc = "targets"
    BY <1>2 DEF OwedInv, PromiseInv, SoundInv, TypeOK, TodoOK, Publishing, Dispatched,
                DeleteEventTarget, DeleteAddressTarget, AddressTargetMisread
  <2>2. PICK rows : DeleteRows(rows) /\ \A f \in rows : Promise!Authorises(cur, f)
    <3>1. CASE DeleteEventTarget(p)
      BY <2>1, <3>1, EventTargetAuthority
      DEF OwedInv, PromiseInv, SoundInv, TypeOK, DeleteEventTarget
    <3>2. CASE DeleteAddressTarget(p) \/ AddressTargetMisread(p)
      <4>1. TargetIn("a", p) /\ \E rows \in SUBSET AddressTargetRows(TargetValue(p)) : DeleteRows(rows)
        BY <3>2 DEF DeleteAddressTarget, AddressTargetMisread
      <4> QED BY <2>1, <4>1, AddressTargetAuthority DEF OwedInv, PromiseInv, SoundInv, TypeOK
    <3> QED BY <1>2, <3>1, <3>2
  <2>3. UNCHANGED <<cur, before, pc>>
    BY <1>2 DEF DeleteEventTarget, DeleteAddressTarget, AddressTargetMisread
  <2> QED BY <2>1, <2>2, <2>3, OwedDelete DEF Publishing
<1> QED BY <1>1, <1>2

LEMMA OwedListener ==
  ASSUME InRange, "insert" \notin Faults, OwedInv, Listener
  PROVE  Owed'
<1>1. CASE Replace \/ ReplaceMisread
  <2>1. PICK rows \in SUBSET OlderVersions(cur) : DeleteRows(rows)
    BY <1>1 DEF Replace, ReplaceMisread
  <2>2. \A f \in rows : Promise!Authorises(cur, f)
    BY <1>1, <2>1, ReplaceAuthority
    DEF OwedInv, PromiseInv, SoundInv, TypeOK, Publishing, Dispatched, Replace, ReplaceMisread
  <2> QED BY <1>1, <2>1, <2>2, OwedDelete DEF Publishing, Replace, ReplaceMisread
<1>2. CASE ReplaceFails \/ VanishFails
  BY <1>2, OwedAnswer
  DEF OwedInv, Owed, ReplaceFails, VanishFails, Answering, Publishing, storageVars
<1>3. CASE TargetsDone \/ IndexFails
  BY <1>3, OwedQuiet DEF TargetsDone, IndexFails, Publishing, storageVars
<1>4. CASE Index
  BY <1>4, OwedQuiet DEF Index, IndexDelegator, Publishing
<1>5. CASE Vanish
  <2>1. \A f \in ByPubkeyUpTo(cur.pubkey, cur.created_at, cur.kind) : Promise!Authorises(cur, f)
    BY <1>5, VanishAuthority
    DEF OwedInv, PromiseInv, SoundInv, TypeOK, Publishing, Dispatched, Vanish
  <2> QED BY <1>5, <2>1, OwedDelete DEF Publishing, Vanish
<1>6. CASE Insert
  <2>1. \A f \in before \ event' : Promise!Authorises(cur, f)
    BY <1>6 DEF OwedInv, Owed, Publishing, Insert, InsertRow
  <2> QED BY <1>6, <2>1 DEF OwedInv, Owed, Publishing, Insert
<1>7. CASE InsertRefused
  <2>1. cur \in Stored
    BY <1>7 DEF OwedInv, PromiseInv, SoundInv, TypeOK, Publishing, InsertRefused, Stored
  <2> QED BY <1>7, <2>1, OwedAnswer DEF InsertRefused, Answering, Publishing, storageVars
<1>8. CASE Indexed
  <2>1. cur \in Stored
    BY <1>8, RowKeeps
    DEF OwedInv, PromiseInv, SoundInv, TypeOK, Publishing, IndexedIsHeld, Indexed, Stored, Ids
  <2> QED BY <1>8, <2>1, OwedAnswer DEF Indexed, Answering, Publishing, storageVars
<1>9. CASE Reply
  BY <1>9 DEF Reply, Owed, Publishing
<1> QED
  BY <1>1, <1>2, <1>3, <1>4, <1>5, <1>6, <1>7, <1>8, <1>9, OwedTargets DEF Listener

LEMMA OwedNext == InRange /\ "insert" \notin Faults /\ OwedInv /\ [Next]_vars => OwedInv'
<1> SUFFICES ASSUME InRange, "insert" \notin Faults, OwedInv, [Next]_vars PROVE Owed'
  BY SoundNext, DispatchedNext DEF OwedInv, PromiseInv
<1>1. ASSUME NEW ev \in Event, NEW auth, NEW valid, Receive(ev, auth, valid) PROVE Owed'
  <2>1. before' \subseteq event' /\ before' \subseteq Event
    BY <1>1, StoredIsTable DEF OwedInv, PromiseInv, SoundInv, TypeOK, Receive, storageVars
  <2> QED BY <2>1 DEF Owed
<1>2. CASE Purge \/ Lifecycle
  BY <1>2
  DEF OwedInv, PromiseInv, Owed, Publishing, Purge, PurgeBegin, PurgeRow, PurgeRowFails, PurgeEnd,
      Lifecycle, Stop, Crash, GoDown, Start, Migration, Backfill, BackfillFails, BackfillDone, MarkFails
<1>3. CASE Tick \/ UNCHANGED vars
  <2>1. UNCHANGED <<event, pc, cur, before, Stored>>
    BY <1>3 DEF Tick, vars, jobVars, storageVars, Stored, Ids
  <2>2. (\A f \in before \ event : Promise!Authorises(cur, f))
          => \A f \in before' \ event' : Promise!Authorises(cur', f)
    BY <2>1
  <2> QED BY <2>1, <2>2 DEF OwedInv, Owed, Publishing
<1> QED BY <1>1, <1>2, <1>3, OwedListener DEF Next

(***************************************************************************)
(* While inserts do not fail, what a publication removed is owed to an     *)
(* event the relay holds when its handler is over, whatever else fails:    *)
(* nothing is deleted for an event that is then refused.                   *)
(***************************************************************************)
THEOREM RemovalOwed == InRange /\ "insert" \notin Faults => (Spec => []RemovalIsOwed)
<1>1. ASSUME InRange, "insert" \notin Faults PROVE Spec => []RemovalIsOwed
  <2>1. Init => OwedInv
    BY SoundInit DEF Init, OwedInv, PromiseInv, Dispatched, Owed, Publishing
  <2>2. OwedInv /\ [Next]_vars => OwedInv'
    BY <1>1, OwedNext
  <2>3. OwedInv => RemovalIsOwed
    BY DEF OwedInv, Owed, RemovalIsOwed, Publishing
  <2> QED BY <2>1, <2>2, <2>3, PTL DEF Spec
<1> QED BY <1>1

-----------------------------------------------------------------------------
(***************************************************************************)
(* An unqualified OK true means that the request was carried out in full.  *)
(***************************************************************************)

(***************************************************************************)
(* An id is the hash of the tags too, so an event cannot name itself.      *)
(***************************************************************************)
NoneNamesItself == \A ev \in Event : ev.id \notin Promise!Named(ev, "e")

(* The target p of the request being carried out reaches f. *)
Reaches(p, f) ==
  \/ /\ TargetIn("e", p) /\ f.id = TargetValue(p)
     /\ deletion_authorized(cur, f) /\ kind_is_requested(cur, f.kind)
  \/ TargetIn("a", p) /\ f \in AddressTargetRows(TargetValue(p))

Clear == \A f \in event : f = cur \/ ~Promise!Authorises(cur, f)

Visited ==
  \A p \in DeletionTargets(cur) \ todo : \A f \in event : ~Reaches(p, f)

HonouredSoFar ==
  /\ Publishing /\ failed => cur.kind = DELETION
  /\ pc = "targets" /\ ~failed => Visited
  /\ pc \in {"insert", "index"} /\ ~failed => Clear
  /\ pc = "reply" /\ result.accepted /\ result.msg = "" => Clear

HonouredInv == PromiseInv /\ HonouredSoFar

(***************************************************************************)
(* Only the kinds that ask for it have authority over anything.            *)
(***************************************************************************)
LEMMA NoAuthority ==
  ASSUME NEW e, NEW f, Promise!Authorises(e, f)
  PROVE  \/ IsReplaceable(e.kind) \/ IsAddressable(e.kind)
         \/ e.kind = DELETION
         \/ e.kind = VANISH /\ nip62_should_vanish(e)
<1>1. CASE Promise!Supersedes(e, f)
  BY <1>1 DEF Promise!Supersedes, Promise!SameAddress, Promise!IsReplaceable, Promise!IsAddressable,
              IsReplaceable, IsAddressable
<1>2. CASE Promise!RequestsDeletion(e, f)
  BY <1>2 DEF Promise!RequestsDeletion, Promise!DELETION, DELETION
<1>3. CASE Promise!Vanishes(e, f)
  <2>1. e.kind = VANISH /\ Promise!nip62_should_vanish(e)
    BY <1>3 DEF Promise!Vanishes, Promise!VANISH, VANISH
  <2> QED
    BY <2>1
    DEF nip62_should_vanish, Promise!nip62_should_vanish, nip_event_has_relay_tag, Promise!nip_event_has_relay_tag,
        nip_event_has_tag, Promise!nip_event_has_tag, TagValues, Promise!TagValues,
        TagsNamed, Promise!TagsNamed
<1> QED BY <1>1, <1>2, <1>3 DEF Promise!Authorises

(***************************************************************************)
(* The converse of the authority lemmas: what an event has authority over  *)
(* is what its listener's deletes select.                                  *)
(***************************************************************************)
LEMMA KindsDisjoint ==
  \A kind :
    /\ IsReplaceable(kind) => ~IsAddressable(kind) /\ ~IsEphemeral(kind)
    /\ IsAddressable(kind) => ~IsEphemeral(kind)
    /\ kind \in {DELETION, VANISH} => ~IsReplaceable(kind) /\ ~IsAddressable(kind) /\ ~IsEphemeral(kind)
<1> SUFFICES ASSUME NEW kind
             PROVE  /\ IsReplaceable(kind) => ~IsAddressable(kind) /\ ~IsEphemeral(kind)
                    /\ IsAddressable(kind) => ~IsEphemeral(kind)
                    /\ kind \in {DELETION, VANISH} =>
                         ~IsReplaceable(kind) /\ ~IsAddressable(kind) /\ ~IsEphemeral(kind)
  OBVIOUS
<1>1. IsReplaceable(kind) => kind \in Int /\ kind < 20000 /\ kind # 5 /\ kind # 62
  BY DEF IsReplaceable
<1>2. IsAddressable(kind) => kind \in Int /\ kind >= 30000
  BY DEF IsAddressable
<1>3. IsEphemeral(kind) => kind \in Int /\ kind >= 20000 /\ kind < 30000
  BY DEF IsEphemeral
<1> QED BY <1>1, <1>2, <1>3 DEF DELETION, VANISH

LEMMA SupersededSelected ==
  ASSUME InRange, StorageTypeOK, cur \in Event,
         IsReplaceable(cur.kind) \/ IsAddressable(cur.kind),
         NEW f \in event, Promise!Authorises(cur, f)
  PROVE  f \in OlderVersions(cur)
<1>1. Promise!Supersedes(cur, f)
  <2>1. cur.kind # DELETION /\ cur.kind # VANISH
    BY KindsDisjoint
  <2> QED
    BY <2>1 DEF Promise!Authorises, Promise!RequestsDeletion, Promise!Vanishes, Promise!DELETION, DELETION,
                Promise!VANISH, VANISH
<1>2. f.kind = cur.kind /\ f.pubkey = cur.pubkey /\ f.created_at < ToInt(cur.created_at)
  BY <1>1, ToIntInRange DEF InRange, Promise!Supersedes, Promise!SameAddress
<1>3. IsAddressable(cur.kind) => DIdentifier(f) = DIdentifier(cur)
  <2>1. Promise!IsReplaceable(cur.kind) <=> IsReplaceable(cur.kind)
    BY DEF Promise!IsReplaceable, IsReplaceable
  <2> QED BY <1>1, <2>1, SameIdentifier, KindsDisjoint DEF Promise!Supersedes, Promise!SameAddress
<1> QED
  BY <1>2, <1>3 DEF OlderVersions, ByKindAndPubkeyAndDtag, ByKindAndPubkey

LEMMA VanishedSelected ==
  ASSUME InRange, StorageTypeOK, cur \in Event, cur.kind = VANISH,
         NEW f \in event, Promise!Authorises(cur, f)
  PROVE  f \in ByPubkeyUpTo(cur.pubkey, cur.created_at, cur.kind)
<1>1. Promise!Vanishes(cur, f)
  BY DEF Promise!Authorises, Promise!Supersedes, Promise!SameAddress, Promise!IsReplaceable,
         Promise!IsAddressable, Promise!RequestsDeletion, Promise!DELETION, VANISH
<1> QED
  BY <1>1, ToIntInRange DEF InRange, Promise!Vanishes, Promise!VANISH, VANISH, ByPubkeyUpTo

LEMMA DeletionReaches ==
  ASSUME InRange, StorageTypeOK, cur \in Event, cur.kind = DELETION,
         NEW f \in event, Promise!Authorises(cur, f)
  PROVE  \E p \in DeletionTargets(cur) : Reaches(p, f)
<1>1. Promise!RequestsDeletion(cur, f)
  BY DEF Promise!Authorises, Promise!Supersedes, Promise!SameAddress, Promise!IsReplaceable,
         Promise!IsAddressable, Promise!Vanishes, Promise!VANISH, DELETION
<1>2. kind_is_requested(cur, f.kind)
  BY <1>1
  DEF Promise!RequestsDeletion, kind_is_requested, Promise!kind_is_requested, nip_event_has_named,
      Promise!nip_event_has_named, nip_event_has_tag, Promise!nip_event_has_tag,
      TagValues, Promise!TagValues, TagsNamed, Promise!TagsNamed
<1>4. ASSUME NEW name, NEW v \in Promise!Named(cur, name)
      PROVE  \E p \in DeletionTargets(cur) : TargetIn(name, p) /\ TargetValue(p) = v
  BY <1>4 DEF Promise!Named, Promise!DeletionTargets, DeletionTargets, Promise!TagsNamed, TagsNamed,
              TargetIn, TargetValue
<1>5. CASE f.id \in Promise!Named(cur, "e") /\ Promise!deletion_authorized(cur, f)
  <2>1. deletion_authorized(cur, f)
    BY <1>5
    DEF deletion_authorized, Promise!deletion_authorized, nip_event_has_tag, Promise!nip_event_has_tag,
        TagValues, Promise!TagValues, TagsNamed, Promise!TagsNamed
  <2> QED BY <1>2, <1>4, <1>5, <2>1 DEF Reaches
<1>6. ASSUME f.created_at < cur.created_at, f.pubkey = cur.pubkey,
             NEW a \in Promise!Named(cur, "a"), Promise!Covers(a, f)
      PROVE  \E p \in DeletionTargets(cur) : Reaches(p, f)
  <2>1. /\ parse_a_tag_ok(a) /\ parse_a_tag(a).kind = f.kind /\ parse_a_tag(a).pubkey = f.pubkey
        /\ parse_a_tag(a).d \in {"", DIdentifier(f)}
    BY <1>6, SameIdentifier
    DEF Promise!Covers, parse_a_tag_ok, Promise!parse_a_tag_ok, parse_a_tag, Promise!parse_a_tag
  <2>2. f.created_at < ToInt(cur.created_at)
    BY <1>6, ToIntInRange DEF InRange
  <2>3. f \in AddressTargetRows(a)
    BY <1>2, <1>6, <2>1, <2>2
    DEF AddressTargetRows, IsOurs, ByKindAndPubkeyAndDtag, ByKindAndPubkey
  <2> QED BY <1>4, <1>6, <2>3 DEF Reaches
<1> QED BY <1>1, <1>5, <1>6 DEF Promise!RequestsDeletion

-----------------------------------------------------------------------------
(***************************************************************************)
(* Nothing reaches what a shrinking table no longer holds.                 *)
(***************************************************************************)
LEMMA ReachesKept ==
  ASSUME NEW p, NEW f, event' \subseteq event, UNCHANGED cur, f \in event', Reaches(p, f)'
  PROVE  Reaches(p, f)
BY DEF Reaches, TargetIn, TargetValue, deletion_authorized, kind_is_requested, AddressTargetRows, IsOurs,
       ByKindAndPubkeyAndDtag, ByKindAndPubkey

LEMMA ReceiveHonoured ==
  ASSUME HonouredInv, NEW ev \in Event, NEW auth, NEW valid, Receive(ev, auth, valid)
  PROVE  HonouredSoFar'
<1>1. ~failed' /\ cur' = ev
  BY DEF Receive
<1>2. ASSUME pc' = "targets" PROVE Visited'
  BY <1>1, <1>2 DEF Visited, Receive, Dispatch, Answering
<1>3. ASSUME pc' = "insert" \/ (pc' = "reply" /\ result'.accepted)
      PROVE  /\ ~IsReplaceable(ev.kind) /\ ~IsAddressable(ev.kind) /\ ev.kind # DELETION
             /\ ~(ev.kind = VANISH /\ nip62_should_vanish(ev))
  <2>1. Dispatch(ev)
    BY <1>3 DEF Receive, Answering, Reject
  <2> QED BY <1>3, <2>1, KindsDisjoint DEF Dispatch, Answering, Reject, DELETION, VANISH
<1>4. pc' # "index"
  BY DEF Receive, Dispatch, Answering
<1>5. ASSUME pc' = "insert" \/ (pc' = "reply" /\ result'.accepted), NEW f \in event'
      PROVE  ~Promise!Authorises(ev, f)
  BY <1>3, <1>5, NoAuthority
<1>6. pc' = "insert" \/ (pc' = "reply" /\ result'.accepted) => Clear'
  BY <1>1, <1>5 DEF Clear
<1> QED BY <1>1, <1>2, <1>4, <1>6 DEF HonouredSoFar

LEMMA ReplaceHonoured ==
  ASSUME InRange, HonouredInv, Replace
  PROVE  HonouredSoFar'
<1>1. ASSUME NEW f \in event' PROVE ~Promise!Authorises(cur, f)
  BY SupersededSelected
  DEF HonouredInv, PromiseInv, SoundInv, TypeOK, Publishing, Dispatched, Replace, DeleteRows
<1>2. ~failed
  BY KindsDisjoint DEF HonouredInv, HonouredSoFar, PromiseInv, Dispatched, Publishing, Replace
<1>3. Clear'
  BY <1>1 DEF Clear, Replace
<1> QED BY <1>2, <1>3 DEF HonouredSoFar, Replace

LEMMA VanishHonoured ==
  ASSUME InRange, HonouredInv, Vanish
  PROVE  HonouredSoFar'
<1>1. ASSUME NEW f \in event' PROVE ~Promise!Authorises(cur, f)
  BY VanishedSelected
  DEF HonouredInv, PromiseInv, SoundInv, TypeOK, Publishing, Dispatched, Vanish, DeleteRows
<1>2. ~failed
  BY DEF HonouredInv, HonouredSoFar, PromiseInv, Dispatched, Publishing, Vanish, DELETION, VANISH
<1>3. Clear'
  BY <1>1 DEF Clear, Vanish
<1> QED BY <1>2, <1>3 DEF HonouredSoFar, Vanish

LEMMA TargetsHonoured ==
  ASSUME InRange, "read" \notin Faults, HonouredInv, NEW p \in todo,
         \/ DeleteEventTarget(p) \/ DeleteAddressTarget(p)
         \/ DeleteTargetFails(p)
         \/ EventTargetMisread(p) \/ AddressTargetMisread(p)
  PROVE  HonouredSoFar'
<1>1. /\ cur \in Event /\ cur.kind = DELETION /\ pc = "targets" /\ pc' = "targets"
      /\ cur' = cur /\ todo' = todo \ {p} /\ StorageTypeOK
  BY DEF HonouredInv, PromiseInv, SoundInv, TypeOK, Publishing, Dispatched,
         DeleteEventTarget, DeleteAddressTarget, DeleteTargetFails, EventTargetMisread, AddressTargetMisread
<1>2. CASE DeleteTargetFails(p)
  BY <1>1, <1>2 DEF HonouredSoFar, DeleteTargetFails
<1>3. CASE EventTargetMisread(p) \/ AddressTargetMisread(p)
  BY <1>3 DEF EventTargetMisread, AddressTargetMisread
<1>4. ASSUME DeleteEventTarget(p) \/ DeleteAddressTarget(p), ~failed' PROVE Visited'
  <2>1. ~failed /\ event' \subseteq event
    <3>1. failed \in BOOLEAN
      BY DEF HonouredInv, PromiseInv, SoundInv, TypeOK
    <3>2. ~failed
      BY <1>4, <3>1 DEF DeleteEventTarget, DeleteAddressTarget
    <3>3. event' \subseteq event
      BY <1>4 DEF DeleteEventTarget, DeleteAddressTarget, DeleteRows
    <3> QED BY <3>2, <3>3
  <2>2. ASSUME NEW f \in event' PROVE ~Reaches(p, f)
    <3>1. CASE DeleteEventTarget(p)
      <4> DEFINE id == TargetValue(p)
      <4>1. TargetIn("e", p) /\ event' = event \ EventTargetRows(id)
        BY <3>1 DEF DeleteEventTarget, DeleteRows
      <4>2. f.id = id /\ f \in AuthorizedTarget(id) => EventTargetRows(id) # {}
        BY <3>1, <1>4 DEF DeleteEventTarget
      <4>3. \A r \in EventTargetRows(id) : r \in event /\ r.id = id
        BY DEF EventTargetRows, AuthorizedTarget, ByIdAndKindAndPtag, ByIdAndPubkey
      <4>4. f.id = id /\ f \in AuthorizedTarget(id) => f \in EventTargetRows(id)
        BY <4>2, <4>3, <2>1, <1>1, StoredIsTable, IdIsHash
      <4>5. ~(/\ f.id = id /\ deletion_authorized(cur, f) /\ kind_is_requested(cur, f.kind))
        BY <4>1, <4>4, <2>1 DEF AuthorizedTarget
      <4>6. ~TargetIn("a", p)
        BY <4>1 DEF TargetIn
      <4> QED BY <4>5, <4>6 DEF Reaches
    <3>2. CASE DeleteAddressTarget(p)
      BY <3>2 DEF DeleteAddressTarget, DeleteRows, Reaches, TargetIn
    <3> QED BY <1>4, <3>1, <3>2
  <2>3. ASSUME NEW q \in DeletionTargets(cur) \ todo', NEW f \in event' PROVE ~Reaches(q, f)
    BY <1>1, <2>1, <2>2, <2>3 DEF HonouredInv, HonouredSoFar, Visited
  <2>4. ASSUME NEW q \in DeletionTargets(cur)' \ todo', NEW f \in event' PROVE ~Reaches(q, f)'
    <3>1. q \in DeletionTargets(cur) \ todo'
      BY <1>1 DEF DeletionTargets, TagsNamed
    <3> QED BY <3>1, <2>1, <2>3, <1>1, ReachesKept
  <2> QED BY <2>4 DEF Visited
<1> QED BY <1>1, <1>2, <1>3, <1>4 DEF HonouredSoFar

LEMMA TargetsDoneHonoured ==
  ASSUME InRange, HonouredInv, TargetsDone
  PROVE  HonouredSoFar'
<1>1. ASSUME ~failed, NEW f \in event PROVE ~Promise!Authorises(cur, f)
  BY <1>1, DeletionReaches
  DEF HonouredInv, PromiseInv, SoundInv, TypeOK, Publishing, Dispatched, HonouredSoFar, Visited, TargetsDone
<1>2. UNCHANGED <<event, cur, failed>> /\ pc' = "insert" /\ pc = "targets"
  BY DEF TargetsDone, storageVars
<1>3. ~failed' => Clear'
  BY <1>1, <1>2 DEF Clear
<1> QED BY <1>2, <1>3 DEF HonouredInv, HonouredSoFar, Publishing

(***************************************************************************)
(* From the insert on, nothing but the event itself is added.              *)
(***************************************************************************)
LEMMA InsertHonoured ==
  ASSUME InRange, HonouredInv, Insert \/ InsertRefused \/ Index \/ IndexFails \/ Indexed \/ Reply
  PROVE  HonouredSoFar'
<1>1. CASE Insert
  <2>1. event' = event \cup {cur}
    BY <1>1, RowIsEvent DEF HonouredInv, PromiseInv, SoundInv, TypeOK, Publishing, Insert, InsertRow
  <2>2. Clear => Clear'
    BY <1>1, <2>1 DEF Clear, Insert
  <2> QED BY <1>1, <2>2 DEF HonouredInv, HonouredSoFar, Publishing, Insert
<1>2. CASE InsertRefused
  BY <1>2 DEF HonouredInv, HonouredSoFar, Publishing, InsertRefused, Answering, Reject
<1>3. CASE Index \/ IndexFails
  <2>1. UNCHANGED <<event, pc, cur, failed>> /\ pc = "index"
    BY <1>3 DEF Index, IndexFails, IndexDelegator, storageVars
  <2>2. Clear => Clear'
    BY <2>1 DEF Clear
  <2> QED BY <2>1, <2>2 DEF HonouredInv, HonouredSoFar, Publishing
<1>4. CASE Indexed
  <2>1. UNCHANGED <<event, cur, failed>> /\ pc = "index" /\ pc' = "reply"
    BY <1>4 DEF Indexed, Answering, storageVars
  <2>2. Clear => Clear'
    BY <2>1 DEF Clear
  <2>3. result'.msg = "" => ~failed
    BY <1>4, <2>1
    DEF HonouredInv, HonouredSoFar, Publishing, Indexed, Answering, InsertResult, StoreOnly
  <2> QED BY <2>1, <2>2, <2>3 DEF HonouredInv, HonouredSoFar, Publishing
<1>5. CASE Reply
  BY <1>5 DEF Reply, HonouredSoFar, Publishing
<1> QED BY <1>1, <1>2, <1>3, <1>4, <1>5

LEMMA HonouredNext == InRange /\ "read" \notin Faults /\ HonouredInv /\ [Next]_vars => HonouredInv'
<1> SUFFICES ASSUME InRange, "read" \notin Faults, HonouredInv, [Next]_vars PROVE HonouredSoFar'
  BY SoundNext, DispatchedNext DEF HonouredInv, PromiseInv
<1>1. CASE ReplaceFails \/ VanishFails
  <2>1. UNCHANGED <<cur, failed>> /\ Publishing /\ pc' = "reply" /\ ~result'.accepted
    BY <1>1 DEF ReplaceFails, VanishFails, Answering, Reject, Publishing
  <2> QED BY <2>1 DEF HonouredInv, HonouredSoFar
<1>2. CASE ReplaceMisread
  BY <1>2 DEF ReplaceMisread
<1>3. CASE Purge \/ Lifecycle
  BY <1>3
  DEF HonouredSoFar, Publishing, Purge, PurgeBegin, PurgeRow, PurgeRowFails, PurgeEnd,
      Lifecycle, Stop, Crash, GoDown, Start, Migration, Backfill, BackfillFails, BackfillDone, MarkFails
<1>4. CASE Tick \/ UNCHANGED vars
  <2>1. UNCHANGED <<event, pc, cur, todo, failed, result>>
    BY <1>4 DEF Tick, vars, jobVars, storageVars
  <2>2. Clear => Clear'
    BY <2>1 DEF Clear
  <2>3. Visited => Visited'
    <3>1. DeletionTargets(cur)' = DeletionTargets(cur)
      BY <2>1 DEF DeletionTargets, TagsNamed
    <3> QED BY <2>1, <3>1, ReachesKept DEF Visited
  <2> QED BY <2>1, <2>2, <2>3 DEF HonouredInv, HonouredSoFar, Publishing
<1> QED
  BY <1>1, <1>2, <1>3, <1>4, ReceiveHonoured, ReplaceHonoured, VanishHonoured, TargetsHonoured,
     TargetsDoneHonoured, InsertHonoured
  DEF Next, Listener

(***************************************************************************)
(* While nothing is misread, an unqualified OK true means that no event    *)
(* the published one supersedes, asks to delete or makes vanish is still   *)
(* held, whatever else fails.                                              *)
(***************************************************************************)
THEOREM RequestCarriedOut ==
  InRange /\ NoneNamesItself /\ "read" \notin Faults => (Spec => []RequestHonoured)
<1>1. ASSUME InRange, NoneNamesItself, "read" \notin Faults PROVE Spec => []RequestHonoured
  <2>1. Init => HonouredInv
    BY SoundInit DEF Init, HonouredInv, PromiseInv, Dispatched, HonouredSoFar, Publishing
  <2>2. HonouredInv /\ [Next]_vars => HonouredInv'
    BY <1>1, HonouredNext
  <2>3. ASSUME HonouredInv, pc = "reply", result.accepted, result.msg = "", NEW f \in Stored
        PROVE  ~Promise!Authorises(cur, f)
    <3>1. f \in event /\ cur \in Event
      BY <1>1, <2>3, StoredIsTable DEF HonouredInv, PromiseInv, SoundInv, TypeOK, Publishing
    <3>2. CASE f # cur
      BY <2>3, <3>1, <3>2 DEF HonouredInv, HonouredSoFar, Clear
    <3>3. ~Promise!Authorises(cur, cur)
      <4>1. cur.created_at \in Int /\ cur.id \notin Promise!Named(cur, "e")
        BY <1>1, <3>1, EventIsRecord DEF NoneNamesItself
      <4> QED
        BY <4>1 DEF Promise!Authorises, Promise!Supersedes, Promise!RequestsDeletion, Promise!Vanishes
    <3> QED BY <3>2, <3>3
  <2>4. HonouredInv => RequestHonoured
    BY <2>3 DEF RequestHonoured
  <2> QED BY <2>1, <2>2, <2>4, PTL DEF Spec
<1> QED BY <1>1
=============================================================================
