---------------------------- MODULE FinishProofs ----------------------------
(***************************************************************************)
(* What an EOSE promises, where nothing the relay is known to miss comes   *)
(* into play: a query that is told of nothing more has missed nothing.     *)
(***************************************************************************)
EXTENDS RelayProofs, PromiseProofs

(***************************************************************************)
(* The conditions.  Every filter is within the limits of a query; the tags *)
(* that a filter names are pairs, in one of the two spacings that a query  *)
(* looks for and spelled without escapes (a pair that is none is the       *)
(* finding of MCHinted); expiration dates are numbers; an older database   *)
(* is finite.                                                              *)
(***************************************************************************)
Answerable == \A filters \in FilterLists : Reached(filters, FALSE) = DOMAIN filters

WrittenAsPairs ==
  \A filters \in FilterLists \cup CountLists :
  \A i \in DOMAIN filters : \A tag \in filters[i].tags, ev \in Event :
    \A k \in TagsNamed(ev, tag[1]) :
      Len(ev.tags[k]) >= 2 =>
        /\ Len(ev.tags[k]) = 2 /\ TagsText[ev.id][k].raw = ev.tags[k]
        /\ TagsText[ev.id][k].blank \in {"none", "space"}

DatesAreNumbers == \A ev \in Event : TagValues(ev, "expiration") \subseteq Int

FiniteLegacy == \A old \in Legacy : IsFiniteSet(old)

Ordinary ==
  /\ InRange /\ "read" \notin Faults
  /\ Answerable /\ WrittenAsPairs /\ DatesAreNumbers /\ FiniteLegacy

-----------------------------------------------------------------------------
(***************************************************************************)
(* What matches in memory is selected by the query.                        *)
(***************************************************************************)
LEMMA MatchIsSelected ==
  ASSUME WrittenAsPairs, NEW filters \in FilterLists \cup CountLists, NEW i \in DOMAIN filters,
         NEW r \in event, r \in Event, matches_filter(filters[i], r)
  PROVE  r \in Selected(filters[i])
<1> DEFINE f == filters[i]
<1>1. ASSUME NEW tag \in f.tags PROVE \E value \in tag[2] : HasPair(r, tag[1], value)
  <2>1. PICK value \in tag[2] : nip_event_has_tag(r, tag[1], value)
    BY DEF matches_filter
  <2>2. PICK k \in TagsNamed(r, tag[1]) : Len(r.tags[k]) >= 2 /\ r.tags[k][2] = value
    BY <2>1 DEF nip_event_has_tag, TagValues
  <2>3. r.tags[k][1] = tag[1] /\ k \in DOMAIN r.tags
    BY DEF TagsNamed
  <2> DEFINE text == TagsText[r.id][k]
  <2>4. Len(r.tags[k]) = 2 /\ text.raw = r.tags[k] /\ text.blank \in {"none", "space"}
    BY <2>2 DEF WrittenAsPairs
  <2>5. text \in Written(r)
    BY <2>3, TextIsOfTags DEF Written
  <2> HIDE DEF text
  <2> QED BY <2>2, <2>3, <2>4, <2>5 DEF HasPair
<1>2. /\ f.since # 0 => r.created_at >= f.since
      /\ f.until # 0 => r.created_at <= f.until
      /\ f.ids # {} => r.id \in f.ids
      /\ f.authors # {} => r.pubkey \in f.authors
      /\ f.kinds # {} => r.kind \in f.kinds
  BY DEF matches_filter
<1>3. (f.since > 0 => f.since # 0) /\ (f.until > 0 => f.until # 0)
  OBVIOUS
<1>4. Selects(f, r)
  BY <1>1, <1>2, <1>3 DEF Selects
<1> QED BY <1>4 DEF Selected

LEMMA LimitIsNatural == \A f : Limit(f) \in Nat
BY QueryLimitsAreNaturals DEF Limit

(***************************************************************************)
(* A page with no row left over has them all.                              *)
(***************************************************************************)
LEMMA PageIsWhole ==
  ASSUME IsFiniteSet(event), NEW f, ~HasMore(f), NEW page \in Pages(f)
  PROVE  page = Selected(f)
<1>1. /\ page \subseteq Selected(f)
      /\ page = Selected(f) \/ Cardinality(page) = Limit(f)
  BY DEF Pages, Newest
<1>2. IsFiniteSet(Selected(f))
  BY FS_Subset DEF Selected
<1>3. /\ Cardinality(Selected(f)) \in Nat /\ Cardinality(page) \in Nat
      /\ Cardinality(page) <= Cardinality(Selected(f))
      /\ Cardinality(page) = Cardinality(Selected(f)) => page = Selected(f)
  BY <1>1, <1>2, FS_Subset, FS_CardinalityType
<1>4. Cardinality(Selected(f)) <= Limit(f)
  BY <1>3, LimitIsNatural DEF HasMore
<1> QED BY <1>1, <1>3, <1>4, LimitIsNatural

(***************************************************************************)
(* A replay that leaves nothing over delivers all that may be delivered.   *)
(***************************************************************************)
LEMMA ReplayIsWhole ==
  ASSUME Ordinary, IsFiniteSet(event), event \subseteq Event,
         NEW filters \in FilterLists, NEW stream \in Streams(filters, "read" \in Faults),
         \A i \in DOMAIN stream : ~stream[i].more,
         NEW r \in event, MatchesAny(filters, r), NEW c, can_deliver(r, c)
  PROVE  r.id \in Delivered(stream, filters, c)
<1>1. Reached(filters, FALSE) = DOMAIN filters
  BY DEF Ordinary, Answerable
<1>2. /\ DOMAIN stream = DOMAIN filters
      /\ \A i \in DOMAIN filters : stream[i] \in Scans(filters[i], FALSE)
  <2>1. ("read" \in Faults) = FALSE
    BY DEF Ordinary
  <2>2. stream \in Streams(filters, FALSE)
    BY <2>1
  <2> QED BY <1>1, <2>2 DEF Streams
<1>3. PICK i \in DOMAIN filters : matches_filter(filters[i], r)
  BY DEF MatchesAny
<1>4. PICK page \in Pages(filters[i]) : stream[i] = [rows |-> page, more |-> HasMore(filters[i])]
  BY <1>2 DEF Scans
<1>5. stream[i].rows = page /\ ~HasMore(filters[i])
  <2>1. stream[i].more = HasMore(filters[i]) /\ stream[i].rows = page
    BY <1>4
  <2> QED BY <1>2, <2>1
<1>6. r \in page
  BY <1>3, <1>5, PageIsWhole, MatchIsSelected DEF Ordinary
<1>7. r \in UNION {stream[j].rows : j \in DOMAIN stream}
  BY <1>2, <1>5, <1>6
<1> QED BY <1>7 DEF Delivered

-----------------------------------------------------------------------------
(***************************************************************************)
(* The inductive invariant.  What is in the table and not delivered yet is *)
(* the event whose broadcast comes when its publication is answered.       *)
(***************************************************************************)
Awaited(r) ==
  r = cur /\ (pc = "index" \/ (pc = "reply" /\ result.accepted /\ result.should_broadcast))

Open(r) == r.kind \notin GIFT_WRAPS \cup {DELETION} /\ ~nip40_event_is_expired(r, now)

SameName(s, t) == t.connection = s.connection /\ t.id = s.id

NothingMissed ==
  \A s \in subscriptions, t \in told, r \in event :
    SameName(s, t) /\ ~t.more /\ MatchesAny(s.filters, r) /\ Open(r)
    => <<s.connection, s.id, r.id>> \in got \/ Awaited(r)

FinishInv == RelayInv /\ IsFiniteSet(event) /\ NothingMissed

LEMMA TableIsEvents ==
  ASSUME Ordinary, RelayInv
  PROVE  event \subseteq Event /\ (pc = "index" => cur \in Event)
<1>1. TypeOK
  BY DEF RelayInv, SoundInv
<1> QED BY <1>1, StoredIsTable DEF TypeOK, Publishing, Ordinary

(***************************************************************************)
(* Time only closes events.                                                *)
(***************************************************************************)
LEMMA OpenBefore ==
  ASSUME Ordinary, now \in Nat, now' = now \/ now' = now + 1,
         NEW r \in Event, Open(r)'
  PROVE  Open(r)
<1>1. \A date \in TagValues(r, "expiration") : date \in Int /\ ~(date <= now')
  BY DEF Open, nip40_event_is_expired, Ordinary, DatesAreNumbers
<1>2. \A date \in TagValues(r, "expiration") : ~(date <= now)
  BY <1>1
<1> QED BY <1>2 DEF Open, nip40_event_is_expired

(***************************************************************************)
(* Steps that bring no event and no subscription, and lose no delivery.    *)
(***************************************************************************)
LEMMA QuietHolds ==
  ASSUME Ordinary, FinishInv, event' \subseteq event, now' = now \/ now' = now + 1,
         subscriptions' \subseteq subscriptions, told' \subseteq told,
         \A g \in got : g \in got' \/ \A s \in subscriptions' : <<s.connection, s.id>> # <<g[1], g[2]>>,
         \A r \in event : r.kind # DELETION /\ Awaited(r) => Awaited(r)'
  PROVE  IsFiniteSet(event)' /\ NothingMissed'
<1>1. IsFiniteSet(event')
  BY FS_Subset DEF FinishInv
<1>2. now \in Nat /\ event \subseteq Event
  BY TableIsEvents, BoundsAreNaturals DEF FinishInv, RelayInv, SoundInv, TypeOK
<1> SUFFICES ASSUME NEW s \in subscriptions', NEW t \in told', NEW r \in event',
                    SameName(s, t), ~t.more, MatchesAny(s.filters, r), Open(r)'
             PROVE  <<s.connection, s.id, r.id>> \in got' \/ Awaited(r)'
  BY <1>1 DEF NothingMissed
<1>3. r \in event /\ Open(r)
  BY <1>2, OpenBefore
<1>4. <<s.connection, s.id, r.id>> \in got \/ Awaited(r)
  BY <1>3 DEF FinishInv, NothingMissed
<1>5. r.kind # DELETION
  BY <1>3 DEF Open
<1> QED BY <1>3, <1>4, <1>5

(***************************************************************************)
(* The write path between two answers.                                     *)
(***************************************************************************)
LEMMA WritingIsQuiet ==
  ASSUME RelayInv, Storing, ~Insert
  PROVE  /\ event' \subseteq event /\ (now' = now \/ now' = now + 1)
         /\ \A r \in event : r.kind # DELETION /\ Awaited(r) => Awaited(r)'
<1>1. CASE Index \/ IndexFails
  BY <1>1 DEF Index, IndexFails, IndexDelegator, storageVars, Awaited
<1>2. CASE Indexed
  <2>1. pc = "index" /\ pc' = "reply" /\ result' = InsertResult(cur, failed)
        /\ UNCHANGED <<event, now, cur>>
    BY <1>2 DEF Indexed, Answering, storageVars
  <2>2. cur.kind # DELETION => result'.accepted /\ result'.should_broadcast
    BY <2>1 DEF InsertResult, Accept
  <2> QED BY <2>1, <2>2 DEF Awaited
<1>3. CASE Tick
  BY <1>3 DEF Tick, storageVars, jobVars, Awaited
<1>4. CASE Replace \/ ReplaceFails \/ ReplaceMisread \/ TargetsDone \/ Vanish \/ VanishFails \/ InsertRefused
  BY <1>4
  DEF Replace, ReplaceFails, ReplaceMisread, TargetsDone, Vanish, VanishFails, InsertRefused,
      DeleteRows, storageVars, Awaited
<1>5. CASE \E p \in todo : DeleteEventTarget(p) \/ DeleteAddressTarget(p) \/ DeleteTargetFails(p)
                           \/ EventTargetMisread(p) \/ AddressTargetMisread(p)
  BY <1>5
  DEF DeleteEventTarget, DeleteAddressTarget, DeleteTargetFails, EventTargetMisread,
      AddressTargetMisread, DeleteRows, storageVars, Awaited
<1>6. CASE Purge
  BY <1>6 DEF Purge, PurgeBegin, PurgeRow, PurgeRowFails, PurgeEnd, DeleteRows, storageVars, Awaited
<1>7. CASE Start \/ Migration
  BY <1>7
  DEF Start, Migration, Backfill, BackfillFails, BackfillDone, MarkFails, IndexDelegator,
      MarkBackfilled, storageVars, Awaited
<1> QED BY <1>1, <1>2, <1>3, <1>4, <1>5, <1>6, <1>7 DEF Storing, Listener, Reply

(***************************************************************************)
(* The event that was inserted is awaited until its publication is over.   *)
(***************************************************************************)
LEMMA InsertMissesNothing ==
  ASSUME Ordinary, FinishInv, Insert, UNCHANGED relayVars
  PROVE  IsFiniteSet(event)' /\ NothingMissed'
<1>1. /\ pc = "insert" /\ pc' = "index" /\ cur' = cur /\ now' = now
      /\ event' = event \cup {Row(cur)}
      /\ UNCHANGED <<subscriptions, told, got>>
  BY DEF Insert, InsertRow, relayVars
<1>2. Row(cur) = cur
  <2>1. cur \in Event
    BY <1>1 DEF FinishInv, RelayInv, SoundInv, TypeOK, Publishing
  <2> QED BY <2>1, RowIsEvent DEF Ordinary
<1>3. IsFiniteSet(event')
  BY <1>1, FS_AddElement DEF FinishInv
<1> SUFFICES ASSUME NEW s \in subscriptions', NEW t \in told', NEW r \in event',
                    SameName(s, t), ~t.more, MatchesAny(s.filters, r), Open(r)'
             PROVE  <<s.connection, s.id, r.id>> \in got' \/ Awaited(r)'
  BY <1>3 DEF NothingMissed
<1>4. CASE r = cur
  BY <1>1, <1>4 DEF Awaited
<1>5. CASE r \in event
  <2>1. Open(r)
    BY <1>1 DEF Open
  <2>2. <<s.connection, s.id, r.id>> \in got \/ Awaited(r)
    BY <1>1, <1>5, <2>1 DEF FinishInv, NothingMissed
  <2> QED BY <1>1, <2>2 DEF Awaited
<1> QED BY <1>1, <1>2, <1>4, <1>5

(***************************************************************************)
(* The awaited event goes to everyone who listens for it.                  *)
(***************************************************************************)
LEMMA BroadcastMissesNothing ==
  ASSUME Ordinary, FinishInv, Broadcast
  PROVE  IsFiniteSet(event)' /\ NothingMissed'
<1>1. /\ pc = "reply" /\ UNCHANGED <<event, now, subscriptions, told>>
      /\ got' = got \cup
           IF result.accepted /\ result.should_broadcast
           THEN {<<s.connection, s.id, cur.id>> : s \in Listening(cur)} ELSE {}
  BY DEF Broadcast, Reply, storageVars
<1> SUFFICES ASSUME NEW s \in subscriptions, NEW t \in told, NEW r \in event,
                    SameName(s, t), ~t.more, MatchesAny(s.filters, r), Open(r)
             PROVE  <<s.connection, s.id, r.id>> \in got'
  BY <1>1 DEF NothingMissed, FinishInv, Open
<1>2. CASE <<s.connection, s.id, r.id>> \in got
  BY <1>1, <1>2
<1>3. CASE Awaited(r)
  <2>1. r = cur /\ result.accepted /\ result.should_broadcast
    BY <1>1, <1>3 DEF Awaited
  <2>2. can_deliver(cur, s.connection)
    BY <2>1 DEF Open, can_deliver, nip17_can_deliver
  <2>3. s \in Listening(cur)
    BY <2>1, <2>2 DEF Listening
  <2> QED BY <1>1, <2>1, <2>3
<1> QED BY <1>2, <1>3 DEF FinishInv, NothingMissed

(***************************************************************************)
(* A new subscription has what its replay delivered; the others keep what  *)
(* they got.                                                               *)
(***************************************************************************)
LEMMA SubscribeMissesNothing ==
  ASSUME Ordinary, FinishInv, NEW c \in Connection, NEW id \in SubId,
         NEW filters \in FilterLists, Subscribe(c, id, filters)
  PROVE  IsFiniteSet(event)' /\ NothingMissed'
<1>0. event \subseteq Event
  BY TableIsEvents DEF FinishInv
<1>1. /\ pc = "idle" /\ UNCHANGED <<event, now, pc, cur, result>>
      /\ subscriptions' =
           (subscriptions \ Of(c, id)) \cup {[connection |-> c, id |-> id, filters |-> filters]}
  BY DEF Subscribe, vars
<1>2. PICK stream \in Streams(filters, "read" \in Faults) :
        /\ got' = {g \in got : <<g[1], g[2]>> # <<c, id>>}
                    \cup {<<c, id, e>> : e \in Delivered(stream, filters, c)}
        /\ told' = {t \in told : <<t.connection, t.id>> # <<c, id>>}
                     \cup {[connection |-> c, id |-> id,
                            more |-> \E i \in DOMAIN stream : stream[i].more,
                            auth |-> NeedsAuth(c, filters)]}
  BY DEF Subscribe
<1> DEFINE answer == [connection |-> c, id |-> id,
                      more |-> \E i \in DOMAIN stream : stream[i].more,
                      auth |-> NeedsAuth(c, filters)]
           new    == [connection |-> c, id |-> id, filters |-> filters]
<1>3. /\ answer.connection = c /\ answer.id = id
      /\ ~answer.more => \A i \in DOMAIN stream : ~stream[i].more
      /\ new.connection = c /\ new.id = id /\ new.filters = filters
  OBVIOUS
<1>4. /\ told' = {t \in told : <<t.connection, t.id>> # <<c, id>>} \cup {answer}
      /\ subscriptions' = (subscriptions \ Of(c, id)) \cup {new}
  BY <1>1, <1>2
<1> HIDE DEF answer, new
<1> SUFFICES ASSUME NEW s \in subscriptions', NEW t \in told', NEW r \in event,
                    SameName(s, t), ~t.more, MatchesAny(s.filters, r), Open(r)
             PROVE  <<s.connection, s.id, r.id>> \in got'
  BY <1>1 DEF NothingMissed, FinishInv, Open
<1>5. CASE <<s.connection, s.id>> = <<c, id>>
  <2>1. s = new
    BY <1>4, <1>5 DEF Of
  <2>2. t = answer
    BY <1>4, <1>5 DEF SameName
  <2>3. can_deliver(r, c)
    BY DEF Open, can_deliver, nip17_can_deliver
  <2>4. r.id \in Delivered(stream, filters, c)
    BY <1>0, <1>3, <2>1, <2>2, <2>3, ReplayIsWhole DEF FinishInv
  <2> QED BY <1>2, <1>5, <2>4
<1>6. CASE <<s.connection, s.id>> # <<c, id>>
  <2>1. s \in subscriptions /\ t \in told
    BY <1>3, <1>4, <1>6 DEF SameName
  <2>2. <<s.connection, s.id, r.id>> \in got
    BY <1>1, <2>1 DEF FinishInv, NothingMissed, Awaited
  <2> QED BY <1>2, <1>6, <2>2
<1> QED BY <1>5, <1>6

(***************************************************************************)
(* What is forgotten is forgotten with its subscriptions.                  *)
(***************************************************************************)
LEMMA LeavingMissesNothing ==
  ASSUME Ordinary, FinishInv, NEW gone \in SUBSET Connection, Forget(gone),
         UNCHANGED vars \/ gone = Connection, event' = event, now' = now
  PROVE  IsFiniteSet(event)' /\ NothingMissed'
<1>1. CASE gone = Connection
  <2>1. subscriptions' = {}
    BY <1>1 DEF Forget, FinishInv, RelayInv, RelayTypeOK
  <2> QED BY <2>1 DEF NothingMissed, FinishInv
<1>2. CASE UNCHANGED vars
  <2>1. \A r \in event : Awaited(r) => Awaited(r)'
    BY <1>2 DEF Awaited, vars
  <2>2. /\ subscriptions' \subseteq subscriptions /\ told' \subseteq told
        /\ \A g \in got : g \in got' \/ \A s \in subscriptions' : <<s.connection, s.id>> # <<g[1], g[2]>>
    BY DEF Forget
  <2> QED BY <2>1, <2>2, QuietHolds
<1> QED BY <1>1, <1>2

LEMMA FinishInvNext == Ordinary /\ FinishInv /\ [RelayNext]_relayAll => FinishInv'
<1> SUFFICES ASSUME Ordinary, FinishInv, [RelayNext]_relayAll PROVE FinishInv' OBVIOUS
<1>1. RelayInv'
  BY RelayInvNext DEF FinishInv
<1> SUFFICES IsFiniteSet(event)' /\ NothingMissed'
  BY <1>1 DEF FinishInv
<1>2. ASSUME NEW c \in Connection, Serving(c) PROVE IsFiniteSet(event)' /\ NothingMissed'
  <2>1. CASE Publication(c)
    <3>1. /\ pc = "idle" /\ UNCHANGED <<event, now>> /\ UNCHANGED <<subscriptions, told, got>>
      BY <2>1 DEF Publication, Receive, storageVars, relayVars
    <3>2. \A r \in event : ~Awaited(r)
      BY <3>1 DEF Awaited
    <3> QED BY <3>1, <3>2, QuietHolds
  <2>2. CASE Connect(c) \/ \E pubkey \in Pubkey, challenge \in 1..issued, relay \in DOMAIN Stripped :
                             Authenticate(c, pubkey, challenge, relay)
    <3>1. UNCHANGED vars /\ UNCHANGED <<subscriptions, told, got>>
      BY <2>2 DEF Connect, Authenticate
    <3>2. UNCHANGED <<event, now>> /\ \A r \in event : Awaited(r) => Awaited(r)'
      BY <3>1 DEF vars, Awaited
    <3> QED BY <3>1, <3>2, QuietHolds
  <2>3. CASE Disconnect(c)
    <3>1. Forget({c}) /\ UNCHANGED vars /\ event' = event /\ now' = now
      BY <2>3 DEF Disconnect, vars
    <3> QED BY <3>1, LeavingMissesNothing
  <2>4. ASSUME NEW id \in SubId, NEW filters \in FilterLists, Subscribe(c, id, filters)
        PROVE  IsFiniteSet(event)' /\ NothingMissed'
    BY <2>4, SubscribeMissesNothing
  <2>5. ASSUME NEW id \in SubId, Unsubscribe(c, id)
        PROVE  IsFiniteSet(event)' /\ NothingMissed'
    <3>1. /\ UNCHANGED <<event, now>>
          /\ subscriptions' = subscriptions \ Of(c, id)
          /\ got' = {g \in got : <<g[1], g[2]>> # <<c, id>>}
          /\ told' \subseteq told
          /\ \A r \in event : Awaited(r) => Awaited(r)'
      BY <2>5 DEF Unsubscribe, vars, Awaited
    <3>2. \A g \in got : g \in got' \/ \A s \in subscriptions' : <<s.connection, s.id>> # <<g[1], g[2]>>
      BY <3>1 DEF Of
    <3> QED BY <3>1, <3>2, QuietHolds
  <2> QED BY <1>2, <2>1, <2>2, <2>3, <2>4, <2>5 DEF Serving
<1>3. CASE Broadcast
  BY <1>3, BroadcastMissesNothing
<1>4. CASE Storing
  <2>1. CASE Insert
    BY <1>4, <2>1, InsertMissesNothing DEF Storing
  <2>2. CASE ~Insert
    <3>1. UNCHANGED <<subscriptions, told, got>>
      BY <1>4 DEF Storing, relayVars
    <3>2. /\ event' \subseteq event /\ (now' = now \/ now' = now + 1)
          /\ \A r \in event : r.kind # DELETION /\ Awaited(r) => Awaited(r)'
      BY <1>4, <2>2, WritingIsQuiet DEF FinishInv
    <3> QED BY <3>1, <3>2, QuietHolds
  <2> QED BY <2>1, <2>2
<1>5. CASE GoingDown
  <2>1. Forget(Connection) /\ event' = event /\ now' = now
    BY <1>5 DEF GoingDown, Stop, Crash, GoDown, storageVars
  <2>2. Connection \in SUBSET Connection
    OBVIOUS
  <2> QED BY <2>1, <2>2, LeavingMissesNothing
<1>6. CASE UNCHANGED relayAll
  <2>1. UNCHANGED <<event, now, subscriptions, told, got>> /\ \A r \in event : Awaited(r) => Awaited(r)'
    BY <1>6 DEF relayAll, vars, relayVars, Awaited
  <2> QED BY <2>1, QuietHolds
<1> QED BY <1>2, <1>3, <1>4, <1>5, <1>6 DEF RelayNext

LEMMA FinishInvInit == Ordinary /\ RelayInit => FinishInv
<1> SUFFICES ASSUME Ordinary, RelayInit PROVE FinishInv OBVIOUS
<1>1. RelayInv
  BY RelayInitHolds
<1>2. IsFiniteSet(event)
  <2>1. PICK old \in Legacy : event = {Row(ev) : ev \in old}
    BY DEF RelayInit, Init
  <2>2. event = old
    BY <2>1, RowIsEvent, LegacyIsEvents DEF Ordinary
  <2> QED BY <2>2 DEF Ordinary, FiniteLegacy
<1> QED BY <1>1, <1>2 DEF FinishInv, NothingMissed, RelayInit

LEMMA FinishInvAlways == Ordinary => (RelaySpec => []FinishInv)
<1> SUFFICES ASSUME Ordinary PROVE RelaySpec => []FinishInv OBVIOUS
<1>1. RelayInit => FinishInv
  BY FinishInvInit
<1>2. FinishInv /\ [RelayNext]_relayAll => FinishInv'
  BY FinishInvNext
<1> QED BY <1>1, <1>2, PTL DEF RelaySpec

-----------------------------------------------------------------------------
(***************************************************************************)
(* "No more events available (all matched events sent)" (nip67.h:24): as   *)
(* long as the subscription lives, what it was told to be all of is all of *)
(* it, whatever is published, replaced, deleted or swept meanwhile.        *)
(***************************************************************************)
THEOREM FinishMeansAll == Ordinary => (RelaySpec => []FinishIsComplete)
<1> SUFFICES ASSUME Ordinary PROVE RelaySpec => []FinishIsComplete OBVIOUS
<1>1. FinishInv => FinishIsComplete
  BY DEF FinishInv, NothingMissed, FinishIsComplete, Awaited, Open, SameName
<1> QED BY <1>1, FinishInvAlways, PTL

(***************************************************************************)
(* A client that asks for gift wraps and is told neither of more nor of a  *)
(* need to authenticate has authenticated, and has every wrap stored for   *)
(* its key (nip67.h:59, README.md:144).                                    *)
(***************************************************************************)
LEMMA SubscribeReplaysGifts ==
  ASSUME Ordinary, FinishInv, NEW c \in Connection, NEW id \in SubId,
         NEW filters \in FilterLists, Subscribe(c, id, filters),
         NEW t \in told' \ told, NEW s \in subscriptions',
         s.connection = t.connection, s.id = t.id,
         ~t.more, ~t.auth, targets_gift_wraps(s.filters)
  PROVE  /\ authenticated_pubkey(t.connection) # ""
         /\ \A r \in event :
              /\ MatchesAny(s.filters, r) /\ nip17_can_deliver(r, authenticated_pubkey(t.connection))
              /\ ~nip40_event_is_expired(r, now)
              => <<s.connection, s.id, r.id>> \in got'
<1>0. event \subseteq Event
  BY TableIsEvents DEF FinishInv
<1>1. PICK stream \in Streams(filters, "read" \in Faults) :
        /\ got' = {g \in got : <<g[1], g[2]>> # <<c, id>>}
                    \cup {<<c, id, e>> : e \in Delivered(stream, filters, c)}
        /\ told' = {o \in told : <<o.connection, o.id>> # <<c, id>>}
                     \cup {[connection |-> c, id |-> id,
                            more |-> \E i \in DOMAIN stream : stream[i].more,
                            auth |-> NeedsAuth(c, filters)]}
  BY DEF Subscribe
<1> DEFINE new == [connection |-> c, id |-> id, filters |-> filters]
<1>2. t = [connection |-> c, id |-> id, more |-> \E i \in DOMAIN stream : stream[i].more,
           auth |-> NeedsAuth(c, filters)]
  BY <1>1
<1>3. /\ t.connection = c /\ t.id = id /\ ~NeedsAuth(c, filters)
      /\ \A i \in DOMAIN stream : ~stream[i].more
  BY <1>2
<1>4. s.filters = filters
  <2>1. subscriptions' = (subscriptions \ Of(c, id)) \cup {new} /\ new.filters = filters
    BY DEF Subscribe
  <2> HIDE DEF new
  <2> QED BY <1>3, <2>1 DEF Of
<1>5. authenticated_pubkey(c) # ""
  BY <1>3, <1>4 DEF NeedsAuth
<1>6. ASSUME NEW r \in event, MatchesAny(filters, r), nip17_can_deliver(r, authenticated_pubkey(c)),
             ~nip40_event_is_expired(r, now)
      PROVE  <<c, id, r.id>> \in got'
  <2>1. r.id \in Delivered(stream, filters, c)
    BY <1>0, <1>3, <1>6, ReplayIsWhole DEF FinishInv, can_deliver
  <2> QED BY <1>1, <2>1
<1> QED BY <1>3, <1>4, <1>5, <1>6

(***************************************************************************)
(* Only a subscription is told anything.                                   *)
(***************************************************************************)
LEMMA NoOtherIsTold ==
  ASSUME [RelayNext]_relayAll, NEW t \in told' \ told
  PROVE  \E c \in Connection, id \in SubId, filters \in FilterLists : Subscribe(c, id, filters)
<1>1. ASSUME NEW c \in Connection, Serving(c),
             ~\E id \in SubId, filters \in FilterLists : Subscribe(c, id, filters)
      PROVE  told' \subseteq told
  BY <1>1 DEF Serving, Connect, Disconnect, Forget, Publication, Authenticate, Unsubscribe, relayVars
<1>2. Broadcast \/ Storing \/ GoingDown \/ UNCHANGED relayAll => told' \subseteq told
  BY DEF Broadcast, Storing, GoingDown, Forget, relayVars, relayAll
<1> QED BY <1>1, <1>2 DEF RelayNext

(***************************************************************************)
(* A replay of gift wraps is whole, or says that it is not.                *)
(***************************************************************************)
THEOREM GiftsAreAllReplayed == Ordinary => (RelaySpec => GiftsAreReplayed)
<1> SUFFICES ASSUME Ordinary PROVE RelaySpec => GiftsAreReplayed OBVIOUS
<1>1. FinishInv /\ [RelayNext]_relayAll =>
        [\A t \in told' \ told : \A s \in subscriptions' :
           /\ s.connection = t.connection /\ s.id = t.id
           /\ ~t.more /\ ~t.auth /\ targets_gift_wraps(s.filters)
           => LET pubkey == authenticated_pubkey(t.connection)
              IN  /\ pubkey # ""
                  /\ \A r \in event :
                       /\ MatchesAny(s.filters, r) /\ nip17_can_deliver(r, pubkey)
                       /\ ~nip40_event_is_expired(r, now)
                       => <<s.connection, s.id, r.id>> \in got']_relayAll
  BY NoOtherIsTold, SubscribeReplaysGifts
<1> QED BY <1>1, FinishInvAlways, PTL DEF RelaySpec, GiftsAreReplayed

-----------------------------------------------------------------------------
(***************************************************************************)
(* A count needs more, for a query may select what does not match: nothing *)
(* is published on another's behalf; a tag's text is what it says, and     *)
(* differs from what a filter asks for by more than capital letters; lists *)
(* and times are what the parser makes them.                               *)
(***************************************************************************)
NoDelegations == \A ev \in Event : Delegators(ev) = {}

(* Of the tags a filter may be taken to name. *)
Unescaped ==
  \A filters \in CountLists : \A i \in DOMAIN filters : \A tag \in filters[i].tags, ev \in Event :
    \A k \in DOMAIN ev.tags :
      LET raw == TagsText[ev.id][k].raw
      IN  Len(raw) = 2 /\ Fold(raw[1]) = Fold(tag[1]) => raw = ev.tags[k]

CaseTellsNothing ==
  \A filters \in CountLists : \A i \in DOMAIN filters : \A tag \in filters[i].tags, ev \in Event :
    \A k \in DOMAIN ev.tags :
      Len(ev.tags[k]) = 2 /\ Fold(ev.tags[k][1]) = Fold(tag[1]) =>
        /\ ev.tags[k][1] = tag[1]
        /\ \A value \in tag[2] : Fold(ev.tags[k][2]) = Fold(value) => ev.tags[k][2] = value

ParsedLists ==
  \A filters \in CountLists :
    /\ Len(filters) \in Nat /\ DOMAIN filters = 1..Len(filters)
    /\ \A i \in DOMAIN filters : filters[i].since \in Nat /\ filters[i].until \in Nat

Countable == NoDelegations /\ Unescaped /\ CaseTellsNothing /\ ParsedLists

(***************************************************************************)
(* A pair found in the text is a tag of the event.                         *)
(***************************************************************************)
LEMMA PairIsTag ==
  ASSUME Unescaped, CaseTellsNothing, NEW filters \in CountLists, NEW i \in DOMAIN filters,
         NEW tag \in filters[i].tags, NEW value \in tag[2],
         NEW r \in Event, HasPair(r, tag[1], value)
  PROVE  nip_event_has_tag(r, tag[1], value)
<1>1. PICK text \in Written(r) : /\ Len(text.raw) = 2
                                 /\ Fold(text.raw[1]) = Fold(tag[1])
                                 /\ Fold(text.raw[2]) = Fold(value)
  BY DEF HasPair
<1>2. PICK k \in DOMAIN r.tags : text = TagsText[r.id][k]
  BY <1>1, TextIsOfTags DEF Written
<1>3. text.raw = r.tags[k] /\ Len(r.tags[k]) = 2
  BY <1>1, <1>2 DEF Unescaped
<1>4. r.tags[k][1] = tag[1] /\ (Fold(r.tags[k][2]) = Fold(value) => r.tags[k][2] = value)
  BY <1>1, <1>2, <1>3 DEF CaseTellsNothing
<1>5. r.tags[k][1] = tag[1] /\ r.tags[k][2] = value
  BY <1>1, <1>3, <1>4
<1>6. r.tags[k] # << >>
  <2> SUFFICES ASSUME r.tags[k] = << >> PROVE FALSE OBVIOUS
  <2>1. Len(<< >>) = 0 /\ Len(<< >>) = 2
    BY <1>3, Zenon
  <2> QED BY <2>1
<1> QED BY <1>2, <1>3, <1>5, <1>6 DEF nip_event_has_tag, TagValues, TagsNamed

LEMMA SelectedIsMatched ==
  ASSUME WrittenAsPairs, Countable, StorageTypeOK, event \subseteq Event,
         NEW filters \in CountLists, NEW i \in DOMAIN filters, NEW r \in event
  PROVE  r \in Selected(filters[i]) <=> matches_filter(filters[i], r)
<1> DEFINE f == filters[i]
<1>1. ASSUME Selects(f, r) PROVE matches_filter(f, r)
  <2>1. delegation = {}
    <3>1. \A ev \in Event : IndexEntries(ev) = {}
      BY DEF Countable, NoDelegations, IndexEntries
    <3> QED BY <3>1 DEF StorageTypeOK
  <2>2. ASSUME NEW tag \in f.tags, NEW value \in tag[2], HasPair(r, tag[1], value)
        PROVE  nip_event_has_tag(r, tag[1], value)
    BY <2>2, PairIsTag DEF Countable
  <2>3. \A tag \in f.tags : \E value \in tag[2] : nip_event_has_tag(r, tag[1], value)
    BY <1>1, <2>2 DEF Selects
  <2>4. f.since \in Nat /\ f.until \in Nat
    BY DEF Countable, ParsedLists
  <2>5. /\ f.since # 0 => r.created_at >= f.since
        /\ f.until # 0 => r.created_at <= f.until
    BY <1>1, <2>4 DEF Selects
  <2>6. /\ f.ids # {} => r.id \in f.ids
        /\ f.authors # {} => r.pubkey \in f.authors
        /\ f.kinds # {} => r.kind \in f.kinds
    BY <1>1, <2>1 DEF Selects
  <2> HIDE DEF f
  <2> QED BY <2>3, <2>5, <2>6 DEF matches_filter
<1> QED BY <1>1, MatchIsSelected DEF Selected

(***************************************************************************)
(* The filters each count their own: a row is counted once for each filter *)
(* that it matches.                                                        *)
(***************************************************************************)
LEMMA CountIsOfPairs ==
  ASSUME IsFiniteSet(event), NEW filters, IsFiniteSet(DOMAIN filters),
         \A i \in DOMAIN filters, r \in event :
           r \in Selected(filters[i]) <=> matches_filter(filters[i], r)
  PROVE  LET pairs    == UNION {{i} \X Selected(filters[i]) : i \in DOMAIN filters}
             matching == {r \in event : MatchesAny(filters, r)}
         IN  /\ Cardinality(pairs) >= Cardinality(matching)
             /\ Disjoint(filters) => Cardinality(pairs) = Cardinality(matching)
<1> DEFINE pairs    == UNION {{i} \X Selected(filters[i]) : i \in DOMAIN filters}
           matching == {r \in event : MatchesAny(filters, r)}
           row      == [p \in pairs |-> p[2]]
<1>1. \A p \in pairs : /\ p = <<p[1], p[2]>> /\ p[1] \in DOMAIN filters /\ p[2] \in event
                       /\ matches_filter(filters[p[1]], p[2])
  BY DEF Selected
<1>2. \A i \in DOMAIN filters, r \in event : matches_filter(filters[i], r) => <<i, r>> \in pairs
  BY DEF Selected
<1>3. IsFiniteSet(pairs)
  <2> HIDE DEF pairs
  <2>1. pairs \subseteq (DOMAIN filters) \X event
    BY <1>1
  <2>2. IsFiniteSet((DOMAIN filters) \X event)
    BY FS_Product
  <2> QED BY <2>1, <2>2, FS_Subset
<1> HIDE DEF pairs
<1>4. row \in Surjection(pairs, matching)
  <2>1. row \in [pairs -> matching]
    BY <1>1 DEF MatchesAny
  <2>2. ASSUME NEW r \in matching PROVE \E p \in pairs : row[p] = r
    <3>1. PICK i \in DOMAIN filters : matches_filter(filters[i], r)
      BY DEF MatchesAny
    <3>2. <<i, r>> \in pairs /\ row[<<i, r>>] = r
      BY <1>2, <3>1
    <3> QED BY <3>2
  <2> QED BY <2>1, <2>2 DEF Surjection
<1>5. /\ IsFiniteSet(matching) /\ Cardinality(matching) <= Cardinality(pairs)
      /\ Cardinality(matching) = Cardinality(pairs) <=> row \in Injection(pairs, matching)
  <2> HIDE DEF row, matching
  <2> QED BY <1>3, <1>4, FS_Surjection
<1>6. Cardinality(matching) \in Nat /\ Cardinality(pairs) \in Nat
  BY <1>3, <1>5, FS_CardinalityType
<1>7. ASSUME Disjoint(filters) PROVE row \in Injection(pairs, matching)
  <2>1. ASSUME NEW p \in pairs, NEW q \in pairs, row[p] = row[q] PROVE p = q
    <3>1. p[2] = q[2]
      BY <2>1
    <3>2. p[1] = q[1]
      BY <1>1, <1>7, <3>1 DEF Disjoint
    <3> QED BY <1>1, <3>1, <3>2
  <2>2. row \in [pairs -> matching]
    BY <1>4 DEF Surjection
  <2>3. \A p, q \in pairs : row[p] = row[q] => p = q
    BY <2>1
  <2> HIDE DEF row, matching
  <2> QED BY <2>2, <2>3 DEF Injection, IsInjective
<1> QED BY <1>5, <1>6, <1>7 DEF pairs

(***************************************************************************)
(* NIP-45: the number answered is no less than the number of events held   *)
(* that match (storage.h:182, nip45.c:10), and is that number where no two *)
(* filters ask for the same event: for every list a query compiles for.    *)
(***************************************************************************)
THEOREM CountIsExact == Ordinary /\ Countable => (RelaySpec => []CountIsOfMatches)
<1> SUFFICES ASSUME Ordinary, Countable PROVE RelaySpec => []CountIsOfMatches
  OBVIOUS
<1>1. FinishInv => CountIsOfMatches
  <2> SUFFICES ASSUME FinishInv, NEW filters \in CountLists,
                      Reached(filters, TRUE) = DOMAIN filters
               PROVE  LET matching == {r \in event : MatchesAny(filters, r)}
                      IN  /\ CountRecords(filters) >= Cardinality(matching)
                          /\ Disjoint(filters) => CountRecords(filters) = Cardinality(matching)
    BY DEF CountIsOfMatches
  <2>1. StorageTypeOK /\ event \subseteq Event /\ IsFiniteSet(event)
    BY TableIsEvents DEF FinishInv, RelayInv, SoundInv, TypeOK
  <2>2. \A i \in DOMAIN filters, r \in event :
          r \in Selected(filters[i]) <=> matches_filter(filters[i], r)
    BY <2>1, SelectedIsMatched DEF Ordinary
  <2>3. IsFiniteSet(DOMAIN filters)
    <3>1. Len(filters) \in Int /\ DOMAIN filters = 1..Len(filters)
      BY DEF Countable, ParsedLists
    <3>2. IsFiniteSet(1..Len(filters))
      BY <3>1, FS_Interval
    <3> QED BY <3>1, <3>2, Zenon
  <2>4. CountRecords(filters) =
          Cardinality(UNION {{i} \X Selected(filters[i]) : i \in DOMAIN filters})
    BY DEF CountRecords
  <2> QED BY <2>1, <2>2, <2>3, <2>4, CountIsOfPairs
<1> QED BY <1>1, FinishInvAlways, PTL
=============================================================================
