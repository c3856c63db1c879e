----------------------------- MODULE RelayProofs -----------------------------
(***************************************************************************)
(* Theorems of the composed relay, for every set of events, filters and    *)
(* connections, every fault, and every bound.                              *)
(***************************************************************************)
EXTENDS Relay, PublishProofs, FiniteSetTheorems

OfConnection(c) == {s \in subscriptions : s.connection = c}

(***************************************************************************)
(* The inductive invariant.  A key that a record holds was shown on its    *)
(* connection, because the record's challenge was sent there.              *)
(***************************************************************************)
ClientsOK ==
  /\ \A c \in Connection : clients[c] # NoClient =>
       c \in connections /\ <<c, clients[c].challenge>> \in asked
  /\ \A c \in Connection : clients[c].pubkey # "" => <<c, clients[c].pubkey>> \in proved

SubscriptionsOK ==
  /\ IsFiniteSet(subscriptions)
  /\ \A s \in subscriptions : s.connection \in connections
  /\ \A s, t \in subscriptions : s.connection = t.connection /\ s.id = t.id => s = t
  /\ \A c \in Connection : Cardinality(OfConnection(c)) <= MaxSubscriptions

RelayInv ==
  /\ SoundInv /\ RelayTypeOK
  /\ ClientsOK /\ SubscriptionsOK
  /\ GiftWrapsToRecipient

-----------------------------------------------------------------------------
(***************************************************************************)
(* The connections do to the store what the write path does.               *)
(***************************************************************************)
LEMMA RelayStep ==
  ASSUME RelayTypeOK, RelayNext
  PROVE  [Next]_vars
<1>1. ASSUME NEW c \in Connection, Serving(c) PROVE [Next]_vars
  <2>1. CASE Publication(c)
    <3>1. authenticated_pubkey(c) \in Pubkey \cup {""}
      BY DEF RelayTypeOK, authenticated_pubkey
    <3> QED BY <2>1, <3>1 DEF Publication, Next
  <2>2. CASE ~Publication(c)
    <3>1. UNCHANGED vars
      BY <1>1, <2>2 DEF Serving, Connect, Disconnect, Authenticate, Subscribe, Unsubscribe
    <3> QED BY <3>1
  <2> QED BY <2>1, <2>2
<1>2. CASE Broadcast
  BY <1>2 DEF Broadcast, Next, Listener
<1>3. CASE Storing
  BY <1>3 DEF Storing, Next, Lifecycle
<1>4. CASE GoingDown
  BY <1>4 DEF GoingDown, Next, Lifecycle
<1> QED BY <1>1, <1>2, <1>3, <1>4 DEF RelayNext

-----------------------------------------------------------------------------
(***************************************************************************)
(* What a query streams is what is stored.                                 *)
(***************************************************************************)
LEMMA StreamedIsStored ==
  ASSUME NEW filters, NEW breaks, NEW stream \in Streams(filters, breaks),
         NEW i \in DOMAIN stream
  PROVE  stream[i].rows \subseteq event /\ stream[i].more \in BOOLEAN
<1>1. stream[i] \in Scans(filters[i], breaks)
  BY DEF Streams
<1>2. \A page \in Pages(filters[i]) : page \subseteq event
  BY DEF Pages, Newest, Selected
<1>3. \A page \in Pages(filters[i]) : \A rows \in Newest(page) : rows \subseteq event
  BY <1>2 DEF Newest
<1>4. HasMore(filters[i]) \in BOOLEAN
  BY DEF HasMore
<1>5. CASE \E page \in Pages(filters[i]) : stream[i] = [rows |-> page, more |-> HasMore(filters[i])]
  BY <1>2, <1>4, <1>5
<1>6. CASE \E page \in Pages(filters[i]) : \E rows \in Newest(page) :
             stream[i] = [rows |-> rows, more |-> FALSE]
  BY <1>3, <1>6
<1> QED BY <1>1, <1>5, <1>6 DEF Scans

LEMMA DeliveredIsStored ==
  ASSUME NEW filters, NEW breaks, NEW stream \in Streams(filters, breaks),
         NEW c, NEW e \in Delivered(stream, filters, c)
  PROVE  \E r \in event : r.id = e /\ can_deliver(r, c)
<1>1. PICK r \in UNION {stream[i].rows : i \in DOMAIN stream} : r.id = e /\ can_deliver(r, c)
  BY DEF Delivered
<1>2. r \in event
  BY <1>1, StreamedIsStored
<1> QED BY <1>1, <1>2

(***************************************************************************)
(* What may be delivered on a connection is a gift wrap only if its        *)
(* recipient has shown his key there; r is an event or its row.            *)
(***************************************************************************)
LEMMA DeliveryIsProved ==
  ASSUME ClientsOK, NEW c \in Connection, NEW ev \in Event, NEW r \in {ev, Row(ev)},
         can_deliver(r, c), ev.kind \in GIFT_WRAPS
  PROVE  \E p \in proved : p[1] = c /\ nip_event_has_tag(ev, "p", p[2])
<1>1. r.kind = ev.kind /\ r.tags = ev.tags
  BY RowKeeps
<1>2. clients[c].pubkey # "" /\ nip_event_has_tag(r, "p", clients[c].pubkey)
  BY <1>1 DEF can_deliver, nip17_can_deliver, authenticated_pubkey
<1>3. nip_event_has_tag(ev, "p", clients[c].pubkey)
  BY <1>1, <1>2 DEF nip_event_has_tag, TagValues, TagsNamed
<1>4. <<c, clients[c].pubkey>> \in proved
  BY <1>2 DEF ClientsOK
<1> QED BY <1>3, <1>4

-----------------------------------------------------------------------------
ClientRecords == [challenge : 0..MaxChallenge, pubkey : Pubkey \cup {""}]

LEMMA NoClientIsRecord == NoClient \in ClientRecords
BY MaxChallengeIsNatural DEF NoClient, ClientRecords

LEMMA RelayInitHolds == RelayInit => RelayInv
<1> SUFFICES ASSUME RelayInit PROVE RelayInv OBVIOUS
<1>1. SoundInv
  BY SoundInit DEF RelayInit
<1>2. RelayTypeOK
  <2>1. clients \in [Connection -> ClientRecords]
    BY NoClientIsRecord DEF RelayInit
  <2>2. {<<t.connection, t.id>> : t \in told} = {<<s.connection, s.id>> : s \in subscriptions}
    BY DEF RelayInit
  <2>3. issued \in 0..MaxChallenge
    BY MaxChallengeIsNatural DEF RelayInit
  <2> QED BY <2>1, <2>2, <2>3 DEF RelayInit, RelayTypeOK, ClientRecords
<1>3. ClientsOK
  BY DEF RelayInit, ClientsOK, NoClient
<1>4. SubscriptionsOK
  <2>1. \A c \in Connection : OfConnection(c) = {}
    BY DEF RelayInit, OfConnection
  <2>2. IsFiniteSet({}) /\ Cardinality({}) = 0
    BY FS_EmptySet
  <2> QED BY <2>1, <2>2, MaxSubscriptionsIsNatural DEF RelayInit, SubscriptionsOK
<1> QED BY <1>1, <1>2, <1>3, <1>4 DEF RelayInit, RelayInv, GiftWrapsToRecipient

(***************************************************************************)
(* Steps of the write path alone.                                          *)
(***************************************************************************)
LEMMA UnchangedHolds ==
  ASSUME RelayInv, SoundInv', UNCHANGED relayVars
  PROVE  RelayInv'
BY DEF RelayInv, relayVars, RelayTypeOK, ClientsOK, SubscriptionsOK, OfConnection, GiftWrapsToRecipient

(***************************************************************************)
(* A new challenge.                                                        *)
(***************************************************************************)
MayIssue(c) == Issue(c, "") \/ NoIssue

LEMMA IssueHolds ==
  ASSUME RelayTypeOK, ClientsOK, NEW c \in Connection, MayIssue(c),
         connections' = connections \cup {c}, UNCHANGED proved
  PROVE  /\ ClientsOK'
         /\ clients' \in [Connection -> ClientRecords]
         /\ issued' \in 0..MaxChallenge /\ asked' \subseteq Connection \X (1..MaxChallenge)
<1>t. clients \in [Connection -> ClientRecords]
  BY DEF RelayTypeOK, ClientRecords
<1>1. CASE /\ issued < MaxChallenge
            /\ issued' = issued + 1
            /\ clients' = [clients EXCEPT ![c] = [challenge |-> issued + 1, pubkey |-> ""]]
            /\ asked' = asked \cup {<<c, issued + 1>>}
  <2> DEFINE drawn == [challenge |-> issued + 1, pubkey |-> ""]
  <2>0. issued \in 0..MaxChallenge
    BY DEF RelayTypeOK
  <2>9. issued < MaxChallenge /\ issued' = issued + 1
    BY <1>1
  <2>1. issued + 1 \in 1..MaxChallenge /\ issued + 1 \in 0..MaxChallenge
    BY <2>0, <2>9, MaxChallengeIsNatural
  <2>2. clients' = [clients EXCEPT ![c] = drawn]
    BY <1>1
  <2>3. drawn \in ClientRecords /\ drawn.challenge = issued + 1 /\ drawn.pubkey = ""
    BY <2>1 DEF ClientRecords
  <2> HIDE DEF drawn
  <2>4. clients' \in [Connection -> ClientRecords]
    BY <1>t, <2>2, <2>3
  <2>5. \A d \in Connection : clients'[d] = IF d = c THEN drawn ELSE clients[d]
    BY <1>t, <2>2
  <2>6. asked' = asked \cup {<<c, issued + 1>>}
    BY <1>1
  <2>7. ClientsOK'
    BY <2>3, <2>5, <2>6 DEF ClientsOK
  <2>8. asked' \subseteq Connection \X (1..MaxChallenge)
    <3>1. asked \subseteq Connection \X (1..MaxChallenge)
      BY DEF RelayTypeOK
    <3> QED BY <2>1, <2>6, <3>1
  <2> QED BY <2>0, <2>1, <2>4, <2>7, <2>8, <2>9
<1>2. CASE UNCHANGED <<issued, clients, asked>>
  BY <1>t, <1>2 DEF ClientsOK, RelayTypeOK
<1> QED BY <1>1, <1>2 DEF MayIssue, Issue, NoIssue

LEMMA ConnectHolds ==
  ASSUME RelayInv, SoundInv', NEW c \in Connection, Connect(c)
  PROVE  RelayInv'
<1>1. /\ connections' = connections \cup {c}
      /\ UNCHANGED <<subscriptions, proved, got, told>>
      /\ MayIssue(c)
  BY DEF Connect, MayIssue
<1>2. /\ ClientsOK'
      /\ clients' \in [Connection -> ClientRecords]
      /\ issued' \in 0..MaxChallenge /\ asked' \subseteq Connection \X (1..MaxChallenge)
  BY <1>1, IssueHolds DEF RelayInv
<1>3. RelayTypeOK'
  BY <1>1, <1>2 DEF RelayInv, RelayTypeOK, ClientRecords
<1>4. SubscriptionsOK'
  BY <1>1 DEF RelayInv, SubscriptionsOK, OfConnection
<1> QED BY <1>1, <1>2, <1>3, <1>4 DEF RelayInv, GiftWrapsToRecipient

(***************************************************************************)
(* Subscriptions that are fewer than before.                               *)
(***************************************************************************)
LEMMA FewerSubscriptions ==
  ASSUME SubscriptionsOK, subscriptions' \subseteq subscriptions,
         \A s \in subscriptions' : s.connection \in connections'
  PROVE  SubscriptionsOK'
<1>1. IsFiniteSet(subscriptions')
  BY FS_Subset DEF SubscriptionsOK
<1>2. ASSUME NEW c \in Connection PROVE Cardinality(OfConnection(c)') <= MaxSubscriptions
  <2>1. OfConnection(c)' \subseteq OfConnection(c) /\ OfConnection(c) \subseteq subscriptions
    BY DEF OfConnection
  <2>2. IsFiniteSet(OfConnection(c))
    BY <2>1, FS_Subset DEF SubscriptionsOK
  <2>3. /\ Cardinality(OfConnection(c)') <= Cardinality(OfConnection(c))
        /\ Cardinality(OfConnection(c)') \in Nat /\ Cardinality(OfConnection(c)) \in Nat
    BY <2>1, <2>2, FS_Subset, FS_CardinalityType
  <2> QED BY <2>3, MaxSubscriptionsIsNatural DEF SubscriptionsOK
<1> QED BY <1>1, <1>2 DEF SubscriptionsOK

LEMMA ForgetHolds ==
  ASSUME RelayInv, SoundInv', NEW gone \in SUBSET Connection, Forget(gone)
  PROVE  RelayInv'
<1>1. RelayTypeOK'
  <2>1. clients' \in [Connection -> ClientRecords]
    BY NoClientIsRecord DEF Forget, RelayInv, RelayTypeOK, ClientRecords
  <2>2. {<<t.connection, t.id>> : t \in told'} = {<<s.connection, s.id>> : s \in subscriptions'}
    <3>1. {<<t.connection, t.id>> : t \in told} = {<<s.connection, s.id>> : s \in subscriptions}
      BY DEF RelayInv, RelayTypeOK
    <3>2. ASSUME NEW t \in told' PROVE \E s \in subscriptions' : <<t.connection, t.id>> = <<s.connection, s.id>>
      BY <3>1 DEF Forget
    <3>3. ASSUME NEW s \in subscriptions' PROVE \E t \in told' : <<t.connection, t.id>> = <<s.connection, s.id>>
      BY <3>1 DEF Forget
    <3> QED BY <3>2, <3>3
  <2> QED BY <2>1, <2>2 DEF Forget, RelayInv, RelayTypeOK, ClientRecords
<1>2. ClientsOK'
  <2>1. \A c \in Connection : clients'[c] = IF c \in gone THEN NoClient ELSE clients[c]
    BY DEF Forget
  <2> QED BY <2>1 DEF Forget, RelayInv, ClientsOK, NoClient
<1>3. SubscriptionsOK'
  BY FewerSubscriptions DEF Forget, RelayInv, SubscriptionsOK
<1>4. GiftWrapsToRecipient'
  <2> SUFFICES ASSUME NEW g \in got', NEW ev \in Event, ev.id = g[3], ev.kind \in GIFT_WRAPS
               PROVE  \E p \in proved' : p[1] = g[1] /\ nip_event_has_tag(ev, "p", p[2])
    BY DEF GiftWrapsToRecipient
  <2>1. g \in got /\ g[1] \notin gone
    BY DEF Forget
  <2>2. PICK p \in proved : p[1] = g[1] /\ nip_event_has_tag(ev, "p", p[2])
    BY <2>1 DEF RelayInv, GiftWrapsToRecipient
  <2> QED BY <2>1, <2>2 DEF Forget
<1> QED BY <1>1, <1>2, <1>3, <1>4 DEF RelayInv

LEMMA DisconnectHolds ==
  ASSUME RelayInv, SoundInv', NEW c \in Connection, Disconnect(c)
  PROVE  RelayInv'
BY ForgetHolds DEF Disconnect

(***************************************************************************)
(* The key a client shows is proved: its record's challenge was sent.      *)
(***************************************************************************)
LEMMA AuthenticateHolds ==
  ASSUME RelayInv, SoundInv', NEW c \in Connection, NEW pubkey \in Pubkey,
         NEW challenge, NEW relay, Authenticate(c, pubkey, challenge, relay)
  PROVE  RelayInv'
<1> DEFINE shown == [challenge |-> challenge, pubkey |-> pubkey]
<1>1. /\ UNCHANGED <<connections, subscriptions, issued, asked, got, told>>
      /\ clients[c] # NoClient /\ challenge = clients[c].challenge
      /\ clients' = [clients EXCEPT ![c] = shown]
      /\ proved' = proved \cup IF <<c, challenge>> \in asked THEN {<<c, pubkey>>} ELSE {}
  BY DEF Authenticate
<1>2. clients \in [Connection -> ClientRecords]
  BY DEF RelayInv, RelayTypeOK, ClientRecords
<1>3. proved \subseteq proved' /\ <<c, pubkey>> \in proved' /\ proved' \subseteq proved \cup {<<c, pubkey>>}
  BY <1>1 DEF RelayInv, ClientsOK
<1>4. shown.challenge = challenge /\ shown.pubkey = pubkey /\ shown \in ClientRecords
  <2>1. clients[c] \in ClientRecords
    BY <1>2
  <2> QED BY <1>1, <2>1 DEF ClientRecords
<1> HIDE DEF shown
<1>5. clients' \in [Connection -> ClientRecords]
  BY <1>1, <1>2, <1>4
<1>t. \A d \in Connection : clients'[d] = IF d = c THEN shown ELSE clients[d]
  BY <1>1, <1>2
<1>6. RelayTypeOK'
  <2>1. proved' \subseteq Connection \X Pubkey
    <3>1. proved \subseteq Connection \X Pubkey
      BY DEF RelayInv, RelayTypeOK
    <3>2. <<c, pubkey>> \in Connection \X Pubkey
      OBVIOUS
    <3> QED BY <1>3, <3>1, <3>2
  <2> QED BY <1>1, <1>5, <2>1 DEF RelayInv, RelayTypeOK, ClientRecords
<1>7. ClientsOK'
  <2> SUFFICES ASSUME NEW d \in Connection
               PROVE  /\ clients'[d] # NoClient =>
                           d \in connections' /\ <<d, clients'[d].challenge>> \in asked'
                      /\ clients'[d].pubkey # "" => <<d, clients'[d].pubkey>> \in proved'
    BY DEF ClientsOK
  <2>0. asked' = asked /\ connections' = connections
    BY <1>1
  <2>1. CASE d = c
    <3>1. clients'[d] = shown
      BY <1>t, <2>1
    <3>2. c \in connections /\ <<c, challenge>> \in asked
      BY <1>1 DEF RelayInv, ClientsOK
    <3> QED BY <1>3, <1>4, <2>0, <2>1, <3>1, <3>2
  <2>2. CASE d # c
    <3>1. clients'[d] = clients[d]
      BY <1>t, <2>2
    <3> QED BY <1>3, <2>0, <3>1 DEF RelayInv, ClientsOK
  <2> QED BY <2>1, <2>2
<1>8. SubscriptionsOK'
  BY <1>1 DEF RelayInv, SubscriptionsOK, OfConnection
<1>9. GiftWrapsToRecipient'
  BY <1>1, <1>3 DEF RelayInv, GiftWrapsToRecipient
<1> QED BY <1>6, <1>7, <1>8, <1>9 DEF RelayInv

-----------------------------------------------------------------------------
(***************************************************************************)
(* A subscription in the place of the one of its name.                     *)
(***************************************************************************)
LEMMA SubscribeKeepsSubscriptions ==
  ASSUME RelayInv, NEW c \in Connection, NEW id \in SubId, NEW filters \in FilterLists,
         Subscribe(c, id, filters)
  PROVE  SubscriptionsOK'
<1> DEFINE new    == [connection |-> c, id |-> id, filters |-> filters]
           others == {s \in subscriptions : s.connection = c /\ s.id # id}
<1>1. /\ subscriptions' = (subscriptions \ Of(c, id)) \cup {new}
      /\ connections' = connections /\ c \in connections
      /\ Cardinality(others) < MaxSubscriptions
  BY DEF Subscribe, HasRoom
<1>2. new.connection = c /\ new.id = id
  OBVIOUS
<1>3. IsFiniteSet(subscriptions) /\ IsFiniteSet(others)
  <2>1. others \subseteq subscriptions
    OBVIOUS
  <2> QED BY <2>1, FS_Subset DEF RelayInv, SubscriptionsOK
<1>4. IsFiniteSet(subscriptions')
  <2>1. IsFiniteSet(subscriptions \ Of(c, id))
    BY <1>3, FS_Subset
  <2> QED BY <1>1, <2>1, FS_AddElement
<1>5. \A s \in subscriptions' : s.connection \in connections'
  BY <1>1, <1>2 DEF RelayInv, SubscriptionsOK
<1>6. \A s, t \in subscriptions' : s.connection = t.connection /\ s.id = t.id => s = t
  BY <1>1, <1>2 DEF RelayInv, SubscriptionsOK, Of
<1>7. ASSUME NEW d \in Connection PROVE Cardinality(OfConnection(d)') <= MaxSubscriptions
  <2>1. CASE d = c
    <3>1. OfConnection(d)' = others \cup {new} /\ new \notin others
      BY <1>1, <1>2, <2>1 DEF OfConnection, Of
    <3>2. Cardinality(others \cup {new}) = Cardinality(others) + 1 /\ Cardinality(others) \in Nat
      BY <1>3, <3>1, FS_AddElement, FS_CardinalityType
    <3> QED BY <1>1, <3>1, <3>2, MaxSubscriptionsIsNatural
  <2>2. CASE d # c
    <3>1. OfConnection(d)' = OfConnection(d)
      BY <1>1, <1>2, <2>2 DEF OfConnection, Of
    <3> QED BY <3>1 DEF RelayInv, SubscriptionsOK
  <2> QED BY <2>1, <2>2
<1> QED BY <1>4, <1>5, <1>6, <1>7 DEF SubscriptionsOK

LEMMA SubscribeIsTyped ==
  ASSUME RelayInv, NEW c \in Connection, NEW id \in SubId, NEW filters \in FilterLists,
         Subscribe(c, id, filters),
         clients' \in [Connection -> ClientRecords], issued' \in 0..MaxChallenge,
         asked' \subseteq Connection \X (1..MaxChallenge)
  PROVE  RelayTypeOK'
<1>1. PICK stream \in Streams(filters, "read" \in Faults) :
        /\ got' = {g \in got : <<g[1], g[2]>> # <<c, id>>}
                    \cup {<<c, id, e>> : e \in Delivered(stream, filters, c)}
        /\ told' = {t \in told : <<t.connection, t.id>> # <<c, id>>}
                     \cup {[connection |-> c, id |-> id,
                            more |-> \E i \in DOMAIN stream : stream[i].more,
                            auth |-> NeedsAuth(c, filters)]}
  BY DEF Subscribe
<1>2. /\ subscriptions' =
           (subscriptions \ Of(c, id)) \cup {[connection |-> c, id |-> id, filters |-> filters]}
      /\ connections' = connections /\ proved' = proved
  BY DEF Subscribe
<1>3. got' \subseteq Connection \X SubId \X {ev.id : ev \in Event}
  <2>1. ASSUME NEW e \in Delivered(stream, filters, c) PROVE e \in {ev.id : ev \in Event}
    <3>1. PICK r \in event : r.id = e
      BY DeliveredIsStored
    <3>2. PICK ev \in Event : r = Row(ev)
      BY DEF RelayInv, SoundInv, TypeOK, StorageTypeOK
    <3> QED BY <3>1, <3>2, RowKeeps
  <2>2. got \subseteq Connection \X SubId \X {ev.id : ev \in Event}
    BY DEF RelayInv, RelayTypeOK
  <2> QED BY <1>1, <2>1, <2>2
<1>4. told' \subseteq [connection : Connection, id : SubId, more : BOOLEAN, auth : BOOLEAN]
  <2> DEFINE answer == [connection |-> c, id |-> id,
                        more |-> \E i \in DOMAIN stream : stream[i].more,
                        auth |-> NeedsAuth(c, filters)]
  <2>1. (\E i \in DOMAIN stream : stream[i].more) \in BOOLEAN
    OBVIOUS
  <2>2. NeedsAuth(c, filters) \in BOOLEAN
    BY DEF NeedsAuth
  <2>3. told \subseteq [connection : Connection, id : SubId, more : BOOLEAN, auth : BOOLEAN]
    BY DEF RelayInv, RelayTypeOK
  <2>4. answer \in [connection : Connection, id : SubId, more : BOOLEAN, auth : BOOLEAN]
    BY <2>1, <2>2
  <2>5. told' \subseteq told \cup {answer}
    BY <1>1
  <2> HIDE DEF answer
  <2> QED BY <2>3, <2>4, <2>5
<1>5. subscriptions' \subseteq [connection : Connection, id : SubId, filters : FilterLists]
  <2>1. subscriptions \subseteq [connection : Connection, id : SubId, filters : FilterLists]
    BY DEF RelayInv, RelayTypeOK
  <2> QED BY <1>2, <2>1
<1>6. {<<t.connection, t.id>> : t \in told'} = {<<s.connection, s.id>> : s \in subscriptions'}
  <2>1. {<<t.connection, t.id>> : t \in told} = {<<s.connection, s.id>> : s \in subscriptions}
    BY DEF RelayInv, RelayTypeOK
  <2> DEFINE answer == [connection |-> c, id |-> id,
                        more |-> \E i \in DOMAIN stream : stream[i].more,
                        auth |-> NeedsAuth(c, filters)]
             new    == [connection |-> c, id |-> id, filters |-> filters]
             Pair(r) == <<r.connection, r.id>>
  <2>2. Pair(answer) = <<c, id>> /\ Pair(new) = <<c, id>>
    OBVIOUS
  <2>3. told' = {t \in told : Pair(t) # <<c, id>>} \cup {answer}
    BY <1>1
  <2>4. subscriptions' = {s \in subscriptions : Pair(s) # <<c, id>>} \cup {new}
    BY <1>2 DEF Of
  <2>5. {Pair(t) : t \in told} = {Pair(s) : s \in subscriptions}
    BY <2>1
  <2> HIDE DEF answer, new, Pair
  <2>6. {Pair(t) : t \in told'} = {Pair(s) : s \in subscriptions'}
    <3>1. ASSUME NEW t \in told' PROVE \E s \in subscriptions' : Pair(t) = Pair(s)
      BY <2>2, <2>3, <2>4, <2>5
    <3>2. ASSUME NEW s \in subscriptions' PROVE \E t \in told' : Pair(t) = Pair(s)
      BY <2>2, <2>3, <2>4, <2>5
    <3> QED BY <3>1, <3>2
  <2> QED BY <2>6 DEF Pair
<1> QED BY <1>2, <1>3, <1>4, <1>5, <1>6 DEF RelayInv, RelayTypeOK, ClientRecords

LEMMA SubscribeHolds ==
  ASSUME RelayInv, SoundInv', NEW c \in Connection, NEW id \in SubId,
         NEW filters \in FilterLists, Subscribe(c, id, filters)
  PROVE  RelayInv'
<1>1. /\ c \in connections /\ connections' = connections /\ UNCHANGED proved
      /\ MayIssue(c)
  BY DEF Subscribe, AuthHint, MayIssue
<1>2. connections' = connections \cup {c}
  BY <1>1
<1>3. /\ ClientsOK'
      /\ clients' \in [Connection -> ClientRecords]
      /\ issued' \in 0..MaxChallenge /\ asked' \subseteq Connection \X (1..MaxChallenge)
  BY <1>1, <1>2, IssueHolds DEF RelayInv
<1>4. RelayTypeOK'
  BY <1>3, SubscribeIsTyped
<1>5. SubscriptionsOK'
  BY SubscribeKeepsSubscriptions
<1>6. GiftWrapsToRecipient'
  <2> SUFFICES ASSUME NEW g \in got', NEW ev \in Event, ev.id = g[3], ev.kind \in GIFT_WRAPS
               PROVE  \E p \in proved : p[1] = g[1] /\ nip_event_has_tag(ev, "p", p[2])
    BY <1>1 DEF GiftWrapsToRecipient
  <2>1. CASE g \in got
    BY <2>1 DEF RelayInv, GiftWrapsToRecipient
  <2>2. CASE g \notin got
    <3>0. PICK stream \in Streams(filters, "read" \in Faults) :
            \E e \in Delivered(stream, filters, c) : g = <<c, id, e>>
      BY <2>2 DEF Subscribe
    <3>1. PICK e \in Delivered(stream, filters, c) : g = <<c, id, e>>
      BY <3>0
    <3>2. PICK r \in event : r.id = e /\ can_deliver(r, c)
      BY DeliveredIsStored
    <3>3. r = Row(ev)
      <4>1. PICK of \in Event : r = Row(of)
        BY DEF RelayInv, SoundInv, TypeOK, StorageTypeOK
      <4>2. of.id = ev.id
        BY <3>1, <3>2, <4>1, RowKeeps
      <4> QED BY <4>1, <4>2, IdIsHash
    <3>4. g[1] = c
      BY <3>1
    <3> QED BY <3>2, <3>3, <3>4, DeliveryIsProved DEF RelayInv
  <2> QED BY <2>1, <2>2
<1> QED BY <1>3, <1>4, <1>5, <1>6 DEF RelayInv

LEMMA UnsubscribeHolds ==
  ASSUME RelayInv, SoundInv', NEW c \in Connection, NEW id \in SubId, Unsubscribe(c, id)
  PROVE  RelayInv'
<1>1. /\ subscriptions' = subscriptions \ Of(c, id)
      /\ got' \subseteq got
      /\ told' = {t \in told : <<t.connection, t.id>> # <<c, id>>}
      /\ UNCHANGED <<connections, clients, issued, asked, proved>>
  BY DEF Unsubscribe
<1>2. {<<t.connection, t.id>> : t \in told'} = {<<s.connection, s.id>> : s \in subscriptions'}
  <2> DEFINE Pair(r) == <<r.connection, r.id>>
  <2>1. {Pair(t) : t \in told} = {Pair(s) : s \in subscriptions}
    BY DEF RelayInv, RelayTypeOK
  <2>2. told' = {t \in told : Pair(t) # <<c, id>>}
    BY <1>1
  <2>3. subscriptions' = {s \in subscriptions : Pair(s) # <<c, id>>}
    BY <1>1 DEF Of
  <2> HIDE DEF Pair
  <2>4. {Pair(t) : t \in told'} = {Pair(s) : s \in subscriptions'}
    <3>1. ASSUME NEW t \in told' PROVE \E s \in subscriptions' : Pair(t) = Pair(s)
      BY <2>1, <2>2, <2>3
    <3>2. ASSUME NEW s \in subscriptions' PROVE \E t \in told' : Pair(t) = Pair(s)
      BY <2>1, <2>2, <2>3
    <3> QED BY <3>1, <3>2
  <2> QED BY <2>4 DEF Pair
<1>3. RelayTypeOK'
  BY <1>1, <1>2 DEF RelayInv, RelayTypeOK
<1>4. SubscriptionsOK'
  <2>1. \A s \in subscriptions' : s.connection \in connections'
    BY <1>1 DEF RelayInv, SubscriptionsOK
  <2> QED BY <1>1, <2>1, FewerSubscriptions DEF RelayInv
<1>5. ClientsOK'
  BY <1>1 DEF RelayInv, ClientsOK
<1>6. GiftWrapsToRecipient'
  BY <1>1 DEF RelayInv, GiftWrapsToRecipient
<1> QED BY <1>3, <1>4, <1>5, <1>6 DEF RelayInv

(***************************************************************************)
(* The event a broadcast shows is the one being answered, and each of its  *)
(* listeners passes the same test as in a replay.                          *)
(***************************************************************************)
LEMMA BroadcastHolds ==
  ASSUME RelayInv, SoundInv', Broadcast
  PROVE  RelayInv'
<1>1. /\ pc = "reply"
      /\ \A g \in got' : g \in got \/ \E s \in Listening(cur) : g = <<s.connection, s.id, cur.id>>
      /\ UNCHANGED <<connections, clients, subscriptions, issued, asked, proved, told>>
  BY DEF Broadcast, Reply
<1>2. cur \in Event
  BY <1>1 DEF RelayInv, SoundInv, TypeOK, Publishing
<1>3. \A s \in Listening(cur) :
        s.connection \in Connection /\ s.id \in SubId /\ can_deliver(cur, s.connection)
  BY DEF Listening, RelayInv, RelayTypeOK
<1>4. RelayTypeOK'
  <2>1. got' \subseteq Connection \X SubId \X {ev.id : ev \in Event}
    <3>1. got \subseteq Connection \X SubId \X {ev.id : ev \in Event}
      BY DEF RelayInv, RelayTypeOK
    <3> QED BY <1>1, <1>2, <1>3, <3>1
  <2> QED BY <1>1, <2>1 DEF RelayInv, RelayTypeOK
<1>5. ClientsOK'
  BY <1>1 DEF RelayInv, ClientsOK
<1>6. SubscriptionsOK'
  BY <1>1 DEF RelayInv, SubscriptionsOK, OfConnection
<1>7. GiftWrapsToRecipient'
  <2> SUFFICES ASSUME NEW g \in got', NEW ev \in Event, ev.id = g[3], ev.kind \in GIFT_WRAPS
               PROVE  \E p \in proved : p[1] = g[1] /\ nip_event_has_tag(ev, "p", p[2])
    BY <1>1 DEF GiftWrapsToRecipient
  <2>1. CASE g \in got
    BY <2>1 DEF RelayInv, GiftWrapsToRecipient
  <2>2. CASE g \notin got
    <3>1. PICK s \in Listening(cur) : g = <<s.connection, s.id, cur.id>>
      BY <1>1, <2>2
    <3>2. cur = ev /\ g[1] = s.connection
      BY <1>2, <3>1, IdIsHash
    <3> QED BY <1>3, <3>2, DeliveryIsProved DEF RelayInv
  <2> QED BY <2>1, <2>2
<1> QED BY <1>4, <1>5, <1>6, <1>7 DEF RelayInv

-----------------------------------------------------------------------------
LEMMA RelayInvNext == RelayInv /\ [RelayNext]_relayAll => RelayInv'
<1> SUFFICES ASSUME RelayInv, [RelayNext]_relayAll PROVE RelayInv' OBVIOUS
<1>1. SoundInv'
  <2>1. [Next]_vars
    BY RelayStep DEF RelayInv, relayAll
  <2> QED BY <2>1, SoundNext DEF RelayInv
<1>2. ASSUME NEW c \in Connection, Serving(c) PROVE RelayInv'
  <2>1. CASE Publication(c)
    BY <1>1, <2>1, UnchangedHolds DEF Publication
  <2>2. ASSUME NEW pubkey \in Pubkey, NEW challenge \in 1..issued, NEW relay \in DOMAIN Stripped,
               Authenticate(c, pubkey, challenge, relay)
        PROVE  RelayInv'
    BY <1>1, <2>2, AuthenticateHolds
  <2>3. ASSUME NEW id \in SubId, NEW filters \in FilterLists, Subscribe(c, id, filters)
        PROVE  RelayInv'
    BY <1>1, <2>3, SubscribeHolds
  <2>4. ASSUME NEW id \in SubId, Unsubscribe(c, id) PROVE RelayInv'
    BY <1>1, <2>4, UnsubscribeHolds
  <2> QED BY <1>1, <1>2, <2>1, <2>2, <2>3, <2>4, ConnectHolds, DisconnectHolds DEF Serving
<1>3. CASE Broadcast
  BY <1>1, <1>3, BroadcastHolds
<1>4. CASE Storing
  BY <1>1, <1>4, UnchangedHolds DEF Storing
<1>5. CASE GoingDown
  <2>1. Connection \in SUBSET Connection
    OBVIOUS
  <2> QED BY <1>1, <1>5, <2>1, ForgetHolds DEF GoingDown
<1>6. CASE UNCHANGED relayAll
  BY <1>1, <1>6, UnchangedHolds DEF relayAll
<1> QED BY <1>2, <1>3, <1>4, <1>5, <1>6 DEF RelayNext

LEMMA RelayInvAlways == RelaySpec => []RelayInv
BY RelayInitHolds, RelayInvNext, PTL DEF RelaySpec

(***************************************************************************)
(* The connections, subscriptions, clients and queries do to the store     *)
(* only what the write path does: the relay implements Publish, so every   *)
(* theorem of the write path holds of the relay its clients see.           *)
(***************************************************************************)
THEOREM RelayIsPublish == RelaySpec => Spec
<1>1. RelayInit => Init
  BY DEF RelayInit
<1>2. RelayInv /\ [RelayNext]_relayAll => [Next]_vars
  BY RelayStep DEF RelayInv, relayAll
<1> QED BY <1>1, <1>2, RelayInvAlways, PTL DEF RelaySpec, Spec

(***************************************************************************)
(* The state of the composed relay is well typed, and every subscription   *)
(* is one that was answered with EOSE.                                     *)
(***************************************************************************)
THEOREM RelayTypeCorrect == RelaySpec => []RelayTypeOK
<1>1. RelayInv => RelayTypeOK
  BY DEF RelayInv
<1> QED BY <1>1, RelayInvAlways, PTL

(***************************************************************************)
(* What is kept for a connection goes with it, whichever client leaves,    *)
(* and however often a pointer comes back (server.c:114, 448; nip42.c:82). *)
(***************************************************************************)
THEOREM NothingIsLeft == RelaySpec => []NothingOutlivesConnection
<1>1. RelayInv => NothingOutlivesConnection
  <2> SUFFICES ASSUME RelayInv PROVE NothingOutlivesConnection OBVIOUS
  <2>1. ASSUME NEW c \in Connection, NEW id \in SubId PROVE Cardinality(Of(c, id)) <= 1
    <3>1. CASE Of(c, id) = {}
      BY <3>1, FS_EmptySet
    <3>2. CASE Of(c, id) # {}
      <4>1. PICK s \in Of(c, id) : TRUE
        BY <3>2
      <4>2. Of(c, id) = {s}
        BY <4>1 DEF RelayInv, SubscriptionsOK, Of
      <4>3. Cardinality({s}) = 1
        BY FS_Singleton
      <4> QED BY <4>2, <4>3
    <3> QED BY <3>1, <3>2
  <2> QED BY <2>1 DEF NothingOutlivesConnection, RelayInv, SubscriptionsOK, ClientsOK, OfConnection
<1> QED BY <1>1, RelayInvAlways, PTL

(***************************************************************************)
(* Gift wraps reach nobody but a recipient who has proved, on the very     *)
(* connection they go to, to hold the key they are addressed to            *)
(* (README.md:144), in a replay as in a broadcast, across reused pointers, *)
(* failing scans and crashes.                                              *)
(***************************************************************************)
THEOREM GiftWrapsReachRecipients == RelaySpec => []GiftWrapsToRecipient
<1>1. RelayInv => GiftWrapsToRecipient
  BY DEF RelayInv
<1> QED BY <1>1, RelayInvAlways, PTL
=============================================================================
