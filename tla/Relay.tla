------------------------------- MODULE Relay -------------------------------
(***************************************************************************)
(* The relay seen from its websocket connections: the write path of        *)
(* Publish, the subscriptions of the server, NIP-42 authentication, the    *)
(* delivery rules of NIP-40 and NIP-17, and the EOSE hints of NIP-67.      *)
(*                                                                         *)
(* A connection is a struct mg_connection pointer: the one of a client     *)
(* that left may come back as another client's.  Messages are handled      *)
(* between two publications, when pc is "idle".  A message the relay       *)
(* refuses (CLOSED, NOTICE, OK false to an AUTH) changes nothing, and is   *)
(* not an action: a refused REQ leaves an older subscription of the same   *)
(* name alone.                                                             *)
(***************************************************************************)
EXTENDS Publish, Query

CONSTANTS
  Connection,        \* mg_connection pointers
  SubId,             \* subscription ids
  FilterLists,       \* the lists of filters clients subscribe with
  CountLists,        \* those they send a COUNT of, which changes nothing
  MaxSubscriptions,  \* MAX_SUBSCRIPTIONS of one connection
  MaxChallenge,      \* bound on the challenges issued
  NoRandom           \* TRUE when the random source may fail

ASSUME MaxSubscriptionsIsNatural == MaxSubscriptions \in Nat \ {0}
ASSUME MaxChallengeIsNatural == MaxChallenge \in Nat
ASSUME NoRandomIsBoolean == NoRandom \in BOOLEAN
ASSUME EmptyListsAreRefused == << >> \notin FilterLists

VARIABLES
  connections,    \* the connections the manager has open
  clients,        \* nip42.c clients: the record of each connection
  subscriptions,  \* server.c subscriptions
  issued,         \* how many challenges were drawn so far
  asked,          \* history: <<connection, challenge>> sent since it opened
  proved,         \* history: <<connection, pubkey>> shown since it opened
  got,            \* history: <<connection, subscription id, event id>>
  told            \* history: the EOSE each subscription was answered with

relayVars ==
  <<connections, clients, subscriptions, issued, asked, proved, got, told>>

NoClient == [challenge |-> 0, pubkey |-> ""]

authenticated_pubkey(c) == clients[c].pubkey

Of(c, id) == {s \in subscriptions : s.connection = c /\ s.id = id}

(* Mutant: any authenticated client will do. *)
nip17_can_deliver_authenticated(ev, pubkey) ==
  ev.kind \in GIFT_WRAPS => pubkey # ""

nip17_can_deliver(ev, pubkey) ==
  ev.kind \in GIFT_WRAPS => pubkey # "" /\ nip_event_has_tag(ev, "p", pubkey)

can_deliver(ev, c) ==
  /\ ~nip40_event_is_expired(ev, now)
  /\ nip17_can_deliver(ev, authenticated_pubkey(c))

targets_gift_wraps(filters) == \E i \in DOMAIN filters : filters[i].kinds \cap GIFT_WRAPS # {}

(* A new challenge for c, when the random source gives one. *)
Issue(c, pubkey) ==
  /\ issued < MaxChallenge
  /\ issued' = issued + 1
  /\ clients' = [clients EXCEPT ![c] = [challenge |-> issued + 1, pubkey |-> pubkey]]
  /\ asked' = asked \cup {<<c, issued + 1>>}

NoIssue == UNCHANGED <<issued, clients, asked>>

-----------------------------------------------------------------------------
(* MG_EV_WS_OPEN: without a challenge there is no record either. *)
Connect(c) ==
  /\ pc = "idle" /\ c \notin connections
  /\ connections' = connections \cup {c}
  /\ Issue(c, "") \/ (NoRandom /\ NoIssue)
  /\ UNCHANGED <<vars, subscriptions, proved, got, told>>

(* What is left of the histories when the connections gone are gone. *)
Forget(gone) ==
  /\ connections' = connections \ gone
  /\ clients' = [c \in Connection |-> IF c \in gone THEN NoClient ELSE clients[c]]
  /\ subscriptions' = {s \in subscriptions : s.connection \notin gone}
  /\ asked' = {a \in asked : a[1] \notin gone}
  /\ proved' = {p \in proved : p[1] \notin gone}
  /\ got' = {g \in got : g[1] \notin gone}
  /\ told' = {t \in told : t.connection \notin gone}
  /\ UNCHANGED issued

(* Mutant: the subscriptions are left behind. *)
DisconnectKeepingSubscriptions(c) ==
  /\ pc = "idle" /\ c \in connections
  /\ connections' = connections \ {c}
  /\ clients' = [clients EXCEPT ![c] = NoClient]
  /\ told' = {t \in told : t.connection # c}
  /\ UNCHANGED <<vars, subscriptions, issued, asked, proved, got>>

(* Mutant: nip42_close is forgotten. *)
DisconnectKeepingClient(c) ==
  /\ pc = "idle" /\ c \in connections
  /\ connections' = connections \ {c}
  /\ subscriptions' = {s \in subscriptions : s.connection # c}
  /\ UNCHANGED <<vars, clients, issued, asked, proved, got, told>>

(* MG_EV_CLOSE: remove_subscriptions, then nip42_close. *)
Disconnect(c) ==
  /\ pc = "idle" /\ c \in connections
  /\ Forget({c})
  /\ UNCHANGED vars

(* AUTH: the challenge and the relay of the signed event must be right. *)
Authenticate(c, pubkey, challenge, relay) ==
  /\ pc = "idle" /\ c \in connections
  /\ clients[c] # NoClient
  /\ challenge = clients[c].challenge
  /\ Stripped[relay] = Stripped[ServiceUrl]
  /\ clients' = [clients EXCEPT ![c] = [challenge |-> challenge, pubkey |-> pubkey]]
  /\ proved' = proved \cup IF <<c, challenge>> \in asked THEN {<<c, pubkey>>} ELSE {}
  /\ UNCHANGED <<vars, connections, subscriptions, issued, asked, got, told>>

-----------------------------------------------------------------------------
(***************************************************************************)
(* REQ: the subscription takes the place of the one of the same name, the  *)
(* stored events are streamed through query_sender, and EOSE ends them.    *)
(***************************************************************************)
(* Mutant: one subscription too many. *)
HasRoomForOneMore(c, id) ==
  Cardinality({s \in subscriptions : s.connection = c /\ s.id # id}) <= MaxSubscriptions

HasRoom(c, id) ==
  Cardinality({s \in subscriptions : s.connection = c /\ s.id # id}) < MaxSubscriptions

(* query_sender: what a stream delivers to c. *)
Delivered(stream, filters, c) ==
  {r.id : r \in {q \in UNION {stream[i].rows : i \in DOMAIN stream} :
                   MatchesAny(filters, q) /\ can_deliver(q, c)}}

(* Mutant: without a record there is no challenge, so no hint either. *)
NeedsAuthWithRecord(c, filters) ==
  clients[c] # NoClient /\ authenticated_pubkey(c) = "" /\ targets_gift_wraps(filters)

(* An unauthenticated query for gift wraps is hinted, with a challenge. *)
NeedsAuth(c, filters) == authenticated_pubkey(c) = "" /\ targets_gift_wraps(filters)

AuthHint(c, filters) ==
  IF NeedsAuth(c, filters) /\ clients[c] # NoClient
  THEN Issue(c, "") \/ (NoRandom /\ NoIssue)
  ELSE NoIssue

Subscribe(c, id, filters) ==
  /\ pc = "idle" /\ c \in connections /\ HasRoom(c, id)
  /\ subscriptions' =
       (subscriptions \ Of(c, id)) \cup {[connection |-> c, id |-> id, filters |-> filters]}
  /\ \E stream \in Streams(filters, "read" \in Faults) :
       /\ got' = {g \in got : <<g[1], g[2]>> # <<c, id>>}
                   \cup {<<c, id, e>> : e \in Delivered(stream, filters, c)}
       /\ told' = {t \in told : <<t.connection, t.id>> # <<c, id>>}
                    \cup {[connection |-> c, id |-> id,
                           more |-> \E i \in DOMAIN stream : stream[i].more,
                           auth |-> NeedsAuth(c, filters)]}
  /\ AuthHint(c, filters)
  /\ UNCHANGED <<vars, connections, proved>>

(* CLOSE. *)
Unsubscribe(c, id) ==
  /\ pc = "idle" /\ c \in connections /\ Of(c, id) # {}
  /\ subscriptions' = subscriptions \ Of(c, id)
  /\ got' = {g \in got : <<g[1], g[2]>> # <<c, id>>}
  /\ told' = {t \in told : <<t.connection, t.id>> # <<c, id>>}
  /\ UNCHANGED <<vars, connections, clients, issued, asked, proved>>

-----------------------------------------------------------------------------
(***************************************************************************)
(* EVENT, with the authentication of the connection it came in on, and     *)
(* its end: OK, then the broadcast of what was accepted for it.            *)
(***************************************************************************)
Publication(c) ==
  /\ c \in connections
  /\ \E ev \in Event, valid \in BOOLEAN : Receive(ev, authenticated_pubkey(c), valid)
  /\ UNCHANGED relayVars

Listening(ev) ==
  {s \in subscriptions : MatchesAny(s.filters, ev) /\ can_deliver(ev, s.connection)}

Broadcast ==
  /\ Reply
  /\ got' = got \cup
       IF result.accepted /\ result.should_broadcast
       THEN {<<s.connection, s.id, cur.id>> : s \in Listening(cur)} ELSE {}
  /\ UNCHANGED <<connections, clients, subscriptions, issued, asked, proved, told>>

(* The other steps of the listeners, the collector, and storage_init. *)
Storing ==
  /\ (Listener /\ pc # "reply") \/ Purge \/ Start \/ Migration \/ Tick
  /\ UNCHANGED relayVars

(* A relay that stops or dies takes its connections along. *)
GoingDown ==
  /\ Stop \/ Crash
  /\ Forget(Connection)

-----------------------------------------------------------------------------
RelayInit ==
  /\ Init
  /\ connections = {} /\ clients = [c \in Connection |-> NoClient]
  /\ subscriptions = {} /\ issued = 0
  /\ asked = {} /\ proved = {} /\ got = {} /\ told = {}

Serving(c) ==
  \/ Connect(c) \/ Disconnect(c) \/ Publication(c)
  \/ \E pubkey \in Pubkey, challenge \in 1..issued, relay \in DOMAIN Stripped :
       Authenticate(c, pubkey, challenge, relay)
  \/ \E id \in SubId, filters \in FilterLists : Subscribe(c, id, filters)
  \/ \E id \in SubId : Unsubscribe(c, id)

RelayNext == (\E c \in Connection : Serving(c)) \/ Broadcast \/ Storing \/ GoingDown

relayAll == <<vars, relayVars>>

RelaySpec == RelayInit /\ [][RelayNext]_relayAll

-----------------------------------------------------------------------------
(***************************************************************************)
(* Types of the variables; a subscription is one that was answered.        *)
(***************************************************************************)
RelayTypeOK ==
  /\ connections \subseteq Connection
  /\ clients \in [Connection -> [challenge : 0..MaxChallenge, pubkey : Pubkey \cup {""}]]
  /\ subscriptions \subseteq [connection : Connection, id : SubId, filters : FilterLists]
  /\ issued \in 0..MaxChallenge
  /\ asked \subseteq Connection \X (1..MaxChallenge)
  /\ proved \subseteq Connection \X Pubkey
  /\ got \subseteq Connection \X SubId \X {ev.id : ev \in Event}
  /\ told \subseteq [connection : Connection, id : SubId, more : BOOLEAN, auth : BOOLEAN]
  /\ {<<t.connection, t.id>> : t \in told} = {<<s.connection, s.id>> : s \in subscriptions}

(***************************************************************************)
(* What is kept for a connection goes with it: subscriptions and NIP-42    *)
(* records belong to open connections, a name has one subscription on one  *)
(* connection, and a connection no more than MAX_SUBSCRIPTIONS of them, so *)
(* a pointer that comes back starts afresh (server.c:114, 448; nip42.c:82).*)
(***************************************************************************)
NothingOutlivesConnection ==
  /\ \A s \in subscriptions : s.connection \in connections
  /\ \A c \in Connection : clients[c] # NoClient => c \in connections
  /\ \A c \in Connection, id \in SubId : Cardinality(Of(c, id)) <= 1
  /\ \A c \in Connection :
       Cardinality({s \in subscriptions : s.connection = c}) <= MaxSubscriptions

(***************************************************************************)
(* A gift wrap reaches only a client that has proved, on this connection   *)
(* and with a challenge issued to it, to hold a key the event is addressed *)
(* to (README.md:144; nip17.c:6, server.c:196, 220).                       *)
(***************************************************************************)
GiftWrapsToRecipient ==
  \A g \in got : \A ev \in Event :
    ev.id = g[3] /\ ev.kind \in GIFT_WRAPS =>
      \E p \in proved : p[1] = g[1] /\ nip_event_has_tag(ev, "p", p[2])

(***************************************************************************)
(* A subscription told "finish" misses nothing it asked for: every event   *)
(* held between two publications that matches it and may be shown to       *)
(* anyone was delivered, in the replay or live (nip67.h:24, "no more       *)
(* events available (all matched events sent)").  Deletion requests that   *)
(* arrive later are not broadcast (nip09.c:205).                           *)
(***************************************************************************)
FinishIsComplete ==
  pc = "idle" =>
    \A s \in subscriptions, t \in told :
      t.connection = s.connection /\ t.id = s.id /\ ~t.more =>
        \A r \in event :
          /\ MatchesAny(s.filters, r)
          /\ r.kind \notin GIFT_WRAPS \cup {DELETION}
          /\ ~nip40_event_is_expired(r, now)
          => <<s.connection, s.id, r.id>> \in got

(***************************************************************************)
(* COUNT says how many of the events held match (storage.h:182, nip45.c): *)
(* no fewer, and no more either unless one matches several of the filters. *)
(* Two evaluations of a filter, in SQL and in memory, must agree on it.    *)
(***************************************************************************)
Disjoint(filters) ==
  \A r \in event, i, j \in DOMAIN filters :
    matches_filter(filters[i], r) /\ matches_filter(filters[j], r) => i = j

CountIsOfMatches ==
  \A filters \in CountLists :
    Reached(filters, TRUE) = DOMAIN filters =>
      LET matching == {r \in event : MatchesAny(filters, r)}
      IN  /\ CountRecords(filters) >= Cardinality(matching)
          /\ Disjoint(filters) => CountRecords(filters) = Cardinality(matching)

(***************************************************************************)
(* A client that asked for gift wraps and was told of nothing more and no  *)
(* need to authenticate has authenticated, and got every wrap stored for   *)
(* its key (nip67.h:59, README.md:144, "Restricts gift-wrap delivery ... to*)
(* authenticated p-tag recipients").                                       *)
(***************************************************************************)
GiftsAreReplayed ==
  [][\A t \in told' \ told : \A s \in subscriptions' :
       /\ s.connection = t.connection /\ s.id = t.id
       /\ ~t.more /\ ~t.auth /\ targets_gift_wraps(s.filters)
       => LET pubkey == authenticated_pubkey(t.connection)
          IN  /\ pubkey # ""
              /\ \A r \in event :
                   /\ MatchesAny(s.filters, r) /\ nip17_can_deliver(r, pubkey)
                   /\ ~nip40_event_is_expired(r, now)
                   => <<s.connection, s.id, r.id>> \in got']_relayAll
=============================================================================
