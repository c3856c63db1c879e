----------------------------- MODULE NostrEvent -----------------------------
(***************************************************************************)
(* The event_t of the relay and the questions the NIP modules ask of it.   *)
(*                                                                         *)
(* An event is a record [id, pubkey, created_at, kind, tags, work].  The   *)
(* id is the hash of the rest, so two events with one id are one event.    *)
(* tags is a sequence of tags, a tag a sequence of elements whose first    *)
(* element is the tag's name.  Names are strings; the elements a tag name  *)
(* calls for are abstracted to what the code reads out of them:            *)
(*   "e" ids, "p" and "delegation" public keys, "d" identifiers,           *)
(*   "k" and "expiration" and "nonce" numbers, "relay" urls,               *)
(*   "a" coordinates <<kind, pubkey>> or <<kind, pubkey, d>> (any other    *)
(*   length is a value parse_a_tag refuses).                               *)
(* work is count_leading_zero_bits(id).  Content, signature and the        *)
(* outcome of check_event are not carried: see Publish!Receive.            *)
(***************************************************************************)
EXTENDS Integers, Sequences

CONSTANTS
  Event,       \* every event a client or an older database may present
  Stripped,    \* url |-> the same url without its trailing slashes
  ServiceUrl,  \* the relay's -service-url, "" when none was given
  IntMax       \* largest value of the C type int (2^31 - 1 in every build)

(***************************************************************************)
(* Ids are hashes: an id names one event.                                  *)
(***************************************************************************)
ASSUME IdIsHash == \A e, f \in Event : e.id = f.id => e = f

(***************************************************************************)
(* An event is a record of these fields, its created_at a signed time_t.   *)
(***************************************************************************)
ASSUME EventIsRecord ==
  \A ev \in Event :
    /\ ev = [id |-> ev.id, pubkey |-> ev.pubkey, created_at |-> ev.created_at,
             kind |-> ev.kind, tags |-> ev.tags, work |-> ev.work]
    /\ ev.created_at \in Int

ASSUME IntMaxIsPositive == IntMax \in Nat \ {0}

(***************************************************************************)
(* The kinds the code names.                                               *)
(***************************************************************************)
DELETION == 5
VANISH   == 62
GIFT_WRAPS == {1059, 21059}

IsReplaceable(kind) == kind \in {0, 3} \cup 10000..19999
IsAddressable(kind) == kind \in 30000..39999
IsEphemeral(kind)   == kind \in 20000..29999

(***************************************************************************)
(* nip_tag_element and nip_event_has_tag.  has_named is has_tag with a     *)
(* NULL value: any tag of that name will do.                               *)
(***************************************************************************)
TagsNamed(event, name) ==
  {i \in DOMAIN event.tags : event.tags[i] # <<>> /\ event.tags[i][1] = name}

nip_event_has_named(event, name) == TagsNamed(event, name) # {}

(* The second elements of the tags of one name: what has_tag compares. *)
TagValues(event, name) ==
  {event.tags[i][2] : i \in {j \in TagsNamed(event, name) : Len(event.tags[j]) >= 2}}

nip_event_has_tag(event, name, value) == value \in TagValues(event, name)

nip_event_has_relay_tag(event, relay) ==
  Stripped[relay] \in {Stripped[url] : url \in TagValues(event, "relay")}

(***************************************************************************)
(* The "d" identifier of nip01_replace_addressable_event and of            *)
(* delete_record_by_kind_and_pubkey_and_dtag: the first "d" tag decides,   *)
(* and a missing tag or element is the empty identifier.                   *)
(***************************************************************************)
DIdentifier(event) ==
  LET d == TagsNamed(event, "d")
      first == CHOOSE i \in d : \A j \in d : i <= j
  IN  IF d # {} /\ Len(event.tags[first]) >= 2 THEN event.tags[first][2] ELSE ""

(* NIP-40: any expiration tag that has passed expires the event. *)
nip40_event_is_expired(event, now) ==
  \E expiration \in TagValues(event, "expiration") : expiration <= now

(* NIP-26: the delegators store_delegations indexes. *)
Delegators(event) == TagValues(event, "delegation")

(* NIP-13: the committed target is the third element of the first nonce. *)
nip13_committed_target(event) ==
  LET nonces == TagsNamed(event, "nonce")
      first  == CHOOSE i \in nonces : \A j \in nonces : i <= j
  IN  IF nonces # {} /\ Len(event.tags[first]) >= 3
         /\ event.tags[first][3] \in 1..256
      THEN event.tags[first][3] ELSE 0

nip13_meets_difficulty(event, minimum) ==
  \/ minimum <= 0
  \/ event.work >= minimum /\ event.work >= nip13_committed_target(event)

(***************************************************************************)
(* NIP-09.  kind_is_requested: no "k" tags, or the kind is among them.     *)
(***************************************************************************)
kind_is_requested(event, kind) ==
  \/ ~nip_event_has_named(event, "k")
  \/ nip_event_has_tag(event, "k", kind)

(* Every position of an element nip09_delete_targets visits, and the order. *)
DeletionTargets(event) ==
  UNION {{i} \X (2..Len(event.tags[i])) :
           i \in TagsNamed(event, "e") \cup TagsNamed(event, "a")}

Precedes(p, q) == p[1] < q[1] \/ (p[1] = q[1] /\ p[2] < q[2])

(* parse_a_tag, on a value it accepts: a missing identifier is empty. *)
parse_a_tag_ok(a) == Len(a) \in {2, 3}
parse_a_tag(a) ==
  [kind |-> a[1], pubkey |-> a[2], d |-> IF Len(a) = 3 THEN a[3] ELSE ""]

deletion_authorized(event, target) ==
  \/ target.pubkey = event.pubkey
  \/ nip_event_has_tag(target, "delegation", event.pubkey)

(* NIP-62: an empty service url never matches a relay tag. *)
nip62_should_vanish(event) ==
  \/ nip_event_has_tag(event, "relay", "ALL_RELAYS")
  \/ ServiceUrl # "" /\ nip_event_has_relay_tag(event, ServiceUrl)

(***************************************************************************)
(* The (int) cast every sqlite3_bind_int puts a time_t through: the value  *)
(* modulo the width of an int, read as a signed number.                    *)
(***************************************************************************)
ToInt(t) == ((t + IntMax + 1) % (2 * (IntMax + 1))) - (IntMax + 1)
=============================================================================
