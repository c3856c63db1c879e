----------------------------- MODULE EventStore -----------------------------
(***************************************************************************)
(* What the relay promises of the events it holds, whatever statements its *)
(* handlers are made of and wherever they stop:                            *)
(*                                                                         *)
(*  - events come in one publication at a time, and only the event being   *)
(*    published is added;                                                  *)
(*  - an event goes only because the event being published has authority   *)
(*    over it, or because it has expired;                                  *)
(*  - a publication is answered "accepted" only once its event is held,    *)
(*    unless the event is ephemeral.                                       *)
(***************************************************************************)
EXTENDS NostrEvent

CONSTANT NoEvent

VARIABLES
  rows,     \* the events held, as their authors signed them
  pending,  \* the event being published
  verdict,  \* what its publisher is about to be told
  now

storeVars == <<rows, pending, verdict, now>>

Verdicts == {"none", "accepted", "refused"}

(***************************************************************************)
(* Authority, as the NIPs give it.  A newer version of a replaceable or    *)
(* addressable event supersedes the older ones (NIP-01); a deletion request*)
(* takes the events it names that its author wrote, or had written by a    *)
(* delegatee (NIP-09, NIP-26); a request to vanish takes everything its    *)
(* author wrote up to then (NIP-62).                                       *)
(***************************************************************************)
SameAddress(e, f) ==
  /\ e.kind = f.kind /\ e.pubkey = f.pubkey
  /\ \/ IsReplaceable(e.kind)
     \/ IsAddressable(e.kind) /\ DIdentifier(e) = DIdentifier(f)

Supersedes(e, f) == SameAddress(e, f) /\ f.created_at < e.created_at

Named(e, name) == {e.tags[p[1]][p[2]] : p \in {q \in DeletionTargets(e) : e.tags[q[1]][1] = name}}

(* An "a" coordinate covers f; an empty identifier covers every one. *)
Covers(a, f) ==
  /\ parse_a_tag_ok(a)
  /\ parse_a_tag(a).kind = f.kind /\ parse_a_tag(a).pubkey = f.pubkey
  /\ parse_a_tag(a).d \in {"", DIdentifier(f)}

RequestsDeletion(e, f) ==
  /\ e.kind = DELETION /\ kind_is_requested(e, f.kind)
  /\ \/ f.id \in Named(e, "e") /\ deletion_authorized(e, f)
     \/ f.created_at < e.created_at /\ \E a \in Named(e, "a") : f.pubkey = e.pubkey /\ Covers(a, f)

Vanishes(e, f) ==
  /\ e.kind = VANISH /\ nip62_should_vanish(e)
  /\ e.pubkey = f.pubkey /\ f.kind # VANISH /\ f.created_at <= e.created_at

Authorises(e, f) == Supersedes(e, f) \/ RequestsDeletion(e, f) \/ Vanishes(e, f)

-----------------------------------------------------------------------------
StoreInit ==
  /\ rows \in SUBSET Event
  /\ pending = NoEvent /\ verdict = "none" /\ now = 0

(* Taken up; only an ephemeral event can be accepted on the spot. *)
Submit(e) ==
  /\ pending = NoEvent /\ pending' = e
  /\ verdict' \in Verdicts /\ (verdict' = "accepted" => IsEphemeral(e.kind))
  /\ UNCHANGED <<rows, now>>

Discard ==
  /\ pending # NoEvent /\ verdict = "none"
  /\ rows' \subseteq rows
  /\ \A f \in rows \ rows' : Authorises(pending, f)
  /\ UNCHANGED <<pending, verdict, now>>

Hold ==
  /\ pending # NoEvent /\ verdict = "none"
  /\ rows' = rows \cup {pending}
  /\ UNCHANGED <<pending, verdict, now>>

Decide ==
  /\ pending # NoEvent /\ verdict = "none"
  /\ \/ verdict' = "accepted" /\ pending \in rows
     \/ verdict' = "refused"
  /\ UNCHANGED <<rows, pending, now>>

(* The answer goes out, or the process dies first. *)
Settle ==
  /\ pending # NoEvent
  /\ pending' = NoEvent /\ verdict' = "none"
  /\ UNCHANGED <<rows, now>>

Expire ==
  /\ pending = NoEvent
  /\ rows' \subseteq rows
  /\ \A f \in rows \ rows' : nip40_event_is_expired(f, now)
  /\ UNCHANGED <<pending, verdict, now>>

Pass == now' = now + 1 /\ UNCHANGED <<rows, pending, verdict>>

StoreNext ==
  \/ \E e \in Event : Submit(e)
  \/ Discard \/ Hold \/ Decide \/ Settle \/ Expire \/ Pass

StoreSpec == StoreInit /\ [][StoreNext]_storeVars
=============================================================================
