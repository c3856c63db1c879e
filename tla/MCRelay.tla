------------------------------ MODULE MCRelay ------------------------------
(***************************************************************************)
(* Instances of Relay for TLC.                                             *)
(***************************************************************************)
EXTENDS Relay, TLC

Ev(id, pubkey, created_at, kind, tags) ==
  [id |-> id, pubkey |-> pubkey, created_at |-> created_at, kind |-> kind,
   tags |-> tags, work |-> 0]

MCPubkey == {"alice", "bob"}
MCStripped == [url \in {"wss://here", "wss://here/"} |-> "wss://here"]
Empty == {{}}

(* The tags of each event as they were sent: compact, with a date in       *)
(* digits, but for those of one note, which have a space behind the comma. *)
Compact(tag) ==
  [blank |-> "none", raw |-> IF tag[1] = "expiration" THEN <<"expiration", "digits">> ELSE tag]

MCTagsText ==
  [id \in {ev.id : ev \in Event} |->
     LET ev == CHOOSE e \in Event : e.id = id
     IN  [i \in DOMAIN ev.tags |->
            IF id = "note" THEN [Compact(ev.tags[i]) EXCEPT !.blank = "space"]
            ELSE Compact(ev.tags[i])]]

MCFolded == "Alice" :> "alice"

NoFilter == [ids |-> {}, authors |-> {}, kinds |-> {}, tags |-> {},
             since |-> 0, until |-> 0, limit |-> 3]

OfAuthors(authors) == [NoFilter EXCEPT !.authors = authors]
OfKinds(kinds)     == [NoFilter EXCEPT !.kinds = kinds]
Tagged(name, v)    == [NoFilter EXCEPT !.tags = {<<name, {v}>>}]

-----------------------------------------------------------------------------
(* Replay and broadcast: a profile of two versions, notes, one of them to  *)
(* whom LIKE takes for alice, and a limit.                                 *)
Profile1 == Ev("profile1", "alice", 1, 0, << >>)
Profile2 == Ev("profile2", "alice", 3, 0, << >>)
Note     == Ev("note", "bob", 2, 1, << <<"p", "alice">>, <<"p", "carol">>, <<"e", "profile1">> >>)
Fleeting == Ev("fleeting", "bob", 2, 1, << <<"p", "alice">>, <<"expiration", 1>> >>)
Cased    == Ev("cased", "bob", 1, 1, << <<"p", "Alice">> >>)

Public == {Profile1, Profile2, Note, Fleeting, Cased}
PublicLists == { << OfAuthors({"alice"}), Tagged("p", "alice") >>,
                 << [NoFilter EXCEPT !.limit = 1, !.since = 2] >> }

(* Counting by every criterion: filters alone, apart, and over each other. *)
PublicCounts ==
  { << OfAuthors({"alice"}) >>, << OfKinds({0}), OfKinds({1}) >>,
    << Tagged("e", "profile1"), OfAuthors({"bob"}) >>,
    << [NoFilter EXCEPT !.tags = {<<"p", {"bob", "carol"}>>, <<"e", {"profile1"}>>}] >>,
    << [NoFilter EXCEPT !.since = 2, !.limit = 1] >>,
    << [NoFilter EXCEPT !.until = 2, !.ids = {"note", "profile2"}], OfKinds({0}) >> }

-----------------------------------------------------------------------------
(* Private events: a gift wrap to alice, kept, and one to bob, passed on.  *)
Gift   == Ev("gift", "bob", 1, 1059, << <<"p", "alice">> >>)
Murmur == Ev("murmur", "bob", 1, 21059, << <<"p", "bob">> >>)

Private == {Gift, Murmur}
PrivateLists == { << OfKinds({1059, 21059}) >> }

-----------------------------------------------------------------------------
(* A reply with a relay hint in its "e" tag, and who follows its thread.   *)
Reply2 == Ev("reply2", "bob", 2, 1, << <<"e", "note", "wss://there">> >>)
Hinted == {Note, Reply2}
HintedLists == { << Tagged("e", "note") >> }

-----------------------------------------------------------------------------
One == {"c1"}
Two == {"c1", "c2"}
=============================================================================
