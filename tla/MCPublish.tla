----------------------------- MODULE MCPublish -----------------------------
(***************************************************************************)
(* Instances of Publish for TLC: the events each question needs, and no    *)
(* more.  Names of events say author, kind and age.                        *)
(***************************************************************************)
EXTENDS Publish

Ev(id, pubkey, created_at, kind, tags) ==
  [id |-> id, pubkey |-> pubkey, created_at |-> created_at, kind |-> kind,
   tags |-> tags, work |-> 0]

MCPubkey == {"alice", "bob"}
MCStripped ==
  [url \in {"ALL_RELAYS", "wss://here", "wss://here/", "wss://there"} |->
     IF url = "wss://here/" THEN "wss://here" ELSE url]

Empty == {{}}

(* Texts without blanks and escapes; of values, only what LIKE looks for.  *)
Compact(tag) ==
  [blank |-> "none",
   raw |-> [k \in DOMAIN tag |-> IF k = 1 \/ tag[1] = "t" THEN tag[k] ELSE "value"]]

MCTagsText ==
  [id \in {ev.id : ev \in Event} |->
     LET ev == CHOOSE e \in Event : e.id = id
     IN  [i \in DOMAIN ev.tags |-> Compact(ev.tags[i])]]

MCFolded == << >>

-----------------------------------------------------------------------------
(* Replacement: two profiles, a list and an article of two versions each,  *)
(* one more article, and an ephemeral event.                               *)
Profile1 == Ev("profile1", "alice", 1, 0, << >>)
Profile2 == Ev("profile2", "alice", 2, 0, << >>)
ProfileB == Ev("profileB", "bob", 1, 0, << >>)
Article1 == Ev("article1", "alice", 1, 30023, << <<"d", "x">> >>)
Article2 == Ev("article2", "alice", 2, 30023, << <<"d", "x">>, <<"d", "y">> >>)
ArticleY == Ev("articleY", "alice", 1, 30023, << <<"d", "y">> >>)
ArticleN == Ev("articleN", "alice", 1, 30023, << <<"d">> >>)
Typing   == Ev("typing", "alice", 1, 20001, << >>)

Replacements == {Profile1, Profile2, ProfileB, Article1, Article2, ArticleY, ArticleN, Typing}

-----------------------------------------------------------------------------
(* Deletion: alice deletes by id, by coordinate, and with a kind filter.   *)
Note1    == Ev("note1", "alice", 1, 1, << >>)
NoteB    == Ev("noteB", "bob", 1, 1, << <<"delegation", "alice">> >>)
GiftBack == Ev("giftback", "alice", 1, 1059, << <<"p", "alice">> >>)
DeleteNotes ==
  Ev("deletenotes", "alice", 2, DELETION, << <<"e", "note1", "note2">>, <<"e", "article1">>, <<"k", 1>> >>)
DeleteArticles ==
  Ev("deletearticles", "alice", 2, DELETION, << <<"a", <<30023, "alice", "x">>, <<0, "alice">>, <<0, "bob">> >> >>)
DeleteOthers ==
  Ev("deleteothers", "alice", 2, DELETION, << <<"e", "noteB">>, <<"e", "giftback">>, <<"e", "unknown">> >>)
DeleteDelegated ==
  Ev("deletedelegated", "alice", 2, DELETION, << <<"e", "noteB">> >>)
DelegatedDeletion == {NoteB, DeleteDelegated}

-----------------------------------------------------------------------------
(* Vanishing: requests for this relay, for another, for all, for none; what *)
(* VanishAll is too old for are the other requests of its author.          *)
VanishHere  == Ev("vanishhere", "alice", 2, VANISH, << <<"relay", "wss://there">>, <<"relay", "wss://here/">> >>)
VanishThere == Ev("vanishthere", "alice", 2, VANISH, << <<"relay", "wss://there">> >>)
VanishAll   == Ev("vanishall", "alice", 1, VANISH, << <<"relay", "ALL_RELAYS">> >>)
VanishNone  == Ev("vanishnone", "alice", 2, VANISH, << <<"p", "bob">> >>)

Requests ==
  {Note1, NoteB, GiftBack, Article1, Profile1, DeleteNotes, DeleteArticles, DeleteOthers,
   VanishHere, VanishThere, VanishAll, VanishNone}

-----------------------------------------------------------------------------
(* Faults and crashes over everything that deletes.                        *)
NoteD == Ev("noteD", "alice", 1, 1, << <<"delegation", "bob">>, <<"delegation", "carol">> >>)
DeleteD == Ev("deleteD", "alice", 2, DELETION, << <<"e", "noteD">>, <<"a", <<30023, "alice", "x">> >>, <<"e", "giftback">> >>)
Fleeting == Ev("fleeting", "bob", 0, 1, << <<"expiration", 1>> >>)
Brittle == {NoteD, GiftBack, Article1, DeleteD, VanishAll, Fleeting, Article2}
Inherited == {{}, {NoteD, GiftBack}}

-----------------------------------------------------------------------------
(* A lifetime: a database of an older version is migrated, notes expire    *)
(* soon and late, or speak of expiration and never do, one more of them    *)
(* than a sweep may visit, some published on behalf of others; and what    *)
(* the checks on the way in tell apart: a protected note, and work that    *)
(* misses its commitment.                                                  *)
Worked(ev, bits) == [ev EXCEPT !.work = bits]
Soon      == Worked(Ev("soon", "alice", 0, 1, << <<"expiration", 1>>, <<"delegation", "bob">>, <<"delegation", "carol">> >>), 8)
Soon2     == Worked(Ev("soon2", "bob", 1, 1, << <<"expiration", 5>>, <<"expiration", 1>> >>), 9)
Lasting   == Worked(Ev("lasting", "alice", 1, 1, << <<"expiration", 9>>, <<"delegation">>, <<"delegation", "bob">> >>), 8)
Protected == Worked(Ev("protected", "bob", 0, 1, << <<"-">>, <<"delegation", "alice">> >>), 8)
Topical   == Worked(Ev("topical", "bob", 0, 1, << <<"t", "expiration">> >>), 8)
Idle      == Worked(Ev("idle", "alice", 0, 1, << <<"nonce", "7", 9>> >>), 8)

Perishable == {Soon, Soon2, Lasting, Topical, Protected, Idle}
Older      == {{}, {Soon, Lasting}, {Soon2, Lasting, Protected}}
Starving   == {Worked(Ev("longlived", "alice", 1, 1, << <<"expiration", 9>> >>), 8), Soon}
=============================================================================
