------------------------------ MODULE Storage ------------------------------
(***************************************************************************)
(* The SQLite backend: the event table, the delegation side table and the  *)
(* one-row backfilled_delegation table of the database file.               *)
(*                                                                         *)
(* The connection runs in autocommit: every statement is a transaction of  *)
(* its own, and the file survives the process.  An operation that runs one *)
(* writing statement is one action here; insert_record runs one for the    *)
(* row and one more for each delegation tag, so it is several.             *)
(***************************************************************************)
EXTENDS NostrEvent

CONSTANTS
  TagsText,  \* id |-> the text of the event's tags, as its author's client wrote it
  Folded     \* the texts with capitals |-> the same in small letters

(***************************************************************************)
(* Column tags holds the text as it came, so that an id, which is the hash *)
(* of it, names one text.  Of a tag's text is kept what LIKE can tell of   *)
(* it: raw, the texts of its elements, escapes unresolved, and blank, the  *)
(* white space among them: "none", one "space" behind each comma, or       *)
(* anything "other".                                                       *)
(***************************************************************************)
ASSUME TextIsOfTags ==
  \A ev \in Event :
    /\ DOMAIN TagsText[ev.id] = DOMAIN ev.tags
    /\ \A i \in DOMAIN ev.tags : DOMAIN TagsText[ev.id][i].raw = DOMAIN ev.tags[i]

VARIABLES
  event,       \* rows of table event
  delegation,  \* rows <<event_id, delegator>> of table delegation
  backfilled   \* column done of backfilled_delegation

storageVars == <<event, delegation, backfilled>>

(* The row insert_record binds: created_at goes through an int. *)
Row(ev) == [ev EXCEPT !.created_at = ToInt(@)]

Ids(rows) == {r.id : r \in rows}

(* The index entries a row's delegation tags call for. *)
IndexEntries(ev) == {ev.id} \X Delegators(ev)

(* The stored events themselves, with the created_at their authors signed. *)
Stored == {ev \in Event : ev.id \in Ids(event)}

-----------------------------------------------------------------------------
(***************************************************************************)
(* The rows each delete of the storage interface selects.                  *)
(***************************************************************************)
ByIdAndPubkey(id, pubkey) ==
  {r \in event : r.id = id /\ r.pubkey = pubkey}

(* Mutant: the newest of the older versions is spared. *)
ByKindAndPubkeyOffByOne(kind, pubkey, created_at) ==
  {r \in event : r.kind = kind /\ r.pubkey = pubkey /\ r.created_at < ToInt(created_at) - 1}

(* Mutant: whoever wrote it. *)
ByKindOfAnyone(kind, pubkey, created_at) ==
  {r \in event : r.kind = kind /\ r.created_at < ToInt(created_at)}

ByKindAndPubkey(kind, pubkey, created_at) ==
  {r \in event : r.kind = kind /\ r.pubkey = pubkey /\ r.created_at < ToInt(created_at)}

(* Mutant: the identifier is not compared. *)
ByKindAndPubkeyAndAnyDtag(kind, pubkey, d, created_at) ==
  ByKindAndPubkey(kind, pubkey, created_at)

ByKindAndPubkeyAndDtag(kind, pubkey, d, created_at) ==
  {r \in ByKindAndPubkey(kind, pubkey, created_at) : DIdentifier(r) = d}

ByIdAndKindAndPtag(id, kind, pubkey) ==
  {r \in event : r.id = id /\ r.kind = kind /\ nip_event_has_tag(r, "p", pubkey)}

(* Mutant: exclude_kind is ignored. *)
ByPubkeyOfAnyKind(pubkey, created_at, exclude_kind) ==
  {r \in event : r.pubkey = pubkey /\ r.created_at <= ToInt(created_at)}

ByPubkeyUpTo(pubkey, created_at, exclude_kind) ==
  {r \in event : /\ r.pubkey = pubkey
                 /\ r.created_at <= ToInt(created_at)
                 /\ exclude_kind = 0 \/ r.kind # exclude_kind}

(***************************************************************************)
(* LIKE compares texts, not tags, and takes capital for small letters.     *)
(***************************************************************************)
Fold(text) == IF text \in DOMAIN Folded THEN Folded[text] ELSE text

Written(row) == {TagsText[row.id][i] : i \in DOMAIN TagsText[row.id]}

(* LIKE '%"word"%': some element of a tag, be it a name or not. *)
Says(row, word) == \E tag \in Written(row) : \E k \in DOMAIN tag.raw : Fold(tag.raw[k]) = word

(* purge_expired narrows its scan to rows that say so, up to now. *)
PurgeCandidates(now) == {r \in event : Says(r, "expiration") /\ r.created_at <= ToInt(now)}

(* What the migration of a database of an older version looks at. *)
MigrationCandidates == {r \in event : Says(r, "delegation")}

-----------------------------------------------------------------------------
(***************************************************************************)
(* Writing statements.                                                     *)
(***************************************************************************)

(* Mutant: foreign keys are not enforced, and nothing cascades. *)
DeleteRowsAlone(rows) ==
  /\ event' = event \ rows
  /\ UNCHANGED <<delegation, backfilled>>

(* DELETE FROM event; ON DELETE CASCADE takes the index entries along. *)
DeleteRows(rows) ==
  /\ event' = event \ rows
  /\ delegation' = {entry \in delegation : entry[1] \notin Ids(rows)}
  /\ UNCHANGED backfilled

(* INSERT INTO event, which the unique index on id refuses for a known id. *)
InsertRow(ev) ==
  /\ ev.id \notin Ids(event)
  /\ event' = event \cup {Row(ev)}
  /\ UNCHANGED <<delegation, backfilled>>

(* INSERT OR IGNORE INTO delegation; the foreign key refuses, and the code *)
(* only logs, an entry whose row is not there.                             *)
IndexDelegator(entry) ==
  /\ delegation' = IF entry[1] \in Ids(event) THEN delegation \cup {entry}
                   ELSE delegation
  /\ UNCHANGED <<event, backfilled>>

(* UPDATE backfilled_delegation SET done = 1. *)
MarkBackfilled ==
  /\ backfilled' = TRUE
  /\ UNCHANGED <<event, delegation>>

-----------------------------------------------------------------------------
StorageTypeOK ==
  /\ event \subseteq {Row(ev) : ev \in Event}
  /\ delegation \subseteq UNION {IndexEntries(ev) : ev \in Event}
  /\ backfilled \in BOOLEAN

(***************************************************************************)
(* Every entry of the delegation index points at a stored event that       *)
(* carries a delegation tag naming that delegator.                         *)
(***************************************************************************)
DelegationSound ==
  \A entry \in delegation :
    \E r \in event : r.id = entry[1] /\ entry[2] \in Delegators(r)
=============================================================================
