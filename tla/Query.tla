------------------------------- MODULE Query -------------------------------
(***************************************************************************)
(* Filters, and the two ways the relay matches events against them:        *)
(* send_records compiles a filter to SQL over the stored rows, and         *)
(* matches_filter tests an event in memory, once for what is broadcast and *)
(* once more for every row send_records streams.                           *)
(*                                                                         *)
(* A filter is a record [ids, authors, kinds, tags, since, until, limit]:  *)
(* an empty set is an absent list, 0 an absent time, and tags is a set of  *)
(* pairs <<name, values>>.  json_parse_filter lets whole ids and public    *)
(* keys through only, so a prefix comparison is an equality.  The search   *)
(* string is not carried: content is not.                                  *)
(***************************************************************************)
EXTENDS Storage, FiniteSets

CONSTANTS
  MaxLimit,    \* rows one filter may stream: 500
  MaxParams,   \* parameters one SQL statement may bind: 256
  MaxAuthors   \* authors all filters of one query may name: 1024

ASSUME QueryLimitsAreNaturals ==
  MaxLimit \in Nat \ {0} /\ MaxParams \in Nat /\ MaxAuthors \in Nat

-----------------------------------------------------------------------------
(***************************************************************************)
(* server.c matches_filter, on an event or on a row parsed back.           *)
(***************************************************************************)
matches_filter(f, ev) ==
  /\ f.since # 0 => ev.created_at >= f.since
  /\ f.until # 0 => ev.created_at <= f.until
  /\ f.ids # {} => ev.id \in f.ids
  /\ f.authors # {} => ev.pubkey \in f.authors
  /\ f.kinds # {} => ev.kind \in f.kinds
  /\ \A tag \in f.tags : \E value \in tag[2] : nip_event_has_tag(ev, tag[1], value)

MatchesAny(filters, ev) == \E i \in DOMAIN filters : matches_filter(filters[i], ev)

-----------------------------------------------------------------------------
(***************************************************************************)
(* The WHERE clause.  An author answers for what was published on his      *)
(* behalf, by way of the index.  A tag is looked for in the text: the pair *)
(* and nothing more, without blanks or with one behind the comma, in small *)
(* or capital letters, and as the text spells it (append_tag_like_condition).*)
(***************************************************************************)
HasPair(row, name, value) ==
  \E tag \in Written(row) :
    /\ Len(tag.raw) = 2 /\ tag.blank \in {"none", "space"}
    /\ Fold(tag.raw[1]) = Fold(name) /\ Fold(tag.raw[2]) = Fold(value)

(* Mutant: since excludes its own second. *)
SelectsAfterSince(f, row) ==
  /\ f.ids # {} => row.id \in f.ids
  /\ f.authors # {} => row.pubkey \in f.authors
  /\ f.kinds # {} => row.kind \in f.kinds
  /\ f.since > 0 => row.created_at > f.since
  /\ f.until > 0 => row.created_at <= f.until
  /\ \A tag \in f.tags : \E value \in tag[2] : HasPair(row, tag[1], value)

Selects(f, row) ==
  /\ f.ids # {} => row.id \in f.ids
  /\ f.authors # {} =>
       \/ row.pubkey \in f.authors
       \/ \E author \in f.authors : <<row.id, author>> \in delegation
  /\ f.kinds # {} => row.kind \in f.kinds
  /\ f.since > 0 => row.created_at >= f.since
  /\ f.until > 0 => row.created_at <= f.until
  /\ \A tag \in f.tags : \E value \in tag[2] : HasPair(row, tag[1], value)

Selected(f) == {row \in event : Selects(f, row)}

(***************************************************************************)
(* What a filter binds: authors twice, tag values once for each spacing of *)
(* the JSON text.  The 2048 bytes of the WHERE clause are a second cap of  *)
(* the same kind and the same effect.                                      *)
(***************************************************************************)
Parameters(f) ==
  Cardinality(f.ids) + 2 * Cardinality(f.authors) + Cardinality(f.kinds)
    + 2 * Cardinality(UNION {{tag} \X tag[2] : tag \in f.tags})

(* A streaming query binds its LIMIT too. *)
Compiles(f, do_count) == Parameters(f) + (IF do_count THEN 0 ELSE 1) <= MaxParams

TooComplex(filters) ==
  Cardinality(UNION {{i} \X filters[i].authors : i \in DOMAIN filters}) > MaxAuthors

(* The filters send_records gets to: the first that fails ends the query. *)
Reached(filters, do_count) ==
  IF TooComplex(filters) THEN {}
  ELSE {i \in DOMAIN filters : \A j \in 1..i : Compiles(filters[j], do_count)}

-----------------------------------------------------------------------------
(***************************************************************************)
(* ORDER BY created_at DESC LIMIT limit + 1, the extra row only counted.   *)
(***************************************************************************)
Limit(f) == IF f.limit \in 1..MaxLimit THEN f.limit ELSE MaxLimit

(* Mutant: no extra row is fetched, so no more are ever seen. *)
HasMoreUnseen(f) == FALSE

HasMore(f) == Cardinality(Selected(f)) > Limit(f)

(* The newest of the rows, as many as are read. *)
Newest(rows) ==
  {read \in SUBSET rows : \A r \in read, s \in rows \ read : r.created_at >= s.created_at}

Pages(f) ==
  {page \in Newest(Selected(f)) :
     /\ Cardinality(page) <= Limit(f)
     /\ page = Selected(f) \/ Cardinality(page) = Limit(f)}

(* A scan that breaks off passes for one that ended: [rows, more]. *)
Scans(f, breaks) ==
  {[rows |-> page, more |-> HasMore(f)] : page \in Pages(f)} \cup
  IF breaks
  THEN {[rows |-> rows, more |-> FALSE] : rows \in UNION {Newest(page) : page \in Pages(f)}}
  ELSE {}

(* What a query may stream, a scan for each filter it gets to. *)
Streams(filters, breaks) ==
  LET reached == Reached(filters, FALSE)
  IN  {stream \in [reached -> UNION {Scans(filters[i], breaks) : i \in reached}] :
         \A i \in reached : stream[i] \in Scans(filters[i], breaks)}

(* NIP-45: the counts of the filters, added up; 0 when one of them fails. *)
CountRecords(filters) ==
  IF Reached(filters, TRUE) = DOMAIN filters
  THEN Cardinality(UNION {{i} \X Selected(filters[i]) : i \in DOMAIN filters})
  ELSE 0
=============================================================================
