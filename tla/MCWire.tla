------------------------------- MODULE MCWire -------------------------------
(***************************************************************************)
(* Instances of Wire for TLC.  The builder, the names and the contents are *)
(* of the code's sizes; the limits of the parsers are small.               *)
(***************************************************************************)
EXTENDS Wire, TLC

Shorts(n)   == << <<Short, n>> >>
Controls(n) == << <<Control, n>> >>

(* Names of 100 characters that take all of the margin, and a byte more.   *)
MCSubscriberId ==
  {Chars(3), Chars(100), Shorts(46) \o Chars(54), Shorts(47) \o Chars(53), Shorts(100)}

-----------------------------------------------------------------------------
(* Conditions, the name of each an element of a tag. *)
ThePart(key, ops, value) == [key |-> key, ops |-> ops, value |-> value, plain |-> TRUE]

MCPartsOf ==
  << >>                :> << >>
  @@ <<"kind=1">>      :> << ThePart("kind", <<"=">>, 1) >>
  @@ <<"kind=01">>     :> << [ThePart("kind", <<"=">>, 1) EXCEPT !.plain = FALSE] >>
  @@ <<"kinds">>       :> << ThePart("kind", <<"=">>, 1), ThePart("kind", <<"=">>, 2) >>
  @@ <<"window">>      :> << ThePart("created_at", <<">">>, 3), ThePart("created_at", <<"<">>, 6) >>
  @@ <<"odd">>         :> << ThePart("created_at", <<"<", "=">>, 3), ThePart("created_at", <<">", ">">>, 9) >>
  @@ <<"kind=1&long">> :> << ThePart("kind", <<"=">>, 1) >>

MCLengthOf == [c \in DOMAIN MCPartsOf |-> IF c = <<"kind=1&long">> THEN 430 ELSE 30]

MCToken == {<< <<"alice">>, "bob", c, <<"sig">> >> : c \in DOMAIN MCPartsOf}

-----------------------------------------------------------------------------
(* Tags, and the events that carry them. *)
Delegated(conditions, sig) == <<DELEGATION_TAG, <<"alice">>, conditions, <<sig>> >>

Ev(list, kind, created_at) ==
  [pubkey |-> "bob", kind |-> kind, created_at |-> created_at, tags |-> list,
   gap |-> 0, blank |-> "blank", genuine |-> TRUE, content |-> Chars(5), tags_len |-> 100]

Plainly(list)   == Ev(list, 1, 5)
OfTag(n)        == <<[i \in 1..n |-> <<"v">>]>>
Repeated(tag_, n) == [i \in 1..n |-> tag_]

MCMaxTags == 3
MCMaxElements == 5
MCMaxElement == 3

TagLists ==
  { << >>, << << >> >>, << << >>, Delegated(<<"kind=1">>, "sig") >>,
    << <<DELEGATION_TAG, <<"alice">>, <<"kind=1">> >> >>,
    << Append(Delegated(<<"kind=1">>, "forged"), <<"v">>) >>,
    << Append(Delegated(<<"kinds">>, "sig"), <<"v">>), Delegated(<<"window">>, "sig") >>,
    << << <<"t">>, <<"a", "\\", "n", "b">> >>, << <<"t">>, <<"\\", "\\">> >> >>,
    << << <<"t">>, <<"v", "v", "\\", "v">> >> >>, << << <<"t">>, <<"v", "v", "v", "v">> >> >>,
    OfTag(MCMaxElements + 1),
    Repeated(<< <<"v">> >>, MCMaxTags), Repeated(<< <<"v">> >>, MCMaxTags + 1) }

Stretched ==
  {[Plainly(list) EXCEPT !.gap = gap] : list \in TagLists, gap \in {0, 2, 3, 4, 5, 7}}

Conditioned ==
  {Ev(<< Delegated(c, "sig") >>, kind, at) : c \in DOMAIN MCPartsOf, kind \in 1..3, at \in 2..6}

Forged == {[Plainly(<< >>) EXCEPT !.genuine = FALSE]}

(* An event of a given size: blanks make the text of its tags that long.   *)
Sized(content, size) ==
  LET empty == [Plainly(<< >>) EXCEPT !.content = content, !.tags_len = 0, !.gap = 2]
  IN  [empty EXCEPT !.tags_len = size - json_serialized_event_size(empty)]

Large ==
  {Sized(content, 65536 - 160 + d) : content \in {Chars(0), Chars(16384), Shorts(16384)}, d \in -1..1}
    \cup {[Plainly(<< >>) EXCEPT !.content = content] :
            content \in {Chars(16385), Shorts(16384) \o Chars(1), Controls(10000)}}

MCPublished == Stretched \cup Conditioned \cup Forged \cup Large

(* What Checking cannot get past, and what the builder cuts. *)
Returned == {[Plainly(<< Repeated(<<"v">>, 2), Repeated(<<"v">>, 2) >>) EXCEPT !.gap = gap, !.blank = blank] :
               gap \in 2..11, blank \in {"blank", "return"}}
Belled   == {[Plainly(<< >>) EXCEPT !.content = content] :
               content \in {Chars(n) : n \in 0..9} \cup {Chars(n) \o Controls(1) : n \in 0..9}}

-----------------------------------------------------------------------------
(* Filters. *)
Hex(v)   == [is |-> "hex", of |-> v]
Word(v)  == [is |-> "text", of |-> v]
Number(n)   == [is |-> "int", of |-> n]
Long     == [is |-> "long", of |-> 1000000]
Other    == [is |-> "other", of |-> 0]

Field(name, shape, items) == [name |-> name, shape |-> shape, items |-> items]
Object(fields)            == [is |-> "object", fields |-> fields]
Scalar(name, item)        == Object(<<Field(name, "scalar", <<item>>)>>)
Listed(name, items)       == Object(<<Field(name, "list", items)>>)

NotAFilter == [is |-> "string", fields |-> << >>]
Unread     == [is |-> "unread", fields |-> << >>]

A == Hex("a")
B == Hex("b")
C == Hex("c")
D == Hex("d")

MCTagField == {"#e", "#p", "#t", "#r"}

Whole == Object(<<Field("authors", "list", <<A>>), Field("kinds", "list", <<Number(1), Number(0)>>),
                  Field("#p", "list", <<B>>), Field("#t", "list", <<Word("w"), B>>),
                  Field("since", "scalar", <<Number(3)>>), Field("until", "scalar", <<Long>>),
                  Field("search", "scalar", <<Word("w")>>), Field("limit", "scalar", <<Number(4)>>),
                  Field("colour", "scalar", <<Other>>)>>)

Objects ==
  { Whole, Object(<< >>), NotAFilter, Unread,
    Listed("ids", <<A, B, C>>), Listed("ids", <<A, Word("w")>>),
    Listed("ids", << >>), Scalar("authors", A),
    Object(<<Field("authors", "object", <<A>>)>>), Object(<<Field("authors", "object", << >>)>>),
    Listed("ids", <<A, B, C, D>>), Listed("authors", <<A, B, C>>),
    Listed("kinds", <<Number(1), Number(2), Number(3)>>),
    Listed("kinds", <<Number(1), Number(2), Number(3), Number(4)>>),
    Listed("kinds", <<Number(1), Long>>), Listed("#r", <<Word("w")>>), Listed("#", <<Word("w")>>), Listed("#e", <<A, Word("w")>>),
    Listed("#t", <<A, B>>), Listed("#t", <<A, B, Word("w")>>), Listed("#t", << >>),
    Scalar("limit", Number(9)), Scalar("limit", Number(-1)), Scalar("limit", Long), Scalar("limit", Word("w")),
    Scalar("until", Number(-1)), Scalar("search", Number(1)) }

Request(is, id, wrapped, values) == [is |-> is, id |-> id, wrapped |-> wrapped, values |-> values]

Lists ==
  {<<object>> : object \in Objects} \cup {<<first, Whole>> : first \in Objects}
    \cup {<<Whole, Scalar("limit", Number(9)), Listed("ids", <<A>>)>>,
          <<NotAFilter, Listed("ids", <<Other>>), Whole, NotAFilter, Scalar("limit", Number(9)), Unread>>,
          << >>}

MCRequested ==
  {Request(is, Chars(3), wrapped, list) : is \in {"REQ", "COUNT"}, wrapped \in BOOLEAN, list \in Lists}
    \cup {Request(is, id, TRUE, <<Whole>>) :
            is \in {"REQ", "COUNT"},
            id \in {Chars(100), Chars(101), Controls(100), Shorts(100), Chars(65000), Shorts(40000)}}

None == {}
=============================================================================
