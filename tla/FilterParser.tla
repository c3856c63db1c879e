---------------------------- MODULE FilterParser ----------------------------
(***************************************************************************)
(* The filters of a REQ or a COUNT: json_parse_filter (json_util.c), one   *)
(* JSON object after the other, and collect_filters (server.c) over the    *)
(* message that holds them.                                                *)
(*                                                                         *)
(* An object is a sequence of fields [name, shape, items]: shape is "list",*)
(* "object" or "scalar", and items is what mg_json_next finds in it, or    *)
(* the scalar itself.  An item [is, of] is a string of 64 hex digits       *)
(* ("hex"), another string ("text"), a number an int can hold ("int"), one *)
(* it cannot ("long"), or anything else ("other").                         *)
(***************************************************************************)
EXTENDS Integers, Sequences, FiniteSets, Functions

CONSTANTS
  TagField,     \* the names of fields that begin with # and go on
  MaxItems,     \* items of a list, elements of a tag with its name: 256
  MaxRows,      \* the limit no filter goes beyond, and the default: 500
  MaxFilters,   \* MAX_FILTERS: 10
  MaxValues     \* MAX_JSON_ARRAY_ELEMENTS: 128

ASSUME FilterLimits ==
  MaxItems \in Nat /\ MaxRows \in Nat /\ MaxFilters \in Nat /\ MaxValues \in Nat

ASSUME TagFieldsAreTheirs ==
  /\ {"#e", "#p"} \subseteq TagField
  /\ TagField \cap {"ids", "authors", "kinds", "since", "until", "limit", "search"} = {}

VARIABLES
  collecting,  \* collect_filters is in its loop
  asked,       \* the values of the message that should be filters
  filters      \* those that were read so far

filterVars == <<collecting, asked, filters>>

-----------------------------------------------------------------------------
(* What mongoose finds in a message: lists, and one item in a scalar.  No  *)
(* object has two fields of one name: json_parse_filter starts a list anew *)
(* with the second and counts on from the first, which is not modelled.    *)
IsSequence(s) == s \in Seq(Range(s))

IsField(field) ==
  /\ IsSequence(field.items) /\ (field.shape = "scalar" => Len(field.items) = 1)
  /\ \A item \in Range(field.items) : item.is \in {"int", "long"} => item.of \in Int

IsValue(value) ==
  /\ IsSequence(value.fields) /\ \A field \in Range(value.fields) : IsField(field)
  /\ \A i, j \in DOMAIN value.fields : value.fields[i].name = value.fields[j].name => i = j

IsMessage(message) ==
  IsSequence(message.values) /\ \A value \in Range(message.values) : IsValue(value)

-----------------------------------------------------------------------------
Unfiltered == [ids |-> {}, authors |-> {}, kinds |-> {}, tags |-> {},
               since |-> 0, until |-> 0, limit |-> MaxRows, search |-> ""]

Values(field)  == {item.of : item \in Range(field.items)}
AllAre(field, classes) == \A item \in Range(field.items) : item.is \in classes

(* What mg_json_next walks: it finds nothing in a scalar. *)
Walked(field) == IF field.shape = "scalar" THEN [field EXCEPT !.items = << >>] ELSE field

(***************************************************************************)
(* The fields json_parse_filter knows, as far as it accepts them.  A list  *)
(* that is none is read as an empty one, and an empty one restricts        *)
(* nothing; a tag must have a value, and those of #e and #p are hex.       *)
(***************************************************************************)
IsList(field)    == field.name \in {"ids", "authors", "kinds"}
IsTag(field)     == field.name \in TagField
IsNumber(field)  == field.name \in {"since", "until", "limit"}
IsSearch(field)  == field.name = "search"

ListIsAccepted(field) ==
  LET walked == Walked(field)
  IN  /\ walked.shape = "object" => walked.items = << >>
      /\ Len(walked.items) <= MaxItems
      /\ AllAre(walked, IF field.name = "kinds" THEN {"int"} ELSE {"hex"})

(* Mutant: the name of a tag does not count as one of its elements. *)
TagIsAcceptedWithoutName(field) ==
  LET walked == Walked(field)
  IN  /\ walked.shape = "list" /\ Len(walked.items) \in 1..MaxItems
      /\ AllAre(walked, IF field.name \in {"#e", "#p"} THEN {"hex"} ELSE {"hex", "text"})

TagIsAccepted(field) ==
  LET walked == Walked(field)
  IN  /\ walked.shape = "list" /\ Len(walked.items) \in 1..MaxItems - 1
      /\ AllAre(walked, IF field.name \in {"#e", "#p"} THEN {"hex"} ELSE {"hex", "text"})

NumberIsAccepted(field) ==
  /\ field.shape = "scalar" /\ AllAre(field, {"int", "long"})
  /\ field.name = "limit" => field.items[1].of >= 0

Accepts(field) ==
  /\ IsList(field) => ListIsAccepted(field)
  /\ IsTag(field) => TagIsAccepted(field)
  /\ IsNumber(field) => NumberIsAccepted(field)
  /\ IsSearch(field) => field.shape = "scalar" /\ AllAre(field, {"hex", "text"})

(* What a field sets in a filter: itself, the values of a list, one more   *)
(* tag, or a limit that is cut to the greatest one.                        *)
WithValue(f, field) == [f EXCEPT ![field.name] = field.items[1].of]
WithList(f, field)  == [f EXCEPT ![field.name] = Values(Walked(field))]
WithTag(f, field)   == [f EXCEPT !.tags = @ \cup {<<field.name, Values(field)>>}]
WithLimit(f, field) == [f EXCEPT !.limit = IF field.items[1].of > MaxRows THEN MaxRows
                                         ELSE field.items[1].of]

(* Mutant: a limit beyond the greatest one is taken as it is. *)
WithFieldUnbounded(f, field) ==
  CASE IsList(field) -> WithList(f, field)
    [] IsTag(field)  -> WithTag(f, field)
    [] IsNumber(field) \/ IsSearch(field) -> WithValue(f, field)
    [] OTHER -> f

WithField(f, field) ==
  CASE field.name = "limit" -> WithLimit(f, field)
    [] IsList(field) -> WithList(f, field)
    [] IsTag(field)  -> WithTag(f, field)
    [] field.name \in {"since", "until"} \/ IsSearch(field) -> WithValue(f, field)
    [] OTHER -> f

(* The filter an object is read as, if every field of it is accepted. *)
json_parse_filter_ok(object) ==
  object.is = "object" /\ \A field \in Range(object.fields) : Accepts(field)

json_parse_filter(object) ==
  LET read[n \in 0..Len(object.fields)] ==
        IF n = 0 THEN Unfiltered ELSE WithField(read[n - 1], object.fields[n])
  IN  read[Len(object.fields)]

-----------------------------------------------------------------------------
(***************************************************************************)
(* collect_filters.  The filters stand in one array or behind one another; *)
(* what is no filter is passed over, and so is all beyond MAX_FILTERS.     *)
(* json_array_parse keeps no more than MaxValues values, and none of a     *)
(* list that has a null or a fraction ("unread") among them.               *)
(***************************************************************************)
FirstOf(s, n) == SubSeq(s, 1, IF Len(s) < n THEN Len(s) ELSE n)

json_array_parse(values, room) ==
  LET kept == FirstOf(values, room)
  IN  IF \E value \in Range(kept) : value.is = "unread" THEN << >> ELSE kept

(* The method and the name come first in an array that is not wrapped.     *)
IsReadable(message) ==
  message.wrapped \/ message.values = << >> \/ json_array_parse(message.values, MaxValues - 2) # << >>

Candidates(message) ==
  json_array_parse(message.values, IF message.wrapped THEN MaxValues ELSE MaxValues - 2)

StartCollecting(message) ==
  /\ ~collecting
  /\ collecting' = TRUE /\ asked' = Candidates(message) /\ filters' = << >>

IsCollecting == collecting /\ asked # << >> /\ Len(filters) < MaxFilters

CollectFilter ==
  /\ IsCollecting
  /\ filters' = IF json_parse_filter_ok(Head(asked))
                THEN Append(filters, json_parse_filter(Head(asked))) ELSE filters
  /\ asked' = Tail(asked)
  /\ UNCHANGED collecting

(* The subscription takes the filters, or COUNT releases them. *)
FiltersTaken ==
  /\ collecting /\ ~IsCollecting
  /\ collecting' = FALSE /\ asked' = << >> /\ filters' = << >>

CollectorInit == collecting = FALSE /\ asked = << >> /\ filters = << >>

-----------------------------------------------------------------------------
(***************************************************************************)
(* What a client asks for with an object of proper fields: no one else's   *)
(* criteria and no less than its own, and no more rows than it can use.    *)
(***************************************************************************)
IsProper(object) ==
  \A field \in Range(object.fields) :
    IsList(field) \/ IsTag(field) => field.shape = "list" /\ field.items # << >>

SaysAsMuch(filter, object) ==
  LET Has(name)   == \E field \in Range(object.fields) : field.name = name
      Field(name) == CHOOSE field \in Range(object.fields) : field.name = name
  IN  /\ \A name \in {"ids", "authors", "kinds"} :
           filter[name] = IF Has(name) THEN Values(Field(name)) ELSE {}
      /\ filter.tags = {<<name, Values(Field(name))>> : name \in {n \in TagField : Has(n)}}
      /\ \A name \in {"since", "until"} :
           filter[name] = IF Has(name) THEN Field(name).items[1].of ELSE 0
      /\ filter.limit \in 0..MaxRows
      /\ Has("limit") => filter.limit <= Field("limit").items[1].of

(***************************************************************************)
(* No filter takes more values than its arrays hold: a tag has MaxItems    *)
(* slots, one of them its name's (json_util.c:601-602).                    *)
(***************************************************************************)
FilterFits(filter) ==
  /\ \A name \in {"ids", "authors", "kinds"} : Cardinality(filter[name]) <= MaxItems
  /\ \A t \in filter.tags : Cardinality(t[2]) + 1 <= MaxItems
  /\ filter.limit \in 0..MaxRows
=============================================================================
