---------------------------- MODULE JsonBuilder ----------------------------
(***************************************************************************)
(* The JSON writer of json_util.c: one buffer of fixed size, to which the  *)
(* callers append piece by piece.  Every piece is guarded by the room that *)
(* is left, and one that does not fit is left out without a word.          *)
(*                                                                         *)
(* What is written is measured, not spelt out: a string is a sequence of   *)
(* runs <<width, count>>, so many characters that take width bytes each    *)
(* once they are escaped.  A caller is the list of builder calls it makes. *)
(***************************************************************************)
EXTENDS Integers, Sequences

CONSTANT BufferSize   \* JSON_BUILDER_BUFFER_SIZE: 65536

ASSUME BufferHasRoom == BufferSize \in Nat /\ BufferSize > 1

VARIABLES
  builder,  \* "ready", "calls": between two calls, "string": escaping a value
  pos,      \* builder->pos
  last,     \* the last byte is one of [ { : ("open") or another ("other")
  calls,    \* the calls still to be made
  rest,     \* the runs still to be escaped
  whole,    \* history: nothing was left out so far
  cut       \* history: a NUL byte stands among what was written

builderVars == <<builder, pos, last, calls, rest, whole, cut>>

-----------------------------------------------------------------------------
(* Bytes per character of a string that is escaped. *)
Plain   == 1   \* as it is
Short   == 2   \* \" \\ \b \f \n \r \t
Control == 6   \* \u00XX

Width == {Plain, Short, Control}
Text  == Seq(Width \X Nat)

Chars(n) == << <<Plain, n>> >>

escaped_length[s \in Text] ==
  IF s = << >> THEN 0 ELSE Head(s)[1] * Head(s)[2] + escaped_length[Tail(s)]

(* A number as snprintf prints it, of ten digits at most. *)
Fills(n, d)  == (d > 1 => ~(n < 10^(d - 1))) /\ (d < 10 => n < 10^d)
Magnitude(n) == CHOOSE d \in 1..10 : Fills(n, d)
Digits(n)    == IF n < 0 THEN 1 + Magnitude(-n) ELSE Magnitude(n)

-----------------------------------------------------------------------------
(***************************************************************************)
(* The calls.  A piece asks for room for need bytes and takes width; a     *)
(* string has a key, of length 0 when it is an element of an array.        *)
(***************************************************************************)
Piece(comma, need, width, opens) ==
  [op |-> "piece", comma |-> comma, need |-> need, width |-> width, opens |-> opens]

start_array  == Piece(TRUE, 1, 1, TRUE)
start_object == Piece(TRUE, 1, 1, TRUE)
end_array    == Piece(FALSE, 1, 1, FALSE)
end_object   == Piece(FALSE, 1, 1, FALSE)
append_bool(value) == IF value THEN Piece(TRUE, 4, 4, FALSE) ELSE Piece(TRUE, 5, 5, FALSE)
key_number(key, n) == Piece(TRUE, 128, key + 3 + Digits(n), FALSE)
append_string(value) == [op |-> "string", key |-> 0, value |-> value]
key_string(key, value) == [op |-> "string", key |-> key, value |-> value]
append_tags(length) == [op |-> "tags", length |-> length]

(* An event has kind, created_at, the length of its tags and its content. *)
json_serialize_event(ev) ==
  << start_object, key_string(2, Chars(64)), key_string(6, Chars(64)),
     key_number(10, ev.created_at), key_number(4, ev.kind), append_tags(ev.tags_len),
     key_string(7, ev.content), key_string(3, Chars(128)), end_object >>

(* Mutant: a comma is forgotten. *)
SizeWithoutComma(ev) ==
  1 + (7 + 64) + (11 + 64) + (1 + 13 + Digits(ev.created_at)) + (1 + 7 + Digits(ev.kind))
    + (1 + 7 + ev.tags_len) + (12 + escaped_length[ev.content]) + (9 + 128) + 1

(* Segment by segment, with the comma, the key and the quotes of each. *)
json_serialized_event_size(ev) ==
  1 + (5 + 1 + 64 + 1) + (1 + 9 + 1 + 64 + 1)
    + (1 + 13 + Digits(ev.created_at)) + (1 + 7 + Digits(ev.kind))
    + (1 + 7 + ev.tags_len)
    + (1 + 10 + 1 + escaped_length[ev.content] + 1) + (1 + 6 + 1 + 128 + 1) + 1

-----------------------------------------------------------------------------
(* Mutant: the last byte counts as room, and the NUL has none. *)
SpaceToTheEnd(p, needed) == p + needed <= BufferSize

ensure_space(p, needed) == p + needed < BufferSize

(* json_builder_add_comma: where the next piece begins. *)
CommaIsDue == last # "open"
AfterComma == IF CommaIsDue /\ ensure_space(pos, 1) THEN pos + 1 ELSE pos
NoneLost   == CommaIsDue => ensure_space(pos, 1)

(* json_builder_start, for a message of these calls. *)
StartMessage(message) ==
  /\ builder = "ready"
  /\ builder' = "calls" /\ calls' = message /\ rest' = << >>
  /\ pos' = 1 /\ last' = "open"
  /\ whole' = TRUE /\ cut' = FALSE

Due(op) == builder = "calls" /\ calls # << >> /\ Head(calls).op = op

(* A bracket, a number or a word: all of it or nothing. *)
AppendPiece ==
  /\ Due("piece")
  /\ LET piece == Head(calls)
         from  == IF piece.comma THEN AfterComma ELSE pos
         fits  == ensure_space(from, piece.need)
     IN  /\ pos' = IF fits THEN from + piece.width ELSE from
         /\ last' = IF fits THEN (IF piece.opens THEN "open" ELSE "other")
                    ELSE IF from # pos THEN "other" ELSE last
         /\ whole' = (whole /\ fits /\ (piece.comma => NoneLost))
  /\ calls' = Tail(calls)
  /\ UNCHANGED <<builder, rest, cut>>

(* The tags go out as they came in, or as null when they do not fit. *)
AppendTags ==
  /\ Due("tags")
  /\ LET length == Head(calls).length
         keyed  == ensure_space(AfterComma, 7)
         value  == IF keyed THEN AfterComma + 7 ELSE AfterComma
         fits   == ensure_space(value, length)
         null   == IF ~keyed /\ CommaIsDue /\ ensure_space(value, 1) THEN value + 1 ELSE value
         nulled == ensure_space(null, 4)
     IN  /\ pos' = IF fits THEN value + length ELSE IF nulled THEN null + 4 ELSE null
         /\ last' = IF fits \/ nulled THEN "other" ELSE IF keyed THEN "open"
                    ELSE IF null # pos THEN "other" ELSE last
         /\ whole' = (whole /\ NoneLost /\ keyed /\ fits)
  /\ calls' = Tail(calls)
  /\ UNCHANGED <<builder, rest, cut>>

(* Where the key of a string ends: snprintf writes what there is room for. *)
AfterKey(from, key) ==
  IF key = 0 THEN from
  ELSE IF from + 1 + key + 2 < BufferSize THEN from + 1 + key + 2 ELSE BufferSize - 1

(* The key and the opening quote of a string. *)
OpenString ==
  /\ Due("string")
  /\ LET key    == Head(calls).key
         keyed  == key = 0 \/ ensure_space(AfterComma, 4)
         from   == IF keyed THEN AfterKey(AfterComma, key) ELSE AfterComma
         quoted == keyed /\ ensure_space(from, 2)
     IN  /\ pos' = IF quoted THEN from + 1 ELSE from
         /\ IF quoted
            THEN builder' = "string" /\ rest' = Head(calls).value /\ UNCHANGED calls
            ELSE calls' = Tail(calls) /\ UNCHANGED <<builder, rest>>
         /\ whole' = (whole /\ NoneLost /\ quoted)
         /\ last' = IF quoted THEN "other"
                    ELSE IF keyed /\ key > 0 THEN "open"
                    ELSE IF AfterComma # pos THEN "other" ELSE last
  /\ UNCHANGED cut

(***************************************************************************)
(* json_builder_escape_string, a run at a time: as many characters as fit, *)
(* and the rest of the string is given up with the first that does not.    *)
(* Of \u00XX snprintf writes five bytes and a NUL in its six.              *)
(***************************************************************************)
EscapeRun ==
  /\ builder = "string" /\ rest # << >>
  /\ LET run == Head(rest)
     IN  \E n \in 0..run[2] :
           /\ n > 0 => ensure_space(pos + run[1] * (n - 1), run[1])
           /\ n < run[2] => ~ensure_space(pos + run[1] * n, run[1])
           /\ pos' = pos + run[1] * n
           /\ rest' = IF n < run[2] THEN << >> ELSE Tail(rest)
           /\ whole' = (whole /\ n = run[2])
           /\ cut' = (cut \/ (run[1] = Control /\ n > 0))
  /\ UNCHANGED <<builder, last, calls>>

CloseString ==
  /\ builder = "string" /\ rest = << >>
  /\ pos' = IF ensure_space(pos, 1) THEN pos + 1 ELSE pos
  /\ whole' = (whole /\ ensure_space(pos, 1))
  /\ builder' = "calls" /\ calls' = Tail(calls)
  /\ UNCHANGED <<last, rest, cut>>

(* json_builder_finish: the bracket, and a NUL at pos, over the last byte  *)
(* if there is no other room for it.                                       *)
FinishMessage ==
  /\ builder = "calls" /\ calls = << >>
  /\ pos' = IF ensure_space(pos, 1) THEN pos + 1 ELSE pos
  /\ whole' = (whole /\ ensure_space(pos, 1))
  /\ builder' = "ready"
  /\ UNCHANGED <<last, calls, rest, cut>>

BuilderInit ==
  /\ builder = "ready" /\ pos = 1 /\ last = "open"
  /\ calls = << >> /\ rest = << >> /\ whole = TRUE /\ cut = FALSE

(* It is a local variable of its caller: nothing is left of it. *)
BuilderGone ==
  /\ pos' = 1 /\ last' = "open" /\ whole' = TRUE /\ cut' = FALSE
  /\ UNCHANGED <<builder, calls, rest>>

Building ==
  AppendPiece \/ AppendTags \/ OpenString \/ EscapeRun \/ CloseString \/ FinishMessage

-----------------------------------------------------------------------------
(***************************************************************************)
(* Nothing is written past the buffer, whatever is appended: there is room *)
(* for the NUL at pos after every call (json_util.c:462, 475: "must never  *)
(* run past the 64 KiB buffer", "so pos never passes the buffer end").     *)
(***************************************************************************)
NeverOverruns == pos < BufferSize
=============================================================================
