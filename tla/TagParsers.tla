----------------------------- MODULE TagParsers -----------------------------
(***************************************************************************)
(* What an event goes through before it is believed: the gate of           *)
(* json_parse_event (json_util.c validate_event_tags), which walks the     *)
(* tags with mongoose, and check_event (crypto.c), which walks their text  *)
(* once more by a parser of its own to verify the delegations in them.     *)
(*                                                                         *)
(* An element of a tag is kept as it stands in the text, a sequence of     *)
(* symbols.  Where it has an escape, the backslash and one symbol more, a  *)
(* symbol is one character; elsewhere it may be a run of plain ones.  A    *)
(* text is a sequence of tokens [is, raw].                                 *)
(***************************************************************************)
EXTENDS Delegation

CONSTANTS
  NoEvent,       \* no event is being checked
  MaxTags,       \* tags the gate lets through: 100
  MaxElements,   \* elements of a tag, and tags of the second parser: 256
  MaxElement     \* length of an element once it is read: 512

ASSUME ParserLimits ==
  /\ MaxTags \in Nat /\ MaxElements \in Nat \ {0} /\ MaxElement \in Nat
  /\ MaxTags <= MaxElements

VARIABLES
  phase,    \* "rest", or the loop parse_tags_json or check_event is in
  checked,  \* the event check_event is called with
  text,     \* json_str: the text of its tags
  p,        \* where the parser stands in it
  tag,      \* the elements of the tag that is being read
  tags,     \* the tags read so far
  next,     \* the tag whose delegation is looked at next
  verdict   \* what came of it; "none" while it is being found out

parserVars == <<phase, checked, text, p, tag, tags, next, verdict>>

-----------------------------------------------------------------------------
(* The tags of an event are lists of texts, and there is one blank. *)
IsWritten(ev) ==
  /\ ev.tags \in Seq(Seq(Seq(STRING)))
  /\ ev.gap \in Nat /\ ev.blank \in {"blank", "return"}

(***************************************************************************)
(* The text of an event's tags as its author's client wrote it, with one   *)
(* blank at the event's gap, or none if that is 0.                         *)
(***************************************************************************)
Sign(is)    == [is |-> is, raw |-> << >>]
Quoted(raw) == [is |-> "string", raw |-> raw]

(* The texts from the n-th on, and the bracket that closes them. *)
Closing(texts, n) ==
  LET from[i \in 1..Len(texts) + 1] ==
        IF i > Len(texts) THEN <<Sign("]")>>
        ELSE (IF i = 1 THEN << >> ELSE <<Sign("comma")>>) \o (texts[i] \o from[i + 1])
  IN  from[n]

Bracketed(texts) == <<Sign("[")>> \o Closing(texts, 1)

Elements(t) == [j \in DOMAIN t |-> <<Quoted(t[j])>>]
TagTexts(ev) == [i \in DOMAIN ev.tags |-> Bracketed(Elements(ev.tags[i]))]

TextOf(ev) ==
  LET plain == Bracketed(TagTexts(ev))
  IN  IF ev.gap \in 2..Len(plain)
      THEN SubSeq(plain, 1, ev.gap - 1) \o <<Sign(ev.blank)>> \o SubSeq(plain, ev.gap, Len(plain))
      ELSE plain

-----------------------------------------------------------------------------
(***************************************************************************)
(* Reading an element: the first n symbols of it, escapes resolved.        *)
(***************************************************************************)
Escaped(c) == IF c \in {"b", "f", "n", "r", "t"} THEN "control" ELSE c

Decoded(raw, n) ==
  LET from[i \in 1..n + 1] ==
        IF i > n THEN << >>
        ELSE IF raw[i] = "\\" /\ i < n THEN <<Escaped(raw[i + 1])>> \o from[i + 2]
        ELSE <<raw[i]>> \o from[i + 1]
  IN  from[1]

(* json_raw_string, by way of parse_json_string: the whole of it. *)
json_raw_string(raw) == Decoded(raw, Len(raw))

(* raw_len of parse_tags_json: an escape counts once. *)
raw_len(raw) == Len(json_raw_string(raw))

ParsedElement(raw) == Decoded(raw, raw_len(raw))

IsPlain(ev) ==
  \A i \in DOMAIN ev.tags : \A j \in DOMAIN ev.tags[i] : "\\" \notin Range(ev.tags[i][j])

-----------------------------------------------------------------------------
validate_event_tags(ev) ==
  /\ Len(ev.tags) <= MaxTags
  /\ \A i \in DOMAIN ev.tags :
       /\ Len(ev.tags[i]) <= MaxElements
       /\ \A j \in DOMAIN ev.tags[i] : Len(json_raw_string(ev.tags[i][j])) <= MaxElement

Settle(outcome) ==
  /\ phase' = "rest" /\ verdict' = outcome
  /\ text' = << >> /\ p' = 1 /\ tag' = << >> /\ tags' = << >> /\ next' = 1

(***************************************************************************)
(* json_parse_event, the policies, which may refuse the event before it is *)
(* checked (server.c plugins_accept_publish), and check_event down to the  *)
(* tags.  genuine stands for an id that is the hash of the event and a     *)
(* signature that is its key's.                                            *)
(***************************************************************************)
ParseEvent(ev) ==
  /\ phase = "rest" /\ verdict = "none"
  /\ checked' = ev
  /\ IF ~validate_event_tags(ev) THEN Settle("malformed")
     ELSE \/ Settle("refused")
          \/ ~ev.genuine /\ Settle("forged")
          \/ /\ ev.genuine
             /\ phase' = "tags" /\ text' = TextOf(ev) /\ p' = 2
             /\ UNCHANGED <<tag, tags, next, verdict>>

(* Mutant: the comma is no blank. *)
SkipSpaceOnly ==
  /\ phase \in {"tags", "elements"} /\ text[p].is = "blank"
  /\ p' = p + 1
  /\ UNCHANGED <<phase, checked, text, tag, tags, next, verdict>>

(***************************************************************************)
(* parse_tags_json.  Blanks it skips are space, newline, tab and comma.    *)
(* Neither loop has a branch for another token, a carriage return say: p   *)
(* stays where it is, and there is no step to take.                        *)
(***************************************************************************)
SkipBlank ==
  /\ phase \in {"tags", "elements"} /\ text[p].is \in {"blank", "comma"}
  /\ p' = p + 1
  /\ UNCHANGED <<phase, checked, text, tag, tags, next, verdict>>

OpenTag ==
  /\ phase = "tags" /\ text[p].is = "["
  /\ UNCHANGED checked
  /\ IF Len(tags) >= MaxElements THEN Settle("unparseable")
     ELSE /\ phase' = "elements" /\ p' = p + 1 /\ tag' = << >>
          /\ UNCHANGED <<text, tags, next, verdict>>

(* Mutant: a tag may have one element less than the gate lets through. *)
ReadElementOfFewer ==
  /\ phase = "elements" /\ text[p].is = "string"
  /\ UNCHANGED checked
  /\ IF Len(tag) + 1 >= MaxElements THEN Settle("unparseable")
     ELSE /\ tag' = Append(tag, ParsedElement(text[p].raw)) /\ p' = p + 1
          /\ UNCHANGED <<phase, text, tags, next, verdict>>

ReadElement ==
  /\ phase = "elements" /\ text[p].is = "string"
  /\ UNCHANGED checked
  /\ IF Len(tag) >= MaxElements THEN Settle("unparseable")
     ELSE /\ tag' = Append(tag, ParsedElement(text[p].raw)) /\ p' = p + 1
          /\ UNCHANGED <<phase, text, tags, next, verdict>>

(* Mutant: a tag without elements is a tag. *)
CloseTagKeepingEmpty ==
  /\ phase = "elements" /\ text[p].is = "]"
  /\ phase' = "tags" /\ p' = p + 1 /\ tag' = << >>
  /\ tags' = Append(tags, tag)
  /\ UNCHANGED <<checked, text, next, verdict>>

(* A tag without elements is dropped. *)
CloseTag ==
  /\ phase = "elements" /\ text[p].is = "]"
  /\ phase' = "tags" /\ p' = p + 1 /\ tag' = << >>
  /\ tags' = IF tag # << >> THEN Append(tags, tag) ELSE tags
  /\ UNCHANGED <<checked, text, next, verdict>>

TagsParsed ==
  /\ phase = "tags" /\ text[p].is = "]"
  /\ phase' = "verify" /\ next' = 1
  /\ UNCHANGED <<checked, text, p, tag, tags, verdict>>

-----------------------------------------------------------------------------
DELEGATION_TAG == <<"delegation">>

(* Mutant: a token with an element after its signature is not looked at. *)
IsTokenOfFour(t) == Len(t) = 4 /\ t[1] = DELEGATION_TAG

IsToken(t) == Len(t) >= 4 /\ t[1] = DELEGATION_TAG

(* The loop of check_event over the tags it parsed. *)
VerifyTag ==
  /\ phase = "verify" /\ next <= Len(tags)
  /\ UNCHANGED checked
  /\ LET t == tags[next]
     IN  IF IsToken(t) /\ ~nip26_check_delegation(checked, t[2], t[3], t[4])
         THEN Settle("undelegated")
         ELSE next' = next + 1 /\ UNCHANGED <<phase, text, p, tag, tags, verdict>>

AllVerified ==
  /\ phase = "verify" /\ next > Len(tags)
  /\ Settle("valid")
  /\ UNCHANGED checked

(* The caller has seen the verdict. *)
Forget == verdict' = "none" /\ checked' = NoEvent /\ UNCHANGED <<phase, text, p, tag, tags, next>>

ParserInit ==
  /\ phase = "rest" /\ verdict = "none" /\ checked = NoEvent
  /\ text = << >> /\ p = 1 /\ tag = << >> /\ tags = << >> /\ next = 1

Checking ==
  \/ SkipBlank \/ OpenTag \/ ReadElement \/ CloseTag \/ TagsParsed
  \/ VerifyTag \/ AllVerified
=============================================================================
