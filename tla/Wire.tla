-------------------------------- MODULE Wire --------------------------------
(***************************************************************************)
(* One message from a client and what is written in answer to it           *)
(* (server.c handle_message): an EVENT is parsed, checked and measured,    *)
(* answered with OK and broadcast; the filters of a REQ or a COUNT are     *)
(* collected and an answer is sent.  The parsers and the writer are the    *)
(* modules this one composes; what happens in the store in between is      *)
(* Publish and Query.                                                      *)
(***************************************************************************)
EXTENDS TagParsers, FilterParser, JsonBuilder

CONSTANTS
  Published,    \* the events clients send
  Requested,    \* the REQs and COUNTs: [is, id, wrapped, values]
  SubscriberId, \* the names of subscriptions that match what is broadcast
  MaxSubId,     \* MAX_SUB_ID_LENGTH: 100
  MaxContent,   \* MAX_EVENT_CONTENT_LENGTH: 16384
  Margin,       \* what the size check keeps for the envelope: 160
  Nothing       \* no message

ASSUME MarginIsNat == Margin \in Nat

(* What clients send: texts are runs, or symbols; numbers are numbers; and *)
(* PartsOf knows the conditions of every token.                            *)
ASSUME WireInput ==
  /\ \A ev \in Published :
       /\ ev.created_at \in Int /\ ev.kind \in Int
       /\ ev.tags_len \in Nat /\ ev.content \in Text
       /\ IsWritten(ev)
       /\ \A t \in Range(ev.tags) : IsToken(t) => t[3] \in DOMAIN PartsOf
  /\ \A message \in Requested : message.id \in Text /\ IsMessage(message)
  /\ SubscriberId \subseteq Text

VARIABLES
  request,   \* the message that is being handled
  outbox,    \* the messages to be written, [is, ev, id, calls]
  sending    \* the one that is being written, or was last

wireVars == <<parserVars, filterVars, builderVars, request, outbox, sending>>

-----------------------------------------------------------------------------
(* strlen of a text. *)
Length[s \in Text] == IF s = << >> THEN 0 ELSE Head(s)[2] + Length[Tail(s)]

(* The messages the relay writes, and the reason of a refusal of any length. *)
Message(is, ev, id, made) == [is |-> is, ev |-> ev, id |-> id, calls |-> made]

Reason == Chars(40)

Ok(accepted) ==
  Message("OK", NoEvent, Chars(64),
    <<append_string(Chars(2)), append_string(Chars(64)), append_bool(accepted), append_string(Reason)>>)

Notice == Message("NOTICE", NoEvent, << >>, <<append_string(Chars(6)), append_string(Reason)>>)

Closed(id) ==
  Message("CLOSED", NoEvent, id,
    <<append_string(Chars(6)), append_string(id), append_string(Reason)>>)

Eose(id, auth_hint) ==
  Message("EOSE", NoEvent, id,
    <<append_string(Chars(4)), append_string(id), start_array>>
      \o (IF auth_hint THEN <<append_string(Chars(4))>> ELSE << >>)
      \o <<append_string(Chars(6)), end_array>>)

Count(id, n) ==
  Message("COUNT", NoEvent, id,
    <<append_string(Chars(5)), append_string(id), start_object, key_number(5, n), end_object>>)

EventMessage(ev, id) ==
  Message("EVENT", ev, id,
    <<append_string(Chars(5)), append_string(id)>> \o json_serialize_event(ev))

-----------------------------------------------------------------------------
(* Mutant: the envelope is not counted. *)
FitsBufferAlone(ev) ==
  /\ Length[ev.content] <= MaxContent
  /\ json_serialized_event_size(ev) <= BufferSize

(* nip01_process_event, steps 2 and 2b. *)
FitsBuffer(ev) ==
  /\ Length[ev.content] <= MaxContent
  /\ json_serialized_event_size(ev) + Margin <= BufferSize

Quiet ==
  /\ phase = "rest" /\ verdict = "none" /\ ~collecting
  /\ outbox = << >> /\ builder = "ready"

ReceiveEvent(ev) ==
  /\ Quiet
  /\ ParseEvent(ev)
  /\ request' = [is |-> "EVENT", ev |-> ev]
  /\ sending' = Nothing
  /\ BuilderGone
  /\ UNCHANGED <<filterVars, outbox>>

CheckEvent ==
  /\ Checking
  /\ UNCHANGED <<filterVars, builderVars, request, outbox, sending>>

(* The OK, and the broadcast of an event that is neither refused so far    *)
(* nor by a listener or the store.                                         *)
AnswerEvent ==
  /\ verdict # "none"
  /\ \/ verdict = "malformed" /\ outbox' = <<Notice>>
     \/ verdict # "malformed" /\ outbox' = <<Ok(FALSE)>>
     \/ /\ verdict = "valid" /\ FitsBuffer(checked)
        /\ \E id \in SubscriberId : outbox' = <<Ok(TRUE), EventMessage(checked, id)>>
  /\ Forget
  /\ UNCHANGED <<filterVars, builderVars, request, sending>>

-----------------------------------------------------------------------------
(* A message that cannot be read has no method, and a name that is too     *)
(* long is refused before the filters are read.                            *)
ReceiveRequest(message) ==
  /\ Quiet
  /\ request' = message
  /\ sending' = Nothing
  /\ IF ~IsReadable(message)
     THEN outbox' = <<Notice>> /\ UNCHANGED filterVars
     ELSE IF Length[message.id] > MaxSubId
     THEN outbox' = <<Closed(message.id)>> /\ UNCHANGED filterVars
     ELSE StartCollecting(message) /\ UNCHANGED outbox
  /\ BuilderGone
  /\ UNCHANGED parserVars

Collect ==
  /\ CollectFilter
  /\ UNCHANGED <<parserVars, builderVars, request, outbox, sending>>

(* Without filters, or without room for a subscription, it is refused.     *)
AnswerRequest ==
  /\ FiltersTaken
  /\ \/ /\ filters = << >> \/ request.is = "REQ"
        /\ outbox' = <<Closed(request.id)>>
     \/ filters # << >> /\ request.is = "COUNT" /\ outbox' = <<Count(request.id, MaxRows)>>
     \/ /\ filters # << >> /\ request.is = "REQ"
        /\ \E auth_hint \in BOOLEAN : outbox' = <<Eose(request.id, auth_hint)>>
  /\ UNCHANGED <<parserVars, builderVars, request, sending>>

-----------------------------------------------------------------------------
SendNext ==
  /\ outbox # << >>
  /\ StartMessage(Head(outbox).calls)
  /\ sending' = Head(outbox) /\ outbox' = Tail(outbox)
  /\ UNCHANGED <<parserVars, filterVars, request>>

Write ==
  /\ Building
  /\ UNCHANGED <<parserVars, filterVars, request, outbox, sending>>

WireInit ==
  /\ ParserInit /\ CollectorInit /\ BuilderInit
  /\ request = Nothing /\ outbox = << >> /\ sending = Nothing

Receive ==
  \/ \E ev \in Published : ReceiveEvent(ev)
  \/ \E message \in Requested : ReceiveRequest(message)

Handle == CheckEvent \/ AnswerEvent \/ Collect \/ AnswerRequest \/ SendNext \/ Write

WireNext == Receive \/ Handle

WireSpec == WireInit /\ [][WireNext]_wireVars

(* The thread stays in handle_message until it returns. *)
WireFairSpec == WireSpec /\ WF_wireVars(Handle)

-----------------------------------------------------------------------------
(* The types, the bounds of what the parsers hold, and filters that fit.   *)
WireTypeOK ==
  /\ phase \in {"rest", "tags", "elements", "verify"}
  /\ verdict \in {"none", "malformed", "refused", "forged", "unparseable", "undelegated", "valid"}
  /\ checked \in Published \cup {NoEvent}
  /\ phase \in {"tags", "elements"} => p \in DOMAIN text
  /\ Len(tags) <= MaxTags /\ Len(tag) <= MaxElements
  /\ \A filter \in Range(filters) : FilterFits(filter)
  /\ builder \in {"ready", "calls", "string"} /\ pos \in Nat
  /\ last \in {"open", "other"} /\ {whole, cut} \subseteq BOOLEAN
  /\ Len(outbox) <= 2

(***************************************************************************)
(* An event the size check admits reaches every subscriber whole, as long  *)
(* as his subscription's name takes no more of the margin than is left for *)
(* it (nip01.c:91-95: otherwise events "are truncated mid-JSON").          *)
(***************************************************************************)
Sent(is) == builder = "ready" /\ sending # Nothing /\ sending.is = is

AdmittedIsSentWhole ==
  Sent("EVENT") /\ escaped_length[sending.id] <= Margin - 14 => whole

(***************************************************************************)
(* What json_serialized_event_size foresees is what the builder writes, to *)
(* the byte ("Mirror json_serialize_event() segment by segment",           *)
(* json_util.c:860).  The rest is ["EVENT","id",...].                      *)
(***************************************************************************)
SizeIsExact ==
  Sent("EVENT") /\ whole =>
    pos = 13 + escaped_length[sending.id] + json_serialized_event_size(sending.ev)

(* "Tags accepted by the parse-time gate always parse here" (crypto.c:727). *)
AcceptedAlwaysParse == verdict # "unparseable"

(***************************************************************************)
(* Anything the gate accepts is fully scanned (json_util.c:720): the tags  *)
(* the delegations are looked for in are those of the event, each of them  *)
(* as long, the empty ones aside, and with the same values where there is  *)
(* no escape to resolve.                                                   *)
(***************************************************************************)
ScannedWhole ==
  phase = "verify" =>
    \E at \in [DOMAIN tags -> DOMAIN checked.tags] :
      /\ Range(at) = {n \in DOMAIN checked.tags : checked.tags[n] # << >>}
      /\ \A i, j \in DOMAIN tags : i < j => at[i] < at[j]
      /\ \A i \in DOMAIN tags :
           /\ Len(tags[i]) = Len(checked.tags[at[i]])
           /\ IsPlain(checked) => tags[i] = checked.tags[at[i]]

(***************************************************************************)
(* Delegation fails closed: no event is valid unless each of its tokens is *)
(* signed by the delegator it names, for the author of the event, and      *)
(* allows its kind and its time (nip26.h:27-33, crypto.c:726).             *)
(***************************************************************************)
TokensAreVerified ==
  verdict = "valid" /\ IsPlain(checked) =>
    \A t \in Range(checked.tags) :
      Len(t) >= 4 /\ t[1] = DELEGATION_TAG =>
        /\ <<t[2], checked.pubkey, t[3], t[4]>> \in Token
        /\ Allows(t[3], checked)

(***************************************************************************)
(* A request is run with the filters it was sent with, in their order: the *)
(* first MaxFilters that are accepted, whatever stood between them, and    *)
(* each asks for what its object says (server.c:293-321).                  *)
(***************************************************************************)
FiltersAreAsAsked ==
  collecting /\ ~IsCollecting =>
    LET objects  == Candidates(request)
        accepted == {n \in DOMAIN objects : json_parse_filter_ok(objects[n])}
    IN  \E at \in [DOMAIN filters -> accepted] :
          /\ \A i, j \in DOMAIN filters : i < j => at[i] < at[j]
          /\ \A n \in accepted \ Range(at) :
               Len(filters) = MaxFilters /\ \A i \in DOMAIN filters : at[i] < n
          /\ \A i \in DOMAIN filters :
               IsProper(objects[at[i]]) => SaysAsMuch(filters[i], objects[at[i]])

(***************************************************************************)
(* Every serialized field is emitted "regardless of its contents"          *)
(* (json_util.c:385-387): no NUL ends a message before its end.            *)
(***************************************************************************)
ArrivesUncut == builder = "ready" => ~cut

(***************************************************************************)
(* The relay answers, whatever it is sent: handle_message ends, and what   *)
(* the gate lets through is "fully scanned" (json_util.c:721).             *)
(***************************************************************************)
EveryMessageAnswered == ~Quiet ~> Quiet
=============================================================================
