----------------------------- MODULE WireProofs -----------------------------
(***************************************************************************)
(* One message, whatever the events, the requests, the names and the       *)
(* limits are: the buffer is never overrun, what is written is as long as  *)
(* was foreseen, what the gate accepts is scanned to its end, delegations  *)
(* fail closed, and a request is run with the filters it was sent with.    *)
(***************************************************************************)
EXTENDS Wire, TagProofs, FilterProofs

PieceCalls ==
  {c \in [op : {"piece"}, comma : BOOLEAN, need : Nat, width : Nat, opens : BOOLEAN] :
     c.width <= c.need}
StringCalls == [op : {"string"}, key : Nat, value : Text]
TagsCalls   == [op : {"tags"}, length : Nat]
Calls       == PieceCalls \cup StringCalls \cup TagsCalls

Messages ==
  [is : {"OK", "NOTICE", "CLOSED", "EOSE", "COUNT", "EVENT"},
   ev : Published \cup {NoEvent}, id : Text, calls : Seq(Calls)]

(***************************************************************************)
(* The inductive invariant: there is room for the NUL, and no call that is *)
(* still to be made writes more than it asks room for.  The calls are made *)
(* up of the event or the request in hand, which is one that was received. *)
(***************************************************************************)
BuilderInv ==
  /\ pos \in Nat /\ NeverOverruns
  /\ calls \in Seq(Calls) /\ rest \in Text
  /\ builder = "string" => calls # << >>

WireInv ==
  /\ BuilderInv
  /\ outbox \in Seq(Messages)
  /\ phase # "rest" \/ verdict # "none" => checked \in Published
  /\ verdict # "none" => phase = "rest"
  /\ collecting => request \in Requested

-----------------------------------------------------------------------------
(***************************************************************************)
(* A number takes eleven characters at most.                               *)
(***************************************************************************)
LEMMA DigitsBounded ==
  ASSUME NEW n \in Int
  PROVE  Digits(n) \in 0..11
<1>1. \A m \in Int : Magnitude(m) \in 1..10
  <2> SUFFICES ASSUME NEW m \in Int PROVE \E d \in 1..10 : Fills(m, d)
    BY DEF Magnitude
  <2>1. ASSUME NEW d \in 1..9, ~(m < 10^d), ~\E e \in 1..10 : Fills(m, e)
        PROVE  d + 1 < 10 => ~(m < 10^(d + 1))
    <3>1. (d + 1) - 1 = d
      OBVIOUS
    <3> QED BY <2>1, <3>1 DEF Fills
  <2>2. SUFFICES ASSUME ~\E e \in 1..10 : Fills(m, e) PROVE FALSE
    OBVIOUS
  <2>3. ~Fills(m, 1)
    BY <2>2
  <2>4. ~(m < 10^1)
    BY <2>3 DEF Fills
  <2>5. ~(m < 10^2) /\ ~(m < 10^3) /\ ~(m < 10^4) /\ ~(m < 10^5)
    BY <2>1, <2>2, <2>4
  <2>6. ~(m < 10^6) /\ ~(m < 10^7) /\ ~(m < 10^8) /\ ~(m < 10^9)
    BY <2>1, <2>2, <2>5
  <2>7. Fills(m, 10)
    BY <2>6 DEF Fills
  <2> QED BY <2>2, <2>7
<1> QED BY <1>1 DEF Digits

(***************************************************************************)
(* The constructors make calls that ask for what they write.               *)
(***************************************************************************)
LEMMA NumberIsCall ==
  ASSUME NEW key \in 0..10, NEW n \in Int
  PROVE  key_number(key, n) \in Calls
<1>1. Digits(n) \in 0..11
  BY DigitsBounded
<1> QED BY <1>1 DEF key_number, Piece, Calls, PieceCalls

LEMMA BracketsAreCalls ==
  /\ start_array \in Calls /\ start_object \in Calls
  /\ end_array \in Calls /\ end_object \in Calls
  /\ \A value \in BOOLEAN : append_bool(value) \in Calls
BY DEF start_array, start_object, end_array, end_object, append_bool, Piece, Calls, PieceCalls

LEMMA CharsAreText ==
  ASSUME NEW n \in Nat
  PROVE  Chars(n) \in Text
BY DEF Chars, Text, Width, Plain

LEMMA StringIsCall ==
  ASSUME NEW value \in Text, NEW key \in Nat
  PROVE  append_string(value) \in Calls /\ key_string(key, value) \in Calls
BY DEF append_string, key_string, Calls, StringCalls

LEMMA TagsAreCall ==
  ASSUME NEW length \in Nat
  PROVE  append_tags(length) \in Calls
BY DEF append_tags, Calls, TagsCalls

-----------------------------------------------------------------------------
(***************************************************************************)
(* No call, and no run of characters, takes pos beyond the buffer.         *)
(***************************************************************************)
LEMMA CallsAreTyped ==
  ASSUME calls \in Seq(Calls), calls # << >>
  PROVE  Head(calls) \in Calls /\ Tail(calls) \in Seq(Calls)
OBVIOUS

LEMMA BuildingHolds ==
  ASSUME BuilderInv, Building
  PROVE  BuilderInv'
<1> USE BufferHasRoom
<1>0. AfterComma \in Nat /\ AfterComma < BufferSize
  BY DEF BuilderInv, NeverOverruns, AfterComma, ensure_space
<1>1. CASE AppendPiece
  <2>1. Head(calls) \in Calls /\ Tail(calls) \in Seq(Calls)
    BY <1>1, CallsAreTyped DEF AppendPiece, Due, BuilderInv
  <2>2. Head(calls) \in PieceCalls
    BY <1>1, <2>1 DEF AppendPiece, Due, Calls, StringCalls, TagsCalls
  <2>3. pos' \in Nat /\ pos' < BufferSize
    BY <1>0, <1>1, <2>2 DEF AppendPiece, PieceCalls, ensure_space, BuilderInv, NeverOverruns
  <2> QED BY <1>1, <2>1, <2>3 DEF AppendPiece, Due, BuilderInv, NeverOverruns
<1>2. CASE AppendTags
  <2>1. Head(calls) \in Calls /\ Tail(calls) \in Seq(Calls)
    BY <1>2, CallsAreTyped DEF AppendTags, Due, BuilderInv
  <2>2. Head(calls) \in TagsCalls
    BY <1>2, <2>1 DEF AppendTags, Due, Calls, StringCalls, PieceCalls
  <2>3. pos' \in Nat /\ pos' < BufferSize
    BY <1>0, <1>2, <2>2 DEF AppendTags, TagsCalls, ensure_space
  <2> QED BY <1>2, <2>1, <2>3 DEF AppendTags, Due, BuilderInv, NeverOverruns
<1>3. CASE OpenString
  <2>1. Head(calls) \in Calls /\ Tail(calls) \in Seq(Calls)
    BY <1>3, CallsAreTyped DEF OpenString, Due, BuilderInv
  <2>2. Head(calls) \in StringCalls
    BY <1>3, <2>1 DEF OpenString, Due, Calls, TagsCalls, PieceCalls
  <2>3. pos' \in Nat /\ pos' < BufferSize
    BY <1>0, <1>3, <2>2 DEF OpenString, StringCalls, AfterKey, ensure_space
  <2>4. /\ calls' \in Seq(Calls) /\ rest' \in Text
        /\ builder' = "string" => calls' # << >>
    BY <1>3, <2>1, <2>2 DEF OpenString, Due, StringCalls, BuilderInv
  <2> QED BY <2>3, <2>4 DEF BuilderInv, NeverOverruns
<1>4. CASE EscapeRun
  <2>1. Head(rest) \in Width \X Nat /\ Tail(rest) \in Text
    BY <1>4 DEF EscapeRun, BuilderInv, Text
  <2>2. PICK n \in 0..Head(rest)[2] :
          /\ n > 0 => ensure_space(pos + Head(rest)[1] * (n - 1), Head(rest)[1])
          /\ pos' = pos + Head(rest)[1] * n
          /\ rest' = IF n < Head(rest)[2] THEN << >> ELSE Tail(rest)
    BY <1>4 DEF EscapeRun
  <2>3. Head(rest)[1] \in {1, 2, 6} /\ n \in Nat
    BY <2>1 DEF Width, Plain, Short, Control
  <2>4. pos' \in Nat /\ pos' < BufferSize
    BY <2>2, <2>3 DEF ensure_space, BuilderInv, NeverOverruns
  <2>5. rest' \in Text
    BY <2>1, <2>2 DEF Text
  <2> QED BY <1>4, <2>4, <2>5 DEF EscapeRun, BuilderInv, NeverOverruns
<1>5. CASE CloseString
  <2>1. Tail(calls) \in Seq(Calls)
    BY <1>5, CallsAreTyped DEF CloseString, BuilderInv
  <2> QED BY <1>5, <2>1 DEF CloseString, BuilderInv, NeverOverruns, ensure_space
<1>6. CASE FinishMessage
  BY <1>6 DEF FinishMessage, BuilderInv, NeverOverruns, ensure_space
<1> QED BY <1>1, <1>2, <1>3, <1>4, <1>5, <1>6 DEF Building

-----------------------------------------------------------------------------
(***************************************************************************)
(* The messages the relay writes are made of such calls.                   *)
(***************************************************************************)
LEMMA AnswersAreMessages ==
  ASSUME NEW id \in Text
  PROVE  /\ \A accepted \in BOOLEAN : Ok(accepted) \in Messages
         /\ Notice \in Messages /\ Closed(id) \in Messages
         /\ \A auth_hint \in BOOLEAN : Eose(id, auth_hint) \in Messages
         /\ \A n \in Int : Count(id, n) \in Messages
<1>1. \A n \in {2, 4, 5, 6, 40, 64} : append_string(Chars(n)) \in Calls
  BY CharsAreText, StringIsCall
<1>2. append_string(id) \in Calls /\ append_string(Reason) \in Calls
  BY CharsAreText, StringIsCall DEF Reason
<1>3. << >> \in Text /\ Chars(64) \in Text
  BY CharsAreText DEF Text
<1>4. ASSUME NEW accepted \in BOOLEAN PROVE Ok(accepted) \in Messages
  BY <1>1, <1>2, <1>3, BracketsAreCalls DEF Ok, Message, Messages
<1>5. Notice \in Messages /\ Closed(id) \in Messages
  BY <1>1, <1>2, <1>3 DEF Notice, Closed, Message, Messages
<1>6. ASSUME NEW auth_hint \in BOOLEAN PROVE Eose(id, auth_hint) \in Messages
  <2> DEFINE Hint == IF auth_hint THEN <<append_string(Chars(4))>> ELSE << >>
             Front == <<append_string(Chars(4)), append_string(id), start_array>>
             Back == <<append_string(Chars(6)), end_array>>
  <2>1. Front \in Seq(Calls) /\ Hint \in Seq(Calls) /\ Back \in Seq(Calls)
    BY <1>1, <1>2, BracketsAreCalls
  <2>2. Front \o Hint \o Back \in Seq(Calls)
    <3> HIDE DEF Front, Hint, Back
    <3> QED BY <2>1
  <2> QED BY <2>2 DEF Eose, Message, Messages
<1>7. ASSUME NEW n \in Int PROVE Count(id, n) \in Messages
  <2>1. key_number(5, n) \in Calls
    BY NumberIsCall
  <2> QED BY <1>1, <1>2, <2>1, BracketsAreCalls DEF Count, Message, Messages
<1> QED BY <1>4, <1>5, <1>6, <1>7

LEMMA EventIsMessage ==
  ASSUME NEW ev \in Published, NEW id \in Text
  PROVE  EventMessage(ev, id) \in Messages
<1>1. /\ ev.created_at \in Int /\ ev.kind \in Int
      /\ ev.tags_len \in Nat /\ ev.content \in Text
  BY WireInput
<1>2. <<append_string(Chars(5)), append_string(id)>> \in Seq(Calls)
  BY CharsAreText, StringIsCall
<1>3. /\ key_string(2, Chars(64)) \in Calls /\ key_string(6, Chars(64)) \in Calls
      /\ key_string(7, ev.content) \in Calls /\ key_string(3, Chars(128)) \in Calls
  BY <1>1, CharsAreText, StringIsCall
<1>4. key_number(10, ev.created_at) \in Calls /\ key_number(4, ev.kind) \in Calls
  BY <1>1, NumberIsCall
<1>5. append_tags(ev.tags_len) \in Calls
  BY <1>1, TagsAreCall
<1>6. json_serialize_event(ev) \in Seq(Calls)
  BY <1>3, <1>4, <1>5, BracketsAreCalls DEF json_serialize_event
<1>7. <<append_string(Chars(5)), append_string(id)>> \o json_serialize_event(ev) \in Seq(Calls)
  BY <1>2, <1>6
<1> QED BY <1>7 DEF EventMessage, Message, Messages

-----------------------------------------------------------------------------
LEMMA WireInitHolds == WireInit => WireInv
BY BufferHasRoom
DEF WireInit, ParserInit, CollectorInit, BuilderInit, WireInv, BuilderInv, NeverOverruns, Text

(***************************************************************************)
(* A parser keeps the event in hand from its receipt to its verdict.       *)
(***************************************************************************)
LEMMA CheckingHolds ==
  ASSUME WireInv, CheckEvent
  PROVE  WireInv'
<1>1. checked' = checked /\ phase # "rest"
  BY DEF CheckEvent, Checking, SkipBlank, OpenTag, ReadElement, CloseTag, TagsParsed,
         VerifyTag, AllVerified
<1>2. verdict' # "none" => phase' = "rest"
  BY <1>1 DEF WireInv, CheckEvent, Checking, SkipBlank, OpenTag, ReadElement, CloseTag,
              TagsParsed, VerifyTag, AllVerified, Settle
<1> QED BY <1>1, <1>2 DEF CheckEvent, WireInv, BuilderInv, NeverOverruns, filterVars, builderVars

LEMMA ReceivingHolds ==
  ASSUME WireInv, Receive
  PROVE  WireInv'
<1>1. BuilderInv' /\ Notice \in Messages
  <2>1. BuilderGone
    BY DEF Receive, ReceiveEvent, ReceiveRequest
  <2>2. << >> \in Text
    BY DEF Text
  <2> QED BY <2>1, <2>2, BufferHasRoom, AnswersAreMessages
          DEF BuilderGone, WireInv, BuilderInv, NeverOverruns
<1>2. ASSUME NEW ev \in Published, ReceiveEvent(ev)
      PROVE  WireInv'
  BY <1>1, <1>2 DEF ReceiveEvent, ParseEvent, Settle, Quiet, WireInv, filterVars
<1>3. ASSUME NEW message \in Requested, ReceiveRequest(message)
      PROVE  WireInv'
  <2>1. Closed(message.id) \in Messages
    BY WireInput, AnswersAreMessages
  <2>2. outbox' \in Seq(Messages)
    <3>1. <<Notice>> \in Seq(Messages) /\ <<Closed(message.id)>> \in Seq(Messages)
      BY <1>1, <2>1
    <3> QED BY <1>3, <3>1 DEF ReceiveRequest, WireInv
  <2>3. collecting' => request' \in Requested
    BY <1>3 DEF ReceiveRequest, Quiet, filterVars
  <2> QED BY <1>1, <1>3, <2>2, <2>3 DEF ReceiveRequest, parserVars, WireInv
<1> QED BY <1>2, <1>3 DEF Receive

LEMMA AnsweringHolds ==
  ASSUME WireInv, AnswerEvent \/ AnswerRequest
  PROVE  WireInv'
<1>1. BuilderInv'
  BY DEF AnswerEvent, AnswerRequest, WireInv, BuilderInv, NeverOverruns, builderVars
<1>2. CASE AnswerEvent
  <2>1. checked \in Published
    BY <1>2 DEF AnswerEvent, WireInv
  <2>2. << >> \in Text
    BY DEF Text
  <2>3. outbox' \in Seq(Messages)
    <3> DEFINE Yes == Ok(TRUE)
               No  == Ok(FALSE)
    <3>1. Notice \in Messages /\ Yes \in Messages /\ No \in Messages
      BY <2>2, AnswersAreMessages, Zenon
    <3>2. \A id \in SubscriberId : EventMessage(checked, id) \in Messages
      BY <2>1, WireInput, EventIsMessage
    <3>3. \/ outbox' = <<Notice>> \/ outbox' = <<No>>
          \/ \E id \in SubscriberId : outbox' = <<Yes, EventMessage(checked, id)>>
      BY <1>2, Zenon DEF AnswerEvent
    <3> HIDE DEF Yes, No
    <3>4. ASSUME NEW first \in Messages, NEW second \in Messages
          PROVE  <<first>> \in Seq(Messages) /\ <<first, second>> \in Seq(Messages)
      OBVIOUS
    <3>5. CASE outbox' = <<Notice>> \/ outbox' = <<No>>
      BY <3>1, <3>4, <3>5
    <3>6. ASSUME NEW id \in SubscriberId, outbox' = <<Yes, EventMessage(checked, id)>>
          PROVE  outbox' \in Seq(Messages)
      <4>1. <<Yes, EventMessage(checked, id)>> \in Seq(Messages)
        BY <3>1, <3>2, <3>4, Zenon
      <4> QED BY <3>6, <4>1, Zenon
    <3> QED BY <3>3, <3>5, <3>6
  <2>4. phase' = "rest" /\ verdict' = "none"
    BY <1>2 DEF AnswerEvent, Forget, WireInv
  <2> QED BY <1>1, <1>2, <2>3, <2>4 DEF AnswerEvent, WireInv, filterVars
<1>3. CASE AnswerRequest
  <2>1. request.id \in Text
    BY <1>3, WireInput DEF AnswerRequest, FiltersTaken, WireInv
  <2>2. outbox' \in Seq(Messages)
    <3> DEFINE Refusal == Closed(request.id)
               Answer == Count(request.id, MaxRows)
               End(auth_hint) == Eose(request.id, auth_hint)
    <3>1. Refusal \in Messages /\ Answer \in Messages
      BY <2>1, FilterLimits, AnswersAreMessages
    <3>2. \A auth_hint \in BOOLEAN : End(auth_hint) \in Messages
      BY <2>1, AnswersAreMessages, Zenon
    <3>3. \/ outbox' = <<Refusal>> \/ outbox' = <<Answer>>
          \/ \E auth_hint \in BOOLEAN : outbox' = <<End(auth_hint)>>
      BY <1>3, Zenon DEF AnswerRequest
    <3> HIDE DEF Refusal, Answer, End
    <3>4. ASSUME NEW only \in Messages
          PROVE  <<only>> \in Seq(Messages)
      OBVIOUS
    <3>5. CASE outbox' = <<Refusal>> \/ outbox' = <<Answer>>
      BY <3>1, <3>4, <3>5
    <3>6. ASSUME NEW auth_hint \in BOOLEAN, outbox' = <<End(auth_hint)>>
          PROVE  outbox' \in Seq(Messages)
      <4>1. <<End(auth_hint)>> \in Seq(Messages)
        BY <3>2, <3>4, Zenon
      <4> QED BY <3>6, <4>1, Zenon
    <3> QED BY <3>3, <3>5, <3>6, Zenon
  <2> QED BY <1>1, <1>3, <2>2 DEF AnswerRequest, FiltersTaken, WireInv, parserVars
<1> QED BY <1>2, <1>3

LEMMA SendingHolds ==
  ASSUME WireInv, SendNext
  PROVE  WireInv'
<1>1. Head(outbox) \in Messages /\ Tail(outbox) \in Seq(Messages)
  BY DEF SendNext, WireInv
<1>2. Head(outbox).calls \in Seq(Calls)
  BY <1>1 DEF Messages
<1>3. BuilderInv'
  BY <1>2, BufferHasRoom DEF SendNext, StartMessage, BuilderInv, NeverOverruns, Text
<1> QED BY <1>1, <1>3 DEF SendNext, WireInv, parserVars, filterVars

LEMMA WireInvStep ==
  ASSUME WireInv, [WireNext]_wireVars
  PROVE  WireInv'
<1>1. CASE Receive
  BY <1>1, ReceivingHolds
<1>2. CASE CheckEvent
  BY <1>2, CheckingHolds
<1>3. CASE AnswerEvent \/ AnswerRequest
  BY <1>3, AnsweringHolds
<1>4. CASE Collect
  BY <1>4 DEF Collect, CollectFilter, WireInv, BuilderInv, NeverOverruns, parserVars, builderVars
<1>5. CASE SendNext
  BY <1>5, SendingHolds
<1>6. CASE Write
  <2>1. BuilderInv'
    BY <1>6, BuildingHolds DEF Write, WireInv
  <2> QED BY <1>6, <2>1 DEF Write, WireInv, parserVars, filterVars
<1>7. CASE UNCHANGED wireVars
  BY <1>7 DEF wireVars, parserVars, filterVars, builderVars, WireInv, BuilderInv, NeverOverruns
<1> QED BY <1>1, <1>2, <1>3, <1>4, <1>5, <1>6, <1>7 DEF WireNext, Handle

(***************************************************************************)
(* The buffer holds: pos stays below its size (json_util.c:462).           *)
(***************************************************************************)
THEOREM BufferHolds == WireSpec => []NeverOverruns
<1>1. WireInit => WireInv
  BY WireInitHolds
<1>2. WireInv /\ [WireNext]_wireVars => WireInv'
  BY WireInvStep
<1>3. WireInv => NeverOverruns
  BY DEF WireInv, BuilderInv
<1> QED BY <1>1, <1>2, <1>3, PTL DEF WireSpec

-----------------------------------------------------------------------------
Weight(run) == run[1] * run[2]

LEMMA WeightIsNat ==
  ASSUME NEW run \in Width \X Nat
  PROVE  Weight(run) \in Nat
BY DEF Weight, Width, Plain, Short, Control

(***************************************************************************)
(* What a text takes: its first run, and then what is left.                *)
(***************************************************************************)
LEMMA EscapedEquation ==
  escaped_length = [s \in Text |->
    IF s = << >> THEN 0 ELSE Head(s)[1] * Head(s)[2] + escaped_length[Tail(s)]]
<1> DEFINE Step(f) == [s \in Text |->
              IF s = << >> THEN 0 ELSE Head(s)[1] * Head(s)[2] + f[Tail(s)]]
           rank == [s \in Text |-> Len(s)]
           Body == [f \in [Text -> Nat] |-> Step(f)]
<1>1. ASSUME NEW s \in Text, s # << >>
      PROVE  Tail(s) \in Text /\ Len(Tail(s)) < Len(s) /\ Head(s)[1] * Head(s)[2] \in Nat
  <2>1. Head(s) \in Width \X Nat /\ Tail(s) \in Text /\ Len(Tail(s)) < Len(s)
    BY <1>1 DEF Text
  <2> QED BY <2>1, WeightIsNat DEF Weight
<1>2. rank \in [Text -> Nat]
  BY DEF Text
<1>3. Body \in [[Text -> Nat] -> [Text -> Nat]]
  <2>1. ASSUME NEW f \in [Text -> Nat] PROVE Step(f) \in [Text -> Nat]
    <3>1. ASSUME NEW s \in Text PROVE Step(f)[s] \in Nat
      <4>1. CASE s = << >>
        BY <4>1
      <4>2. CASE s # << >>
        <5>1. Tail(s) \in Text /\ Head(s)[1] * Head(s)[2] \in Nat
          BY <1>1, <4>2
        <5>2. f[Tail(s)] \in Nat
          BY <5>1
        <5>3. \A m, n \in Nat : m + n \in Nat
          OBVIOUS
        <5> QED BY <4>2, <5>1, <5>2, <5>3, Zenon
      <4> QED BY <4>1, <4>2
    <3> QED BY <3>1
  <2> HIDE DEF Step
  <2> QED BY <2>1
<1>4. ASSUME NEW f \in [Text -> Nat], NEW g \in [Text -> Nat], NEW s \in Text,
             \A t \in Text : rank[t] < rank[s] => f[t] = g[t]
      PROVE  Body[f][s] = Body[g][s]
  <2>1. s # << >> => f[Tail(s)] = g[Tail(s)]
    BY <1>1, <1>4
  <2> QED BY <2>1
<1>5. \E f \in [Text -> Nat] : f = Body[f]
  <2> DEFINE zero == [s \in Text |-> 0]
  <2>1. zero \in [Text -> Nat]
    OBVIOUS
  <2>2. LooksBelow(Body, Text, Nat, rank)
    <3> HIDE DEF Body, rank
    <3> QED BY <1>4 DEF LooksBelow
  <2> HIDE DEF Body, rank, zero
  <2>3. HasSolution(Body, Text, Nat)
    BY <1>2, <1>3, <2>1, <2>2, RecursionByRank
  <2> QED BY <2>3 DEF HasSolution
<1>6. \E f : f = Step(f)
  BY <1>5
<1> QED BY <1>6, Zenon DEF escaped_length

LEMMA EscapedLength ==
  /\ escaped_length \in [Text -> Nat]
  /\ escaped_length[<< >>] = 0
  /\ \A s \in Text : s # << >> =>
       escaped_length[s] = Head(s)[1] * Head(s)[2] + escaped_length[Tail(s)]
  /\ \A n \in Nat : escaped_length[Chars(n)] = n
<1> DEFINE rank == [s \in Text |-> Len(s)]
           Typed == {s \in Text : escaped_length[s] \in Nat}
<1>1. << >> \in Text /\ escaped_length[<< >>] = 0
  <2>1. << >> \in Text
    BY DEF Text
  <2> QED BY <2>1, EscapedEquation, Zenon
<1>2. ASSUME NEW s \in Text, s # << >>
      PROVE  escaped_length[s] = Head(s)[1] * Head(s)[2] + escaped_length[Tail(s)]
  BY <1>2, EscapedEquation, Zenon
<1>3. ASSUME NEW s \in Text, \A t \in Text : rank[t] < rank[s] => t \in Typed
      PROVE  s \in Typed
  <2>1. CASE s = << >>
    BY <1>1, <2>1
  <2>2. CASE s # << >>
    <3>1. Head(s) \in Width \X Nat /\ Tail(s) \in Text /\ rank[Tail(s)] < rank[s]
      BY <2>2 DEF Text
    <3>2. Head(s)[1] * Head(s)[2] \in Nat
      BY <3>1, WeightIsNat DEF Weight
    <3>3. escaped_length[Tail(s)] \in Nat
      BY <1>3, <3>1
    <3> QED BY <1>2, <2>2, <3>2, <3>3
  <2> QED BY <2>1, <2>2
<1>4. Text \subseteq Typed
  <2>1. rank \in [Text -> Nat]
    BY DEF Text
  <2> HIDE DEF rank, Typed
  <2> QED BY <1>3, <2>1, RankInduction
<1>5. escaped_length \in [Text -> Nat]
  <2>1. \A s \in Text : escaped_length[s] \in Nat
    BY <1>4
  <2>2. DOMAIN escaped_length = Text /\ escaped_length = [s \in Text |-> escaped_length[s]]
    BY EscapedEquation, Zenon
  <2> QED BY <2>1, <2>2
<1>6. ASSUME NEW n \in Nat PROVE escaped_length[Chars(n)] = n
  <2>1. Chars(n) \in Text /\ Chars(n) # << >>
    BY CharsAreText DEF Chars
  <2>2. Head(Chars(n))[1] = 1 /\ Head(Chars(n))[2] = n /\ Tail(Chars(n)) = << >>
    BY DEF Chars, Plain
  <2>3. escaped_length[Chars(n)] = 1 * n + 0
    BY <1>1, <1>2, <2>1, <2>2, Zenon
  <2> QED BY <2>3
<1> QED BY <1>1, <1>2, <1>5, <1>6

-----------------------------------------------------------------------------
(***************************************************************************)
(* The calls that write an event, and where each of them begins if nothing *)
(* has been left out.  The third opens the event's object.                 *)
(***************************************************************************)
EventCalls(ev, id) == <<append_string(Chars(5)), append_string(id)>> \o json_serialize_event(ev)

Begins(ev, id) ==
  LET start  == 13 + escaped_length[id]
      kind   == start + 161 + Digits(ev.created_at)
      tags_  == kind + 8 + Digits(ev.kind)
      text_  == tags_ + 8 + ev.tags_len
      sig    == text_ + 13 + escaped_length[ev.content]
  IN  << 1, 8, start - 2, start, start + 71, start + 147, kind, tags_, text_, sig, sig + 137, sig + 138 >>

Ahead(ev, id, k) == calls = SubSeq(EventCalls(ev, id), k, 11)

EventProgress(ev, id) ==
  /\ builder = "ready" => (whole => pos = Begins(ev, id)[12] + 1)
  /\ builder = "calls" => \E k \in 1..12 :
       /\ Ahead(ev, id, k)
       /\ whole => pos = Begins(ev, id)[k] /\ (last = "open" <=> k \in {1, 4})
  /\ builder = "string" => \E k \in 1..11 :
       /\ Ahead(ev, id, k) /\ EventCalls(ev, id)[k].op = "string"
       /\ whole => pos + escaped_length[rest] + 1 = Begins(ev, id)[k + 1] /\ last # "open"
  /\ builder \in {"ready", "calls", "string"}
  /\ escaped_length[id] <= Margin - 14 => whole

Admitted == {EventMessage(ev, id) : ev \in {e \in Published : FitsBuffer(e)}, id \in SubscriberId}

SizeInv ==
  /\ \A i \in DOMAIN outbox : outbox[i].is = "EVENT" => outbox[i] \in Admitted
  /\ sending # Nothing /\ sending.is = "EVENT" =>
       \E ev \in {e \in Published : FitsBuffer(e)}, id \in SubscriberId :
         sending = EventMessage(ev, id) /\ EventProgress(ev, id)

(* What a call takes if nothing is left out of it, and a comma is due or not. *)
Takes(call, comma) ==
  CASE call.op = "piece"  -> (IF call.comma THEN comma ELSE 0) + call.width
    [] call.op = "tags"   -> comma + 7 + call.length
    [] call.op = "string" -> comma + (IF call.key = 0 THEN 0 ELSE call.key + 3)
                               + escaped_length[call.value] + 2

CommaAt(k) == IF k \in {1, 4} THEN 0 ELSE 1

LEMMA TwoInFront ==
  ASSUME NEW S, NEW a \in S, NEW b \in S, NEW t \in Seq(S)
  PROVE  LET s == <<a, b>> \o t
         IN  /\ s \in Seq(S) /\ Len(s) = 2 + Len(t) /\ s[1] = a /\ s[2] = b
             /\ \A i \in 1..Len(t) : s[2 + i] = t[i]
<1> DEFINE front == <<a, b>>
           s == front \o t
<1>1. front \in Seq(S) /\ Len(front) = 2 /\ front[1] = a /\ front[2] = b
  OBVIOUS
<1> HIDE DEF front
<1>2. s \in Seq(S) /\ Len(s) = Len(front) + Len(t)
      /\ \A i \in 1..Len(front) + Len(t) : s[i] = IF i <= Len(front) THEN front[i] ELSE t[i - Len(front)]
  BY <1>1, ConcatProperties
<1> HIDE DEF s
<1>3. Len(t) \in Nat
  OBVIOUS
<1>4. s[1] = a /\ s[2] = b
  BY <1>1, <1>2, <1>3
<1>5. ASSUME NEW i \in 1..Len(t) PROVE s[2 + i] = t[i]
  BY <1>1, <1>2, <1>3
<1> USE DEF s, front
<1> QED BY <1>1, <1>2, <1>4, <1>5

LEMMA EventCallsAre ==
  ASSUME NEW ev \in Published, NEW id \in Text
  PROVE  LET c == EventCalls(ev, id)
         IN  /\ c \in Seq(Calls) /\ Len(c) = 11
             /\ c[1] = append_string(Chars(5)) /\ c[2] = append_string(id)
             /\ c[3] = start_object /\ c[4] = key_string(2, Chars(64))
             /\ c[5] = key_string(6, Chars(64)) /\ c[6] = key_number(10, ev.created_at)
             /\ c[7] = key_number(4, ev.kind) /\ c[8] = append_tags(ev.tags_len)
             /\ c[9] = key_string(7, ev.content) /\ c[10] = key_string(3, Chars(128))
             /\ c[11] = end_object
<1> DEFINE back  == json_serialize_event(ev)
<1>4. back \in Seq(Calls) /\ Len(back) = 9
  <2>1. /\ ev.created_at \in Int /\ ev.kind \in Int
        /\ ev.tags_len \in Nat /\ ev.content \in Text
    BY WireInput
  <2>2. /\ key_string(2, Chars(64)) \in Calls /\ key_string(6, Chars(64)) \in Calls
        /\ key_string(7, ev.content) \in Calls /\ key_string(3, Chars(128)) \in Calls
        /\ key_number(10, ev.created_at) \in Calls /\ key_number(4, ev.kind) \in Calls
        /\ append_tags(ev.tags_len) \in Calls
    BY <2>1, CharsAreText, StringIsCall, NumberIsCall, TagsAreCall
  <2> QED BY <2>2, BracketsAreCalls DEF json_serialize_event
<1>5. append_string(Chars(5)) \in Calls /\ append_string(id) \in Calls
  BY CharsAreText, StringIsCall
<1>6. /\ back[1] = start_object /\ back[2] = key_string(2, Chars(64))
      /\ back[3] = key_string(6, Chars(64)) /\ back[4] = key_number(10, ev.created_at)
      /\ back[5] = key_number(4, ev.kind) /\ back[6] = append_tags(ev.tags_len)
      /\ back[7] = key_string(7, ev.content) /\ back[8] = key_string(3, Chars(128))
      /\ back[9] = end_object
  BY DEF json_serialize_event
<1> DEFINE s == EventCalls(ev, id)
<1>7. s = <<append_string(Chars(5)), append_string(id)>> \o back
  BY DEF EventCalls
<1> HIDE DEF back, s
<1>8. /\ s \in Seq(Calls) /\ Len(s) = 2 + Len(back)
      /\ s[1] = append_string(Chars(5)) /\ s[2] = append_string(id)
      /\ \A i \in 1..Len(back) : s[2 + i] = back[i]
  <2> DEFINE first  == append_string(Chars(5))
             second == append_string(id)
  <2>1. first \in Calls /\ second \in Calls /\ back \in Seq(Calls) /\ s = <<first, second>> \o back
    BY <1>4, <1>5, <1>7
  <2> HIDE DEF first, second
  <2>2. /\ s \in Seq(Calls) /\ Len(s) = 2 + Len(back) /\ s[1] = first /\ s[2] = second
        /\ \A i \in 1..Len(back) : s[2 + i] = back[i]
    BY <2>1, TwoInFront
  <2> QED BY <2>2 DEF first, second
<1>9. /\ s[3] = back[1] /\ s[4] = back[2] /\ s[5] = back[3] /\ s[6] = back[4] /\ s[7] = back[5]
      /\ s[8] = back[6] /\ s[9] = back[7] /\ s[10] = back[8] /\ s[11] = back[9]
  BY <1>4, <1>8
<1>10. s \in Seq(Calls) /\ Len(s) = 11
  BY <1>4, <1>8
<1>11. /\ s \in Seq(Calls) /\ Len(s) = 11
       /\ s[1] = append_string(Chars(5)) /\ s[2] = append_string(id)
       /\ s[3] = start_object /\ s[4] = key_string(2, Chars(64))
       /\ s[5] = key_string(6, Chars(64)) /\ s[6] = key_number(10, ev.created_at)
       /\ s[7] = key_number(4, ev.kind) /\ s[8] = append_tags(ev.tags_len)
       /\ s[9] = key_string(7, ev.content) /\ s[10] = key_string(3, Chars(128))
       /\ s[11] = end_object
  BY <1>6, <1>8, <1>9, <1>10, Zenon
<1> QED BY <1>11 DEF s

LEMMA EventNumbers ==
  ASSUME NEW ev \in Published
  PROVE  /\ Digits(ev.created_at) \in Nat /\ Digits(ev.kind) \in Nat
         /\ ev.tags_len \in Nat /\ escaped_length[ev.content] \in Nat
<1>1. /\ ev.created_at \in Int /\ ev.kind \in Int
      /\ ev.tags_len \in Nat /\ ev.content \in Text
  BY WireInput
<1>2. Digits(ev.created_at) \in 0..11 /\ Digits(ev.kind) \in 0..11
  BY <1>1, DigitsBounded
<1>3. escaped_length[ev.content] \in Nat
  BY <1>1, EscapedLength
<1> QED BY <1>1, <1>2, <1>3

(***************************************************************************)
(* Each call begins where the one before it ends, and ends within what the *)
(* size check foresees; so does what a number asks room for.               *)
(***************************************************************************)
NeedOf(call, comma) ==
  IF call.op = "piece" THEN (IF call.comma THEN comma ELSE 0) + call.need ELSE 0

StageFits(ev, id, k) ==
  LET call  == EventCalls(ev, id)[k]
      at    == Begins(ev, id)
  IN  /\ at[k] \in Nat /\ at[k + 1] \in Nat
      /\ at[k + 1] = at[k] + Takes(call, CommaAt(k))
      /\ at[k + 1] <= at[12] /\ at[k] + NeedOf(call, CommaAt(k)) <= at[12]
      /\ call.op = "piece" => (call.opens <=> k = 3)
      /\ call.op = "string" => call.value \in Text /\ call.key \in Nat

LEMMA Stages ==
  ASSUME NEW ev \in Published, NEW id \in Text
  PROVE  /\ \A k \in 1..11 : StageFits(ev, id, k)
         /\ Begins(ev, id)[1] = 1
         /\ Begins(ev, id)[12] + 1
              = 13 + escaped_length[id] + json_serialized_event_size(ev)
<1> DEFINE at == Begins(ev, id)
           c  == EventCalls(ev, id)
           e  == escaped_length[id]
           d1 == Digits(ev.created_at)
           d2 == Digits(ev.kind)
           t  == ev.tags_len
           n  == escaped_length[ev.content]
<1>1. d1 \in Nat /\ d2 \in Nat /\ t \in Nat /\ n \in Nat /\ e \in Nat
  BY EventNumbers, EscapedLength
<1>2. ev.content \in Text /\ \A m \in Nat : Chars(m) \in Text /\ escaped_length[Chars(m)] = m
  BY WireInput, CharsAreText, EscapedLength
<1>3. /\ at[1] = 1 /\ at[2] = 8 /\ at[3] = 11 + e /\ at[4] = 13 + e /\ at[5] = 84 + e
      /\ at[6] = 160 + e /\ at[7] = 174 + e + d1 /\ at[8] = 182 + e + d1 + d2
      /\ at[9] = 190 + e + d1 + d2 + t /\ at[10] = 203 + e + d1 + d2 + t + n
      /\ at[11] = 340 + e + d1 + d2 + t + n /\ at[12] = 341 + e + d1 + d2 + t + n
  <2> HIDE DEF e, d1, d2, t, n
  <2>1. at = << 1, 8, (13 + e) - 2, 13 + e, 13 + e + 71, 13 + e + 147, 13 + e + 161 + d1,
                13 + e + 161 + d1 + 8 + d2, 13 + e + 161 + d1 + 8 + d2 + 8 + t,
                13 + e + 161 + d1 + 8 + d2 + 8 + t + 13 + n,
                13 + e + 161 + d1 + 8 + d2 + 8 + t + 13 + n + 137,
                13 + e + 161 + d1 + 8 + d2 + 8 + t + 13 + n + 138 >>
    BY DEF Begins, e, d1, d2, t, n
  <2> HIDE DEF at
  <2> QED BY <1>1, <2>1
<1>4. /\ c[1] = append_string(Chars(5)) /\ c[2] = append_string(id)
      /\ c[3] = start_object /\ c[4] = key_string(2, Chars(64))
      /\ c[5] = key_string(6, Chars(64)) /\ c[6] = key_number(10, ev.created_at)
      /\ c[7] = key_number(4, ev.kind) /\ c[8] = append_tags(ev.tags_len)
      /\ c[9] = key_string(7, ev.content) /\ c[10] = key_string(3, Chars(128))
      /\ c[11] = end_object
  BY EventCallsAre
<1>5. at[12] + 1 = 13 + escaped_length[id] + json_serialized_event_size(ev)
  <2>1. json_serialized_event_size(ev) = 329 + d1 + d2 + t + n
    <3> HIDE DEF e, d1, d2, t, n
    <3>1. json_serialized_event_size(ev) =
            1 + (5 + 1 + 64 + 1) + (1 + 9 + 1 + 64 + 1) + (1 + 13 + d1) + (1 + 7 + d2)
              + (1 + 7 + t) + (1 + 10 + 1 + n + 1) + (1 + 6 + 1 + 128 + 1) + 1
      BY DEF json_serialized_event_size, d1, d2, t, n
    <3> QED BY <1>1, <3>1
  <2> HIDE DEF d1, d2, t, n, at
  <2> QED BY <1>1, <1>3, <2>1
<1>6. StageFits(ev, id, 1)
  <2>1. c[1].op = "string" /\ c[1].key = 0 /\ c[1].value = Chars(5)
    BY <1>4 DEF append_string
  <2>2. Chars(5) \in Text /\ escaped_length[Chars(5)] = 5 /\ CommaAt(1) = 0
    BY <1>2 DEF CommaAt
  <2>3. /\ Takes(c[1], CommaAt(1)) = 2 + 5
        /\ NeedOf(c[1], CommaAt(1)) = 0
    <3> HIDE DEF c, e, n
    <3> QED BY <1>1, <2>1, <2>2 DEF Takes, NeedOf
  <2> HIDE DEF at, c, e, d1, d2, t, n
  <2> QED BY <1>1, <1>3, <2>1, <2>2, <2>3 DEF StageFits, at, c
<1>7. StageFits(ev, id, 2)
  <2>1. c[2].op = "string" /\ c[2].key = 0 /\ c[2].value = id
    BY <1>4 DEF append_string
  <2>2. id \in Text /\ escaped_length[id] = e /\ CommaAt(2) = 1
    BY <1>2 DEF CommaAt, e
  <2>3. /\ Takes(c[2], CommaAt(2)) = 3 + e
        /\ NeedOf(c[2], CommaAt(2)) = 0
    <3> HIDE DEF c, e, n
    <3> QED BY <1>1, <2>1, <2>2 DEF Takes, NeedOf
  <2> HIDE DEF at, c, e, d1, d2, t, n
  <2> QED BY <1>1, <1>3, <2>1, <2>2, <2>3 DEF StageFits, at, c
<1>8. StageFits(ev, id, 3)
  <2>1. /\ c[3].op = "piece" /\ c[3].comma = TRUE /\ c[3].need = 1
        /\ c[3].width = 1 /\ c[3].opens = TRUE /\ CommaAt(3) = 1
    BY <1>4 DEF start_object, Piece, CommaAt
  <2>2. /\ Takes(c[3], CommaAt(3)) = 1 + 1
        /\ NeedOf(c[3], CommaAt(3)) = 2
    <3> HIDE DEF c, d1, d2
    <3> QED BY <1>1, <2>1 DEF Takes, NeedOf
  <2> HIDE DEF at, c, e, d1, d2, t, n
  <2> QED BY <1>1, <1>3, <2>1, <2>2 DEF StageFits, at, c
<1>9. StageFits(ev, id, 4)
  <2>1. c[4].op = "string" /\ c[4].key = 2 /\ c[4].value = Chars(64)
    BY <1>4 DEF key_string
  <2>2. Chars(64) \in Text /\ escaped_length[Chars(64)] = 64 /\ CommaAt(4) = 0
    BY <1>2 DEF CommaAt
  <2>3. /\ Takes(c[4], CommaAt(4)) = 7 + 64
        /\ NeedOf(c[4], CommaAt(4)) = 0
    <3> HIDE DEF c, e, n
    <3> QED BY <1>1, <2>1, <2>2 DEF Takes, NeedOf
  <2> HIDE DEF at, c, e, d1, d2, t, n
  <2> QED BY <1>1, <1>3, <2>1, <2>2, <2>3 DEF StageFits, at, c
<1>10. StageFits(ev, id, 5)
  <2>1. c[5].op = "string" /\ c[5].key = 6 /\ c[5].value = Chars(64)
    BY <1>4 DEF key_string
  <2>2. Chars(64) \in Text /\ escaped_length[Chars(64)] = 64 /\ CommaAt(5) = 1
    BY <1>2 DEF CommaAt
  <2>3. /\ Takes(c[5], CommaAt(5)) = 12 + 64
        /\ NeedOf(c[5], CommaAt(5)) = 0
    <3> HIDE DEF c, e, n
    <3> QED BY <1>1, <2>1, <2>2 DEF Takes, NeedOf
  <2> HIDE DEF at, c, e, d1, d2, t, n
  <2> QED BY <1>1, <1>3, <2>1, <2>2, <2>3 DEF StageFits, at, c
<1>11. StageFits(ev, id, 6)
  <2>1. /\ c[6].op = "piece" /\ c[6].comma = TRUE /\ c[6].need = 128
        /\ c[6].width = 10 + 3 + d1 /\ c[6].opens = FALSE /\ CommaAt(6) = 1
    BY <1>4 DEF key_number, Piece, CommaAt, d1
  <2>2. /\ Takes(c[6], CommaAt(6)) = 1 + 10 + 3 + d1
        /\ NeedOf(c[6], CommaAt(6)) = 129
    <3> HIDE DEF c, d1, d2
    <3> QED BY <1>1, <2>1 DEF Takes, NeedOf
  <2> HIDE DEF at, c, e, d1, d2, t, n
  <2> QED BY <1>1, <1>3, <2>1, <2>2 DEF StageFits, at, c
<1>12. StageFits(ev, id, 7)
  <2>1. /\ c[7].op = "piece" /\ c[7].comma = TRUE /\ c[7].need = 128
        /\ c[7].width = 4 + 3 + d2 /\ c[7].opens = FALSE /\ CommaAt(7) = 1
    BY <1>4 DEF key_number, Piece, CommaAt, d2
  <2>2. /\ Takes(c[7], CommaAt(7)) = 1 + 4 + 3 + d2
        /\ NeedOf(c[7], CommaAt(7)) = 129
    <3> HIDE DEF c, d1, d2
    <3> QED BY <1>1, <2>1 DEF Takes, NeedOf
  <2> HIDE DEF at, c, e, d1, d2, t, n
  <2> QED BY <1>1, <1>3, <2>1, <2>2 DEF StageFits, at, c
<1>13. StageFits(ev, id, 8)
  <2>1. c[8].op = "tags" /\ c[8].length = t /\ CommaAt(8) = 1
    BY <1>4 DEF append_tags, CommaAt
  <2>2. Takes(c[8], CommaAt(8)) = 8 + t /\ NeedOf(c[8], CommaAt(8)) = 0
    <3> HIDE DEF c, t
    <3> QED BY <1>1, <2>1 DEF Takes, NeedOf
  <2> HIDE DEF at, c, e, d1, d2, t, n
  <2> QED BY <1>1, <1>3, <2>1, <2>2 DEF StageFits, at, c
<1>14. StageFits(ev, id, 9)
  <2>1. c[9].op = "string" /\ c[9].key = 7 /\ c[9].value = ev.content
    BY <1>4 DEF key_string
  <2>2. ev.content \in Text /\ escaped_length[ev.content] = n /\ CommaAt(9) = 1
    BY <1>2 DEF CommaAt, n
  <2>3. /\ Takes(c[9], CommaAt(9)) = 13 + n
        /\ NeedOf(c[9], CommaAt(9)) = 0
    <3> HIDE DEF c, e, n
    <3> QED BY <1>1, <2>1, <2>2 DEF Takes, NeedOf
  <2> HIDE DEF at, c, e, d1, d2, t, n
  <2> QED BY <1>1, <1>3, <2>1, <2>2, <2>3 DEF StageFits, at, c
<1>15. StageFits(ev, id, 10)
  <2>1. c[10].op = "string" /\ c[10].key = 3 /\ c[10].value = Chars(128)
    BY <1>4 DEF key_string
  <2>2. Chars(128) \in Text /\ escaped_length[Chars(128)] = 128 /\ CommaAt(10) = 1
    BY <1>2 DEF CommaAt
  <2>3. /\ Takes(c[10], CommaAt(10)) = 9 + 128
        /\ NeedOf(c[10], CommaAt(10)) = 0
    <3> HIDE DEF c, e, n
    <3> QED BY <1>1, <2>1, <2>2 DEF Takes, NeedOf
  <2> HIDE DEF at, c, e, d1, d2, t, n
  <2> QED BY <1>1, <1>3, <2>1, <2>2, <2>3 DEF StageFits, at, c
<1>16. StageFits(ev, id, 11)
  <2>1. /\ c[11].op = "piece" /\ c[11].comma = FALSE /\ c[11].need = 1
        /\ c[11].width = 1 /\ c[11].opens = FALSE /\ CommaAt(11) = 1
    BY <1>4 DEF end_object, Piece, CommaAt
  <2>2. /\ Takes(c[11], CommaAt(11)) = 0 + 1
        /\ NeedOf(c[11], CommaAt(11)) = 1
    <3> HIDE DEF c, d1, d2
    <3> QED BY <1>1, <2>1 DEF Takes, NeedOf
  <2> HIDE DEF at, c, e, d1, d2, t, n
  <2> QED BY <1>1, <1>3, <2>1, <2>2 DEF StageFits, at, c
<1>17. ASSUME NEW k \in 1..11 PROVE StageFits(ev, id, k)
  <2>1. k \in {1, 2, 3, 4, 5, 6, 7, 8, 9, 10, 11}
    OBVIOUS
  <2> QED BY <1>6, <1>7, <1>8, <1>9, <1>10, <1>11, <1>12, <1>13, <1>14, <1>15, <1>16, <2>1
<1> QED BY <1>3, <1>5, <1>17

-----------------------------------------------------------------------------
LEMMA NextCall ==
  ASSUME NEW ev \in Published, NEW id \in Text, NEW k \in 1..12, Ahead(ev, id, k)
  PROVE  /\ calls = << >> => k = 12
         /\ calls # << >> => /\ k \in 1..11
                             /\ Head(calls) = EventCalls(ev, id)[k]
                             /\ Tail(calls) = SubSeq(EventCalls(ev, id), k + 1, 11)
<1> DEFINE c == EventCalls(ev, id)
<1>1. c \in Seq(Calls) /\ Len(c) = 11
  BY EventCallsAre
<1> HIDE DEF c
<1>2. calls = SubSeq(c, k, 11)
  BY DEF Ahead, c
<1>3. CASE k = 12
  <2>1. calls = << >>
    BY <1>2, <1>3, SubSeqEmpty
  <2> QED BY <1>3, <2>1
<1>4. CASE k \in 1..11
  <2>1. k \in 1..Len(c) /\ 11 \in k..Len(c)
    BY <1>1, <1>4
  <2>2. Head(SubSeq(c, k, 11)) = c[k] /\ Tail(SubSeq(c, k, 11)) = SubSeq(c, k + 1, 11)
    BY <1>1, <2>1, HeadTailOfSubSeq
  <2>3. Len(SubSeq(c, k, 11)) = 11 - k + 1
    BY <1>1, <1>4, SubSeqProperties, ElementOfSeq
  <2>4. calls # << >>
    <3>1. Len(calls) = 11 - k + 1
      BY <1>2, <2>3
    <3> QED BY <1>4, <3>1
  <2> QED BY <1>2, <1>4, <2>2, <2>4 DEF c
<1> QED BY <1>3, <1>4

(* There is room for all that is foreseen, and for the NUL. *)
LEMMA AdmittedFits ==
  ASSUME NEW ev \in Published, NEW id \in Text, FitsBuffer(ev),
         escaped_length[id] <= Margin - 14
  PROVE  Begins(ev, id)[12] + 1 < BufferSize
<1>1. Begins(ev, id)[12] + 1 = 13 + escaped_length[id] + json_serialized_event_size(ev)
  BY Stages
<1>2. json_serialized_event_size(ev) + Margin <= BufferSize
  BY DEF FitsBuffer
<1>3. escaped_length[id] \in Nat
  BY EscapedLength
<1>4. Begins(ev, id)[12] \in Nat
  <2>1. StageFits(ev, id, 11)
    BY Stages
  <2> QED BY <2>1 DEF StageFits
<1>5. json_serialized_event_size(ev) \in Int
  <2> DEFINE d1 == Digits(ev.created_at)
             d2 == Digits(ev.kind)
             t  == ev.tags_len
             n  == escaped_length[ev.content]
  <2>1. d1 \in Nat /\ d2 \in Nat /\ t \in Nat /\ n \in Nat
    BY EventNumbers
  <2>2. json_serialized_event_size(ev) =
          1 + (5 + 1 + 64 + 1) + (1 + 9 + 1 + 64 + 1) + (1 + 13 + d1) + (1 + 7 + d2)
            + (1 + 7 + t) + (1 + 10 + 1 + n + 1) + (1 + 6 + 1 + 128 + 1) + 1
    BY DEF json_serialized_event_size
  <2> HIDE DEF d1, d2, t, n
  <2> QED BY <2>1, <2>2
<1> DEFINE size == json_serialized_event_size(ev)
<1> HIDE DEF size
<1> QED BY <1>1, <1>2, <1>3, <1>4, <1>5, BufferHasRoom, MarginIsNat DEF size

(***************************************************************************)
(* A piece, the tags or the opening of a string takes what is foreseen; if *)
(* the event was admitted, there is room for it.                           *)
(***************************************************************************)
LEMMA PieceProgress ==
  ASSUME NEW ev \in Published, NEW id \in Text, FitsBuffer(ev), BuilderInv,
         EventProgress(ev, id), AppendPiece
  PROVE  EventProgress(ev, id)'
<1> DEFINE at == Begins(ev, id)
           c  == EventCalls(ev, id)
<1>1. builder = "calls" /\ calls # << >> /\ Head(calls).op = "piece"
  BY DEF AppendPiece, Due
<1>2. PICK k \in 1..12 : /\ Ahead(ev, id, k)
                         /\ whole => pos = at[k] /\ (last = "open" <=> k \in {1, 4})
  BY <1>1 DEF EventProgress
<1>3. k \in 1..11 /\ Head(calls) = c[k] /\ Tail(calls) = SubSeq(c, k + 1, 11)
  BY <1>1, <1>2, NextCall
<1>4. StageFits(ev, id, k)
  BY <1>3, Stages
<1>5. /\ at[k] \in Nat /\ at[k + 1] \in Nat
      /\ at[k + 1] = at[k] + (IF c[k].comma THEN CommaAt(k) ELSE 0) + c[k].width
      /\ at[k + 1] <= at[12]
      /\ at[k] + (IF c[k].comma THEN CommaAt(k) ELSE 0) + c[k].need <= at[12]
      /\ (c[k].opens <=> k = 3)
  <2> HIDE DEF at, c
  <2>1. c[k].op = "piece"
    BY <1>1, <1>3
  <2>2. /\ at[k] \in Nat /\ at[k + 1] \in Nat
        /\ at[k + 1] = at[k] + Takes(c[k], CommaAt(k))
        /\ at[k + 1] <= at[12] /\ at[k] + NeedOf(c[k], CommaAt(k)) <= at[12]
        /\ c[k].op = "piece" => (c[k].opens <=> k = 3)
    BY <1>4 DEF StageFits, at, c
  <2>3. c[k] \in PieceCalls
    <3>1. c[k] \in Calls
      BY <1>1, <1>3, CallsAreTyped DEF BuilderInv
    <3> QED BY <2>1, <3>1 DEF Calls, StringCalls, TagsCalls
  <2>4. c[k].width \in Nat /\ c[k].need \in Nat /\ c[k].comma \in BOOLEAN
    BY <2>3 DEF PieceCalls
  <2> QED BY <2>1, <2>2, <2>4 DEF Takes, NeedOf, CommaAt
<1> HIDE DEF at, c
<1> DEFINE piece == Head(calls)
           from  == IF piece.comma THEN AfterComma ELSE pos
           fits  == ensure_space(from, piece.need)
<1>6. /\ pos' = IF fits THEN from + piece.width ELSE from
      /\ last' = IF fits THEN (IF piece.opens THEN "open" ELSE "other")
                 ELSE IF from # pos THEN "other" ELSE last
      /\ whole' = (whole /\ fits /\ (piece.comma => NoneLost))
      /\ calls' = Tail(calls) /\ builder' = builder
  BY DEF AppendPiece
<1>7. ASSUME whole, piece.comma => NoneLost
      PROVE  from = at[k] + (IF c[k].comma THEN CommaAt(k) ELSE 0)
  <2>1. pos = at[k] /\ (last = "open" <=> k \in {1, 4}) /\ piece = c[k]
    BY <1>2, <1>3, <1>7
  <2> HIDE DEF piece
  <2>2. CASE piece.comma
    BY <1>5, <1>7, <2>1, <2>2 DEF AfterComma, NoneLost, CommaIsDue, CommaAt
  <2>3. CASE ~piece.comma
    BY <1>5, <2>1, <2>3
  <2> QED BY <2>2, <2>3
<1>8. Ahead(ev, id, k + 1)' /\ k + 1 \in 1..12
  BY <1>3, <1>6 DEF Ahead, c
<1>9. whole' => pos' = at[k + 1] /\ (last' = "open" <=> k + 1 \in {1, 4})
  <2> SUFFICES ASSUME whole' PROVE pos' = at[k + 1] /\ (last' = "open" <=> k + 1 \in {1, 4})
    OBVIOUS
  <2>1. whole /\ fits /\ (piece.comma => NoneLost)
    BY <1>6, Zenon
  <2>2. from = at[k] + (IF c[k].comma THEN CommaAt(k) ELSE 0)
    BY <1>7, <2>1
  <2>3. pos' = from + c[k].width /\ last' = (IF c[k].opens THEN "open" ELSE "other")
    BY <1>3, <1>6, <2>1
  <2> HIDE DEF from
  <2>4. c[k].width \in Int
    <3>1. c[k] \in Calls
      BY <1>1, <1>3, CallsAreTyped DEF BuilderInv
    <3> QED BY <1>1, <1>3, <3>1 DEF Calls, StringCalls, TagsCalls, PieceCalls
  <2> QED BY <1>3, <1>5, <2>2, <2>3, <2>4
<1>10. escaped_length[id] <= Margin - 14 => whole'
  <2> SUFFICES ASSUME escaped_length[id] <= Margin - 14 PROVE whole'
    OBVIOUS
  <2>1. whole /\ at[12] + 1 < BufferSize
    BY AdmittedFits DEF EventProgress, at
  <2>2. pos = at[k] /\ (last = "open" <=> k \in {1, 4}) /\ piece = c[k]
    BY <1>2, <1>3, <2>1
  <2>3. at[12] \in Nat
    <3>1. StageFits(ev, id, 11)
      BY Stages
    <3> QED BY <3>1 DEF StageFits, at
  <2>4. c[k].width \in Nat /\ c[k].need \in Nat /\ c[k].width <= c[k].need /\ c[k].comma \in BOOLEAN
    <3>1. c[k] \in Calls
      BY <1>1, <1>3, CallsAreTyped DEF BuilderInv
    <3> QED BY <1>1, <1>3, <3>1 DEF Calls, StringCalls, TagsCalls, PieceCalls
  <2>5. piece.comma => NoneLost
    <3> HIDE DEF piece
    <3>1. c[k].comma /\ k \notin {1, 4} => at[k] + 1 < BufferSize
      BY <1>5, <2>1, <2>3, <2>4, BufferHasRoom DEF CommaAt
    <3> QED BY <2>2, <3>1 DEF NoneLost, CommaIsDue, ensure_space
  <2>6. from = at[k] + (IF c[k].comma THEN CommaAt(k) ELSE 0)
    BY <1>7, <2>1, <2>5
  <2>7. fits
    <3> HIDE DEF from, piece
    <3> QED BY <1>5, <2>1, <2>2, <2>3, <2>4, <2>6, BufferHasRoom DEF ensure_space, CommaAt
  <2> QED BY <1>6, <2>1, <2>5, <2>7, Zenon
<1> QED BY <1>1, <1>6, <1>8, <1>9, <1>10 DEF EventProgress, at

LEMMA TagsProgress ==
  ASSUME NEW ev \in Published, NEW id \in Text, FitsBuffer(ev), BuilderInv,
         EventProgress(ev, id), AppendTags
  PROVE  EventProgress(ev, id)'
<1> DEFINE at == Begins(ev, id)
           c  == EventCalls(ev, id)
<1>1. builder = "calls" /\ calls # << >> /\ Head(calls).op = "tags"
  BY DEF AppendTags, Due
<1>2. PICK k \in 1..12 : /\ Ahead(ev, id, k)
                         /\ whole => pos = at[k] /\ (last = "open" <=> k \in {1, 4})
  BY <1>1 DEF EventProgress
<1>3. k \in 1..11 /\ Head(calls) = c[k] /\ Tail(calls) = SubSeq(c, k + 1, 11)
  BY <1>1, <1>2, NextCall
<1>4. StageFits(ev, id, k) /\ StageFits(ev, id, 11)
  BY <1>3, Stages
<1>5. k = 8
  <2>1. c[k].op = "tags"
    BY <1>1, <1>3
  <2>2. \A j \in 1..11 : j # 8 => c[j].op # "tags"
    <3>1. /\ c[1] = append_string(Chars(5)) /\ c[2] = append_string(id)
          /\ c[3] = start_object /\ c[4] = key_string(2, Chars(64))
          /\ c[5] = key_string(6, Chars(64)) /\ c[6] = key_number(10, ev.created_at)
          /\ c[7] = key_number(4, ev.kind)
          /\ c[9] = key_string(7, ev.content) /\ c[10] = key_string(3, Chars(128))
          /\ c[11] = end_object
      BY EventCallsAre
    <3>2. /\ c[1].op = "string" /\ c[2].op = "string" /\ c[4].op = "string" /\ c[5].op = "string"
          /\ c[9].op = "string" /\ c[10].op = "string" /\ c[3].op = "piece" /\ c[6].op = "piece"
          /\ c[7].op = "piece" /\ c[11].op = "piece"
      BY <3>1 DEF append_string, key_string, start_object, end_object, key_number, Piece
    <3> HIDE DEF c
    <3> QED BY <3>2
  <2> HIDE DEF c
  <2> QED BY <1>3, <2>1, <2>2
<1>6. /\ at[k] \in Nat /\ at[k + 1] \in Nat /\ at[12] \in Nat /\ c[k].length \in Nat
      /\ at[k + 1] = at[k] + 1 + 7 + c[k].length /\ at[k + 1] <= at[12]
  <2>1. c[k] \in Calls
    BY <1>1, <1>3, CallsAreTyped DEF BuilderInv
  <2>2. c[k].length \in Nat /\ c[k].op = "tags"
    BY <1>1, <1>3, <2>1 DEF Calls, StringCalls, TagsCalls, PieceCalls
  <2> HIDE DEF at, c
  <2>3. Takes(c[k], CommaAt(k)) = 1 + 7 + c[k].length
    BY <1>5, <2>2 DEF Takes, CommaAt
  <2>4. /\ at[k] \in Nat /\ at[k + 1] \in Nat /\ at[12] \in Nat /\ at[k + 1] <= at[12]
        /\ at[k + 1] = at[k] + Takes(c[k], CommaAt(k))
    BY <1>4 DEF StageFits, at, c
  <2> QED BY <2>2, <2>3, <2>4
<1> HIDE DEF at, c
<1> DEFINE length == Head(calls).length
           keyed  == ensure_space(AfterComma, 7)
           value  == IF keyed THEN AfterComma + 7 ELSE AfterComma
           fits   == ensure_space(value, length)
<1>7. /\ fits => pos' = value + length /\ last' = "other"
      /\ whole' = (whole /\ NoneLost /\ keyed /\ fits)
      /\ calls' = Tail(calls) /\ builder' = builder
  BY DEF AppendTags
<1>8. ASSUME whole, NoneLost, keyed
      PROVE  value = at[k] + 1 + 7
  <2>1. AfterComma = at[k] + 1
    BY <1>2, <1>5, <1>8 DEF AfterComma, NoneLost, CommaIsDue
  <2> QED BY <1>6, <1>8, <2>1
<1>9. Ahead(ev, id, k + 1)' /\ k + 1 \in 1..12
  BY <1>3, <1>7 DEF Ahead, c
<1>10. whole' => pos' = at[k + 1] /\ (last' = "open" <=> k + 1 \in {1, 4})
  <2> SUFFICES ASSUME whole' PROVE pos' = at[k + 1] /\ (last' = "open" <=> k + 1 \in {1, 4})
    OBVIOUS
  <2>1. whole /\ NoneLost /\ keyed /\ fits
    BY <1>7, Zenon
  <2>2. value = at[k] + 1 + 7
    BY <1>8, <2>1
  <2>3. pos' = value + length /\ last' = "other" /\ length = c[k].length
    BY <1>3, <1>7, <2>1
  <2> HIDE DEF value, length
  <2> QED BY <1>5, <1>6, <2>2, <2>3
<1>11. escaped_length[id] <= Margin - 14 => whole'
  <2> SUFFICES ASSUME escaped_length[id] <= Margin - 14 PROVE whole'
    OBVIOUS
  <2>1. whole /\ at[12] + 1 < BufferSize
    BY AdmittedFits DEF EventProgress, at
  <2>2. pos = at[k] /\ last # "open" /\ length = c[k].length
    BY <1>2, <1>3, <1>5, <2>1
  <2>3. NoneLost /\ AfterComma = at[k] + 1
    BY <1>6, <2>1, <2>2, BufferHasRoom DEF NoneLost, AfterComma, CommaIsDue, ensure_space
  <2>4. keyed
    BY <1>6, <2>1, <2>3, BufferHasRoom DEF ensure_space
  <2>5. value = at[k] + 1 + 7
    BY <1>8, <2>1, <2>3, <2>4
  <2>6. fits
    <3> HIDE DEF value, length
    <3> QED BY <1>6, <2>1, <2>2, <2>5, BufferHasRoom DEF ensure_space
  <2> QED BY <1>7, <2>1, <2>3, <2>4, <2>6, Zenon
<1> QED BY <1>1, <1>7, <1>9, <1>10, <1>11 DEF EventProgress, at

LEMMA OpeningProgress ==
  ASSUME NEW ev \in Published, NEW id \in Text, FitsBuffer(ev), BuilderInv,
         EventProgress(ev, id), OpenString
  PROVE  EventProgress(ev, id)'
<1> DEFINE at == Begins(ev, id)
           c  == EventCalls(ev, id)
<1>1. builder = "calls" /\ calls # << >> /\ Head(calls).op = "string"
  BY DEF OpenString, Due
<1>2. PICK k \in 1..12 : /\ Ahead(ev, id, k)
                         /\ whole => pos = at[k] /\ (last = "open" <=> k \in {1, 4})
  BY <1>1 DEF EventProgress
<1>3. k \in 1..11 /\ Head(calls) = c[k] /\ Tail(calls) = SubSeq(c, k + 1, 11)
  BY <1>1, <1>2, NextCall
<1>4. StageFits(ev, id, k) /\ StageFits(ev, id, 11)
  BY <1>3, Stages
<1>5. /\ at[k] \in Nat /\ at[k + 1] \in Nat /\ at[12] \in Nat
      /\ c[k].key \in Nat /\ c[k].value \in Text /\ escaped_length[c[k].value] \in Nat
      /\ at[k + 1] = at[k] + CommaAt(k) + (IF c[k].key = 0 THEN 0 ELSE c[k].key + 3)
                       + escaped_length[c[k].value] + 2
      /\ at[k + 1] <= at[12]
  <2>1. c[k].op = "string"
    BY <1>1, <1>3
  <2> HIDE DEF at, c
  <2>2. /\ at[k] \in Nat /\ at[k + 1] \in Nat /\ at[12] \in Nat /\ at[k + 1] <= at[12]
        /\ at[k + 1] = at[k] + Takes(c[k], CommaAt(k))
        /\ c[k].value \in Text /\ c[k].key \in Nat
    BY <1>4, <2>1 DEF StageFits, at, c
  <2>3. Takes(c[k], CommaAt(k)) = CommaAt(k) + (IF c[k].key = 0 THEN 0 ELSE c[k].key + 3)
                                    + escaped_length[c[k].value] + 2
    BY <2>1 DEF Takes
  <2>4. escaped_length[c[k].value] \in Nat
    BY <2>2, EscapedLength
  <2> QED BY <2>2, <2>3, <2>4 DEF CommaAt
<1> HIDE DEF at, c
<1> DEFINE key    == Head(calls).key
           keyed  == key = 0 \/ ensure_space(AfterComma, 4)
           from   == IF keyed THEN AfterKey(AfterComma, key) ELSE AfterComma
           quoted == keyed /\ ensure_space(from, 2)
<1>6. /\ quoted => /\ pos' = from + 1 /\ last' = "other"
                   /\ builder' = "string" /\ rest' = Head(calls).value /\ calls' = calls
      /\ ~quoted => calls' = Tail(calls) /\ builder' = builder
      /\ whole' = (whole /\ NoneLost /\ quoted)
  BY DEF OpenString
<1>7. ASSUME whole, NoneLost, quoted
      PROVE  from = at[k] + CommaAt(k) + (IF c[k].key = 0 THEN 0 ELSE c[k].key + 3)
  <2>1. AfterComma = at[k] + CommaAt(k) /\ key = c[k].key
    BY <1>2, <1>3, <1>5, <1>7 DEF AfterComma, NoneLost, CommaIsDue, CommaAt
  <2>2. keyed /\ from + 2 < BufferSize
    BY <1>7, Zenon DEF ensure_space
  <2>3. from = AfterKey(AfterComma, key)
    BY <2>2
  <2> HIDE DEF from, keyed, key
  <2> QED BY <1>5, <2>1, <2>2, <2>3, BufferHasRoom DEF AfterKey, CommaAt
<1>8. escaped_length[id] <= Margin - 14 => whole'
  <2> SUFFICES ASSUME escaped_length[id] <= Margin - 14 PROVE whole'
    OBVIOUS
  <2>1. whole /\ at[12] + 1 < BufferSize
    BY AdmittedFits DEF EventProgress, at
  <2>2. pos = at[k] /\ (last = "open" <=> k \in {1, 4}) /\ key = c[k].key
    BY <1>2, <1>3, <2>1
  <2>3. NoneLost /\ AfterComma = at[k] + CommaAt(k)
    BY <1>5, <2>1, <2>2, BufferHasRoom DEF NoneLost, AfterComma, CommaIsDue, ensure_space, CommaAt
  <2> HIDE DEF key
  <2>4. keyed
    BY <1>5, <2>1, <2>2, <2>3, BufferHasRoom DEF ensure_space, CommaAt
  <2>5. from = at[k] + CommaAt(k) + (IF c[k].key = 0 THEN 0 ELSE c[k].key + 3)
    <3>1. from = AfterKey(AfterComma, key)
      BY <2>4
    <3> HIDE DEF from, keyed
    <3> QED BY <1>5, <2>1, <2>2, <2>3, <3>1, BufferHasRoom DEF AfterKey, CommaAt
  <2>6. quoted
    <3>1. from + 2 < BufferSize
      <4> HIDE DEF from, keyed
      <4> QED BY <1>5, <2>1, <2>5, BufferHasRoom DEF CommaAt
    <3> QED BY <2>4, <3>1, Zenon DEF ensure_space
  <2> HIDE DEF quoted
  <2> QED BY <1>6, <2>1, <2>3, <2>6, Zenon
<1>9. CASE quoted
  <2>1. /\ pos' = from + 1 /\ last' = "other"
        /\ builder' = "string" /\ rest' = c[k].value /\ calls' = calls
    BY <1>3, <1>6, <1>9
  <2>2. Ahead(ev, id, k)' /\ EventCalls(ev, id)[k].op = "string"
    BY <1>1, <1>2, <1>3, <2>1 DEF Ahead, c
  <2>3. whole' => pos' + escaped_length[rest'] + 1 = at[k + 1]
    <3> SUFFICES ASSUME whole' PROVE pos' + escaped_length[rest'] + 1 = at[k + 1]
      OBVIOUS
    <3>1. from = at[k] + CommaAt(k) + (IF c[k].key = 0 THEN 0 ELSE c[k].key + 3)
      <4>1. whole /\ NoneLost /\ quoted
        BY <1>6, Zenon
      <4> QED BY <1>7, <4>1
    <3> HIDE DEF from, quoted, keyed
    <3> QED BY <1>5, <2>1, <3>1 DEF CommaAt
  <2> HIDE DEF quoted, from, keyed
  <2> QED BY <1>3, <1>8, <2>1, <2>2, <2>3 DEF EventProgress, at
<1>10. CASE ~quoted
  <2>1. calls' = Tail(calls) /\ builder' = "calls" /\ ~whole'
    <3> HIDE DEF quoted
    <3> QED BY <1>1, <1>6, <1>10, Zenon
  <2>2. Ahead(ev, id, k + 1)' /\ k + 1 \in 1..12
    BY <1>3, <2>1 DEF Ahead, c
  <2> HIDE DEF quoted, from, keyed
  <2> QED BY <1>8, <2>1, <2>2 DEF EventProgress
<1> QED BY <1>9, <1>10

(***************************************************************************)
(* A run is written whole as long as the buffer has room for what follows. *)
(***************************************************************************)
LEMMA EscapingProgress ==
  ASSUME NEW ev \in Published, NEW id \in Text, FitsBuffer(ev), BuilderInv,
         EventProgress(ev, id), EscapeRun
  PROVE  EventProgress(ev, id)'
<1> DEFINE at == Begins(ev, id)
           run == Head(rest)
<1>1. builder = "string" /\ rest # << >> /\ rest \in Text /\ pos \in Nat
      /\ builder' = builder /\ last' = last /\ calls' = calls
  BY DEF EscapeRun, BuilderInv
<1>2. PICK k \in 1..11 :
        /\ Ahead(ev, id, k) /\ EventCalls(ev, id)[k].op = "string"
        /\ whole => pos + escaped_length[rest] + 1 = at[k + 1] /\ last # "open"
  BY <1>1 DEF EventProgress
<1>3. StageFits(ev, id, k) /\ StageFits(ev, id, 11)
  BY Stages
<1>4. at[k + 1] \in Nat /\ at[12] \in Nat /\ at[k + 1] <= at[12]
  BY <1>3 DEF StageFits
<1>5. run \in Width \X Nat /\ Tail(rest) \in Text
  BY <1>1 DEF Text
<1>6. PICK n \in 0..run[2] :
        /\ n < run[2] => ~ensure_space(pos + run[1] * n, run[1])
        /\ pos' = pos + run[1] * n
        /\ rest' = IF n < run[2] THEN << >> ELSE Tail(rest)
        /\ whole' = (whole /\ n = run[2])
  BY DEF EscapeRun
<1>7. /\ run[1] \in {1, 2, 6} /\ run[2] \in Nat /\ n \in Nat /\ n <= run[2]
      /\ escaped_length[rest] = run[1] * run[2] + escaped_length[Tail(rest)]
      /\ escaped_length[Tail(rest)] \in Nat
  <2>1. run[1] \in {1, 2, 6} /\ run[2] \in Nat
    BY <1>5 DEF Width, Plain, Short, Control
  <2>2. /\ escaped_length[rest] = run[1] * run[2] + escaped_length[Tail(rest)]
        /\ escaped_length[Tail(rest)] \in Nat
    BY <1>1, <1>5, EscapedLength
  <2> QED BY <2>1, <2>2
<1> HIDE DEF at, run
<1>8. whole' => pos' + escaped_length[rest'] + 1 = at[k + 1] /\ last' # "open"
  <2> SUFFICES ASSUME whole' PROVE pos' + escaped_length[rest'] + 1 = at[k + 1] /\ last' # "open"
    OBVIOUS
  <2>1. whole /\ n = run[2]
    BY <1>6, Zenon
  <2>2. pos + (run[1] * run[2] + escaped_length[Tail(rest)]) + 1 = at[k + 1] /\ last # "open"
    BY <1>2, <1>7, <2>1
  <2>3. pos' = pos + run[1] * run[2] /\ rest' = Tail(rest)
    BY <1>6, <1>7, <2>1
  <2>4. run[1] * run[2] \in Nat
    BY <1>7
  <2> DEFINE size == run[1] * run[2]
  <2> HIDE DEF size
  <2>5. pos + size + escaped_length[Tail(rest)] + 1 = at[k + 1]
    <3>1. size \in Nat /\ pos + (size + escaped_length[Tail(rest)]) + 1 = at[k + 1]
      BY <2>2, <2>4 DEF size
    <3> QED BY <1>1, <1>4, <1>7, <3>1
  <2>6. pos' = pos + size
    BY <2>3 DEF size
  <2> QED BY <1>1, <2>2, <2>3, <2>5, <2>6
<1>9. escaped_length[id] <= Margin - 14 => whole'
  <2> SUFFICES ASSUME escaped_length[id] <= Margin - 14, n < run[2] PROVE FALSE
    <3>1. n = run[2] \/ n < run[2]
      BY <1>7
    <3> QED BY <1>6, <3>1, Zenon DEF EventProgress
  <2>1. whole /\ at[12] + 1 < BufferSize
    BY AdmittedFits DEF EventProgress, at
  <2>2. pos + escaped_length[rest] + 1 = at[k + 1]
    BY <1>2, <2>1
  <2>3. ~(pos + run[1] * n + run[1] < BufferSize)
    BY <1>6 DEF ensure_space
  <2> DEFINE behind == escaped_length[Tail(rest)]
             taken  == escaped_length[rest]
             w == run[1]
             m == run[2]
  <2>4. /\ w \in {1, 2, 6} /\ m \in Nat /\ behind \in Nat /\ taken = w * m + behind
        /\ pos + taken + 1 = at[k + 1] /\ ~(pos + w * n + w < BufferSize) /\ n < m
    BY <1>7, <2>2, <2>3
  <2> HIDE DEF behind, taken, w, m
  <2>5. CASE w = 1
    BY <1>1, <1>4, <1>7, <2>1, <2>4, <2>5, BufferHasRoom
  <2>6. CASE w = 2
    BY <1>1, <1>4, <1>7, <2>1, <2>4, <2>6, BufferHasRoom
  <2>7. CASE w = 6
    BY <1>1, <1>4, <1>7, <2>1, <2>4, <2>7, BufferHasRoom
  <2> QED BY <2>4, <2>5, <2>6, <2>7
<1>10. Ahead(ev, id, k)'
  BY <1>1, <1>2 DEF Ahead
<1> QED BY <1>1, <1>2, <1>8, <1>9, <1>10 DEF EventProgress, at

LEMMA ClosingProgress ==
  ASSUME NEW ev \in Published, NEW id \in Text, FitsBuffer(ev), BuilderInv,
         EventProgress(ev, id), CloseString
  PROVE  EventProgress(ev, id)'
<1> DEFINE at == Begins(ev, id)
<1>1. /\ builder = "string" /\ rest = << >> /\ pos \in Nat /\ calls # << >>
      /\ builder' = "calls" /\ last' = last /\ calls' = Tail(calls)
      /\ pos' = (IF ensure_space(pos, 1) THEN pos + 1 ELSE pos)
      /\ whole' = (whole /\ ensure_space(pos, 1))
  BY DEF CloseString, BuilderInv
<1>2. PICK k \in 1..11 :
        /\ Ahead(ev, id, k) /\ EventCalls(ev, id)[k].op = "string"
        /\ whole => pos + escaped_length[rest] + 1 = at[k + 1] /\ last # "open"
  BY <1>1 DEF EventProgress
<1>3. Tail(calls) = SubSeq(EventCalls(ev, id), k + 1, 11) /\ StageFits(ev, id, k) /\ StageFits(ev, id, 11)
  BY <1>1, <1>2, NextCall, Stages
<1>4. at[k + 1] \in Nat /\ at[12] \in Nat /\ at[k + 1] <= at[12]
  BY <1>3 DEF StageFits
<1>5. k + 1 \notin {1, 4} /\ k + 1 \in 1..12
  <2>1. k # 3
    <3>1. EventCalls(ev, id)[3] = start_object
      BY EventCallsAre
    <3>2. EventCalls(ev, id)[3].op = "piece"
      BY <3>1 DEF start_object, Piece
    <3> QED BY <1>2, <3>2
  <2> QED BY <2>1
<1> HIDE DEF at
<1>6. whole => pos + 1 = at[k + 1] /\ last # "open"
  <2>1. escaped_length[rest] = 0
    BY <1>1, EscapedLength
  <2> QED BY <1>1, <1>2, <2>1
<1>7. whole' => pos' = at[k + 1] /\ (last' = "open" <=> k + 1 \in {1, 4})
  <2> SUFFICES ASSUME whole' PROVE pos' = at[k + 1] /\ (last' = "open" <=> k + 1 \in {1, 4})
    OBVIOUS
  <2>1. whole /\ ensure_space(pos, 1)
    BY <1>1, Zenon
  <2>2. pos' = pos + 1 /\ last' # "open" /\ pos + 1 = at[k + 1]
    BY <1>1, <1>6, <2>1
  <2> QED BY <1>5, <2>2
<1>8. escaped_length[id] <= Margin - 14 => whole'
  <2> SUFFICES ASSUME escaped_length[id] <= Margin - 14 PROVE whole'
    OBVIOUS
  <2>1. whole /\ at[12] + 1 < BufferSize
    BY AdmittedFits DEF EventProgress, at
  <2>2. ensure_space(pos, 1)
    BY <1>1, <1>4, <1>6, <2>1, BufferHasRoom DEF ensure_space
  <2> QED BY <1>1, <2>1, <2>2, Zenon
<1>9. Ahead(ev, id, k + 1)'
  BY <1>1, <1>3 DEF Ahead
<1> QED BY <1>1, <1>5, <1>7, <1>8, <1>9 DEF EventProgress, at

LEMMA FinishingProgress ==
  ASSUME NEW ev \in Published, NEW id \in Text, FitsBuffer(ev), BuilderInv,
         EventProgress(ev, id), FinishMessage
  PROVE  EventProgress(ev, id)'
<1> DEFINE at == Begins(ev, id)
<1>1. /\ builder = "calls" /\ calls = << >> /\ pos \in Nat /\ builder' = "ready"
      /\ pos' = (IF ensure_space(pos, 1) THEN pos + 1 ELSE pos)
      /\ whole' = (whole /\ ensure_space(pos, 1))
  BY DEF FinishMessage, BuilderInv
<1>2. whole => pos = at[12]
  <2>1. PICK k \in 1..12 : Ahead(ev, id, k) /\ (whole => pos = at[k])
    BY <1>1 DEF EventProgress
  <2>2. k = 12
    BY <1>1, <2>1, NextCall
  <2> QED BY <2>1, <2>2
<1>3. whole' => pos' = at[12] + 1
  <2> SUFFICES ASSUME whole' PROVE pos' = at[12] + 1
    OBVIOUS
  <2>1. whole /\ ensure_space(pos, 1)
    BY <1>1, Zenon
  <2> QED BY <1>1, <1>2, <2>1
<1>4. escaped_length[id] <= Margin - 14 => whole'
  <2> SUFFICES ASSUME escaped_length[id] <= Margin - 14 PROVE whole'
    OBVIOUS
  <2>1. whole /\ at[12] + 1 < BufferSize
    BY AdmittedFits DEF EventProgress
  <2>2. ensure_space(pos, 1)
    BY <1>2, <2>1 DEF ensure_space
  <2> QED BY <1>1, <2>1, <2>2, Zenon
<1> QED BY <1>1, <1>3, <1>4 DEF EventProgress

LEMMA WritingProgress ==
  ASSUME NEW ev \in Published, NEW id \in Text, FitsBuffer(ev), BuilderInv,
         EventProgress(ev, id), Building
  PROVE  EventProgress(ev, id)'
BY PieceProgress, TagsProgress, OpeningProgress, EscapingProgress, ClosingProgress,
   FinishingProgress DEF Building

-----------------------------------------------------------------------------
LEMMA StartingProgress ==
  ASSUME NEW ev \in Published, NEW id \in Text, SendNext, Head(outbox) = EventMessage(ev, id)
  PROVE  EventProgress(ev, id)'
<1> DEFINE c == EventCalls(ev, id)
<1>1. /\ builder' = "calls" /\ calls' = EventMessage(ev, id).calls
      /\ pos' = 1 /\ last' = "open" /\ whole' = TRUE
  BY DEF SendNext, StartMessage
<1>2. EventMessage(ev, id).calls = c
  BY DEF EventMessage, Message, EventCalls
<1>3. c = SubSeq(c, 1, 11)
  <2>1. c \in Seq(Calls) /\ Len(c) = 11
    BY EventCallsAre
  <2> HIDE DEF c
  <2> QED BY <2>1, SubSeqFull
<1>4. Ahead(ev, id, 1)'
  BY <1>1, <1>2, <1>3 DEF Ahead
<1>5. Begins(ev, id)[1] = 1
  BY Stages
<1> QED BY <1>1, <1>4, <1>5 DEF EventProgress

(* While the builder rests, so does the progress of what it writes. *)
LEMMA StandingProgress ==
  ASSUME SizeInv, UNCHANGED builderVars, UNCHANGED sending,
         \A i \in DOMAIN outbox' : outbox'[i].is = "EVENT" => outbox'[i] \in Admitted
  PROVE  SizeInv'
<1>1. ASSUME NEW ev, NEW id, EventProgress(ev, id)
      PROVE  EventProgress(ev, id)'
  <2>1. \A k : Ahead(ev, id, k) <=> Ahead(ev, id, k)'
    BY DEF Ahead, builderVars
  <2> QED BY <1>1, <2>1 DEF EventProgress, builderVars
<1>2. (sending # Nothing /\ sending.is = "EVENT" =>
         \E ev \in {e \in Published : FitsBuffer(e)}, id \in SubscriberId :
           sending = EventMessage(ev, id) /\ EventProgress(ev, id))'
  BY <1>1, Zenon DEF SizeInv
<1> QED BY <1>2 DEF SizeInv

LEMMA AnswersAreNoEvents ==
  /\ \A accepted \in BOOLEAN : Ok(accepted).is = "OK"
  /\ Notice.is = "NOTICE"
  /\ \A id : Closed(id).is = "CLOSED"
  /\ \A id : \A auth_hint \in BOOLEAN : Eose(id, auth_hint).is = "EOSE"
  /\ \A id, n : Count(id, n).is = "COUNT"
BY DEF Ok, Notice, Closed, Eose, Count, Message

LEMMA SizeStep ==
  ASSUME WireInv, SizeInv, [WireNext]_wireVars
  PROVE  SizeInv'
<1>1. CASE Receive
  <2>1. sending' = Nothing
    BY <1>1 DEF Receive, ReceiveEvent, ReceiveRequest
  <2>2. \A i \in DOMAIN outbox' : outbox'[i].is = "EVENT" => outbox'[i] \in Admitted
    <3>1. \/ outbox' = outbox \/ outbox' = <<Notice>>
          \/ \E id : outbox' = <<Closed(id)>>
      BY <1>1 DEF Receive, ReceiveEvent, ReceiveRequest
    <3>2. CASE outbox' = outbox
      BY <3>2 DEF SizeInv
    <3>3. CASE outbox' = <<Notice>>
      BY <3>3, AnswersAreNoEvents
    <3>4. ASSUME NEW id, outbox' = <<Closed(id)>>
          PROVE  \A i \in DOMAIN outbox' : outbox'[i].is = "EVENT" => outbox'[i] \in Admitted
      BY <3>4, AnswersAreNoEvents
    <3> QED BY <3>1, <3>2, <3>3, <3>4
  <2> QED BY <2>1, <2>2 DEF SizeInv
<1>2. CASE CheckEvent \/ Collect \/ UNCHANGED wireVars
  <2>1. UNCHANGED builderVars /\ UNCHANGED sending /\ outbox' = outbox
    BY <1>2 DEF CheckEvent, Collect, wireVars
  <2>2. \A i \in DOMAIN outbox' : outbox'[i].is = "EVENT" => outbox'[i] \in Admitted
    BY <2>1 DEF SizeInv
  <2> QED BY <2>1, <2>2, StandingProgress
<1>3. CASE AnswerEvent
  <2>1. UNCHANGED builderVars /\ UNCHANGED sending /\ checked \in Published
    BY <1>3 DEF AnswerEvent, WireInv
  <2>2. \A i \in DOMAIN outbox' : outbox'[i].is = "EVENT" => outbox'[i] \in Admitted
    <3> DEFINE Yes == Ok(TRUE)
               No  == Ok(FALSE)
    <3>1. Yes.is = "OK" /\ No.is = "OK" /\ Notice.is = "NOTICE"
      BY AnswersAreNoEvents
    <3>2. \/ outbox' = <<Notice>> \/ outbox' = <<No>>
          \/ FitsBuffer(checked) /\ \E id \in SubscriberId : outbox' = <<Yes, EventMessage(checked, id)>>
      BY <1>3, Zenon DEF AnswerEvent
    <3> HIDE DEF Yes, No
    <3>3. CASE outbox' = <<Notice>> \/ outbox' = <<No>>
      BY <3>1, <3>3
    <3>4. ASSUME FitsBuffer(checked), NEW id \in SubscriberId, outbox' = <<Yes, EventMessage(checked, id)>>
          PROVE  \A i \in DOMAIN outbox' : outbox'[i].is = "EVENT" => outbox'[i] \in Admitted
      <4> DEFINE second == EventMessage(checked, id)
      <4>1. second \in Admitted
        BY <2>1, <3>4 DEF Admitted
      <4>2. outbox' = <<Yes, second>>
        BY <3>4
      <4> HIDE DEF second
      <4> QED BY <3>1, <4>1, <4>2
    <3> QED BY <3>2, <3>3, <3>4
  <2> QED BY <2>1, <2>2, StandingProgress
<1>4. CASE AnswerRequest
  <2>1. UNCHANGED builderVars /\ UNCHANGED sending
    BY <1>4 DEF AnswerRequest
  <2>2. \A i \in DOMAIN outbox' : outbox'[i].is = "EVENT" => outbox'[i] \in Admitted
    <3>1. \E message : outbox' = <<message>> /\ message.is \in {"CLOSED", "COUNT", "EOSE"}
      BY <1>4, AnswersAreNoEvents, Zenon DEF AnswerRequest
    <3> QED BY <3>1
  <2> QED BY <2>1, <2>2, StandingProgress
<1>5. CASE SendNext
  <2>1. outbox \in Seq(Messages) /\ outbox # << >> /\ sending' = Head(outbox) /\ outbox' = Tail(outbox)
    BY <1>5 DEF SendNext, WireInv
  <2>2. 1 \in DOMAIN outbox /\ Head(outbox) = outbox[1]
        /\ \A i \in DOMAIN outbox' : i + 1 \in DOMAIN outbox /\ outbox'[i] = outbox[i + 1]
    BY <2>1
  <2>3. \A i \in DOMAIN outbox' : outbox'[i].is = "EVENT" => outbox'[i] \in Admitted
    BY <2>2 DEF SizeInv
  <2>4. ASSUME sending'.is = "EVENT"
        PROVE  \E ev \in {e \in Published : FitsBuffer(e)}, id \in SubscriberId :
                 sending' = EventMessage(ev, id) /\ EventProgress(ev, id)'
    <3>1. Head(outbox) \in Admitted
      BY <2>1, <2>2, <2>4 DEF SizeInv
    <3>2. PICK ev \in {e \in Published : FitsBuffer(e)}, id \in SubscriberId :
            Head(outbox) = EventMessage(ev, id)
      BY <3>1 DEF Admitted
    <3>3. EventProgress(ev, id)'
      BY <1>5, <3>2, WireInput, StartingProgress
    <3> QED BY <2>1, <3>2, <3>3, Zenon
  <2> QED BY <2>3, <2>4 DEF SizeInv
<1>6. CASE Write
  <2>1. Building /\ outbox' = outbox /\ sending' = sending /\ BuilderInv
    BY <1>6 DEF Write, WireInv
  <2>2. ASSUME sending # Nothing /\ sending.is = "EVENT"
        PROVE  \E ev \in {e \in Published : FitsBuffer(e)}, id \in SubscriberId :
                 sending' = EventMessage(ev, id) /\ EventProgress(ev, id)'
    <3>1. PICK ev \in {e \in Published : FitsBuffer(e)}, id \in SubscriberId :
            sending = EventMessage(ev, id) /\ EventProgress(ev, id)
      BY <2>2, Zenon DEF SizeInv
    <3>2. EventProgress(ev, id)'
      BY <2>1, <3>1, WireInput, WritingProgress
    <3> QED BY <2>1, <3>1, <3>2, Zenon
  <2> QED BY <2>1, <2>2 DEF SizeInv
<1> QED BY <1>1, <1>2, <1>3, <1>4, <1>5, <1>6 DEF WireNext, Handle

LEMMA SizeInvImplies ==
  ASSUME SizeInv
  PROVE  SizeIsExact /\ AdmittedIsSentWhole
<1> SUFFICES ASSUME Sent("EVENT") PROVE SizeIsExact /\ AdmittedIsSentWhole
  BY DEF SizeIsExact, AdmittedIsSentWhole
<1>1. PICK ev \in {e \in Published : FitsBuffer(e)}, id \in SubscriberId :
        sending = EventMessage(ev, id) /\ EventProgress(ev, id)
  BY DEF SizeInv, Sent
<1>2. sending.ev = ev /\ sending.id = id
  BY <1>1 DEF EventMessage, Message
<1>3. /\ whole => pos = Begins(ev, id)[12] + 1
      /\ escaped_length[id] <= Margin - 14 => whole
  BY <1>1 DEF EventProgress, Sent
<1>4. Begins(ev, id)[12] + 1 = 13 + escaped_length[id] + json_serialized_event_size(ev)
  BY WireInput, Stages
<1> QED BY <1>2, <1>3, <1>4 DEF SizeIsExact, AdmittedIsSentWhole

(* While a message is written, the size of what is left is foreseen. *)
LEMMA SizeInvariant == WireSpec => []SizeInv
<1>1. WireInit => WireInv /\ SizeInv
  <2>1. WireInit => SizeInv
    BY DEF WireInit, SizeInv
  <2> QED BY <2>1, WireInitHolds
<1>2. WireInv /\ SizeInv /\ [WireNext]_wireVars => WireInv' /\ SizeInv'
  BY WireInvStep, SizeStep
<1> QED BY <1>1, <1>2, PTL DEF WireSpec

(***************************************************************************)
(* The size that is foreseen is the size that is written, to the byte      *)
(* (json_util.c:860), for every event that is sent whole.                  *)
(***************************************************************************)
THEOREM SizeForeseen == WireSpec => []SizeIsExact
<1>1. SizeInv => SizeIsExact
  BY SizeInvImplies
<1> QED BY <1>1, SizeInvariant, PTL

(***************************************************************************)
(* An event the size check admits is sent whole to every subscription      *)
(* whose name the margin has room for (nip01.c:91-95).                     *)
(***************************************************************************)
THEOREM AdmittedArrives == WireSpec => []AdmittedIsSentWhole
<1>1. SizeInv => AdmittedIsSentWhole
  BY SizeInvImplies
<1> QED BY <1>1, SizeInvariant, PTL

-----------------------------------------------------------------------------
(***************************************************************************)
(* The parsers, in the hands of handle_message.                            *)
(***************************************************************************)
LEMMA ParserInitHolds == WireInit => ParserInv
BY DEF WireInit, ParserInit, ParserInv

LEMMA ParserStep ==
  ASSUME WireInv, ParserInv, [WireNext]_wireVars
  PROVE  ParserInv'
<1>1. CASE UNCHANGED parserVars
  BY <1>1, ParserStands
<1>2. ASSUME NEW ev \in Published, ReceiveEvent(ev) PROVE ParserInv'
  <2>1. IsWritten(ev)
    BY WireInput
  <2> QED BY <1>2, <2>1, ParseEventHolds DEF ReceiveEvent
<1>3. CASE CheckEvent
  BY <1>3, CheckingKeepsParser DEF CheckEvent
<1>4. CASE AnswerEvent
  <2>1. phase = "rest"
    BY <1>4 DEF AnswerEvent, WireInv
  <2> QED BY <1>4, <2>1, ForgettingHolds DEF AnswerEvent
<1>5. ASSUME NEW message \in Requested, ReceiveRequest(message) PROVE UNCHANGED parserVars
  BY <1>5 DEF ReceiveRequest
<1>6. CASE Collect \/ AnswerRequest \/ SendNext \/ Write \/ UNCHANGED wireVars
  <2>1. UNCHANGED parserVars
    BY <1>6 DEF Collect, AnswerRequest, SendNext, Write, wireVars
  <2> QED BY <1>1, <2>1
<1> QED BY <1>1, <1>2, <1>3, <1>4, <1>5, <1>6 DEF WireNext, Receive, Handle

LEMMA ParserInvariant == WireSpec => [](WireInv /\ ParserInv)
<1>1. WireInit => WireInv /\ ParserInv
  BY WireInitHolds, ParserInitHolds
<1>2. WireInv /\ ParserInv /\ [WireNext]_wireVars => WireInv' /\ ParserInv'
  BY WireInvStep, ParserStep
<1> QED BY <1>1, <1>2, PTL DEF WireSpec

(***************************************************************************)
(* "Tags accepted by the parse-time gate always parse here" (crypto.c:727).*)
(***************************************************************************)
THEOREM GateIsEnough == WireSpec => []AcceptedAlwaysParse
<1>1. ParserInv => AcceptedAlwaysParse
  BY DEF ParserInv, AcceptedAlwaysParse
<1> QED BY <1>1, ParserInvariant, PTL

(***************************************************************************)
(* What the gate accepts is scanned to its end: the delegations are looked *)
(* for in all of the event's tags (json_util.c:720).                       *)
(***************************************************************************)
THEOREM AllTagsAreScanned == WireSpec => []ScannedWhole
<1>1. ASSUME ParserInv PROVE ScannedWhole
  <2>1. SUFFICES ASSUME phase = "verify"
                 PROVE  \E at \in [DOMAIN tags -> DOMAIN checked.tags] :
                          /\ Range(at) = {n \in DOMAIN checked.tags : checked.tags[n] # << >>}
                          /\ \A i, j \in DOMAIN tags : i < j => at[i] < at[j]
                          /\ \A i \in DOMAIN tags :
                               /\ Len(tags[i]) = Len(checked.tags[at[i]])
                               /\ IsPlain(checked) => tags[i] = checked.tags[at[i]]
    BY Zenon DEF ScannedWhole
  <2>2. Scanned(checked, tags, Len(checked.tags)) /\ IsWritten(checked)
    BY <1>1, <2>1 DEF ParserInv, InVerify
  <2>3. PICK at \in [DOMAIN tags -> DOMAIN checked.tags] :
          /\ Range(at) = {i \in DOMAIN checked.tags : i <= Len(checked.tags) /\ checked.tags[i] # << >>}
          /\ \A i, j \in DOMAIN tags : i < j => at[i] < at[j]
          /\ \A i \in DOMAIN tags : SameTag(checked, tags[i], at[i])
    BY <2>2, Zenon DEF Scanned
  <2>4. DOMAIN checked.tags = 1..Len(checked.tags) /\ Len(checked.tags) \in Nat
    BY <2>2 DEF IsWritten
  <2>5. {i \in DOMAIN checked.tags : i <= Len(checked.tags) /\ checked.tags[i] # << >>}
          = {n \in DOMAIN checked.tags : checked.tags[n] # << >>}
    BY <2>4
  <2>6. Range(at) = {n \in DOMAIN checked.tags : checked.tags[n] # << >>}
    BY <2>3, <2>5
  <2>7. \A i \in DOMAIN tags :
          /\ Len(tags[i]) = Len(checked.tags[at[i]])
          /\ IsPlain(checked) => tags[i] = checked.tags[at[i]]
    BY <2>3, Zenon DEF SameTag
  <2> QED BY <2>3, <2>6, <2>7, Zenon
<1> QED BY <1>1, ParserInvariant, PTL

(***************************************************************************)
(* Delegation fails closed: each token of a valid event is signed for its  *)
(* author and allows the event (nip26.h:27-33, crypto.c:726).              *)
(***************************************************************************)
THEOREM DelegationFailsClosed == WireSpec => []TokensAreVerified
<1>1. ASSUME WireInv, ParserInv PROVE TokensAreVerified
  <2>1. SUFFICES ASSUME verdict = "valid", IsPlain(checked),
                        NEW t \in Range(checked.tags), Len(t) >= 4, t[1] = DELEGATION_TAG
                 PROVE  /\ <<t[2], checked.pubkey, t[3], t[4]>> \in Token
                        /\ Allows(t[3], checked)
    BY Zenon DEF TokensAreVerified
  <2>2. checked \in Published
    BY <1>1, <2>1 DEF WireInv
  <2>3. IsToken(t)
    BY <2>1 DEF IsToken
  <2>4. nip26_check_delegation(checked, t[2], t[3], t[4])
    BY <1>1, <2>1, <2>3, Zenon DEF ParserInv, Trusted
  <2>5. ConditionsHold(checked, t[3]) /\ <<t[2], checked.pubkey, t[3], t[4]>> \in Token
    BY <2>4 DEF nip26_check_delegation
  <2>6. t[3] \in DOMAIN PartsOf
    BY <2>2, <2>3, WireInput
  <2>7. PartsOf[t[3]] \in Seq(Part)
    BY <2>6, PartsAreParts
  <2> QED BY <2>5, <2>7, HoldsIsAllowed
<1> QED BY <1>1, ParserInvariant, PTL

-----------------------------------------------------------------------------
(***************************************************************************)
(* The filters, in the hands of handle_message.                            *)
(***************************************************************************)
CollectorInv ==
  /\ collecting => \E k, at : Collected(Candidates(request), k, at, asked, filters)
  /\ ~collecting => filters = << >>

LEMMA CollectorStep ==
  ASSUME WireInv, CollectorInv, [WireNext]_wireVars
  PROVE  CollectorInv'
<1>1. CASE UNCHANGED <<filterVars, request>>
  <2>1. collecting' = collecting /\ asked' = asked /\ filters' = filters /\ request' = request
    BY <1>1 DEF filterVars
  <2> QED BY <2>1, Zenon DEF CollectorInv
<1>2. CASE ~collecting' /\ filters' = << >>
  BY <1>2 DEF CollectorInv
<1>3. ASSUME NEW ev \in Published, ReceiveEvent(ev) PROVE ~collecting' /\ filters' = << >>
  BY <1>3 DEF ReceiveEvent, Quiet, filterVars, CollectorInv
<1>4. ASSUME NEW message \in Requested, ReceiveRequest(message) PROVE CollectorInv'
  <2>1. ~collecting /\ filters = << >> /\ request' = message
    BY <1>4 DEF ReceiveRequest, Quiet, CollectorInv
  <2>2. CASE UNCHANGED filterVars
    BY <1>2, <2>1, <2>2 DEF filterVars
  <2>3. CASE StartCollecting(message)
    <3>1. collecting' /\ asked' = Candidates(message) /\ filters' = << >>
      BY <2>3 DEF StartCollecting
    <3>2. IsMessage(message)
      BY WireInput
    <3>3. \E at : Collected(Candidates(message), 0, at, Candidates(message), << >>)
      BY <3>2, CandidatesAreValues, NothingCollected
    <3>4. \E k, at : Collected(Candidates(request'), k, at, asked', filters')
      BY <2>1, <3>1, <3>3, Zenon
    <3> QED BY <3>1, <3>4, Zenon DEF CollectorInv
  <2> QED BY <1>4, <2>2, <2>3 DEF ReceiveRequest
<1>5. CASE Collect
  <2>1. /\ collecting /\ asked # << >> /\ Len(filters) < MaxFilters /\ collecting' = collecting
        /\ request' = request /\ asked' = Tail(asked)
        /\ filters' = IF json_parse_filter_ok(Head(asked))
                      THEN Append(filters, json_parse_filter(Head(asked))) ELSE filters
    BY <1>5 DEF Collect, CollectFilter, IsCollecting
  <2>2. PICK k, at : Collected(Candidates(request), k, at, asked, filters)
    BY <2>1, Zenon DEF CollectorInv
  <2>3. IsMessage(request)
    BY <2>1, WireInput DEF WireInv
  <2>4. /\ IsSequence(Candidates(request))
        /\ \A value \in Range(Candidates(request)) : IsValue(value)
    BY <2>3, CandidatesAreValues
  <2>5. \E l, a : Collected(Candidates(request), l, a, Tail(asked), filters')
    BY <2>1, <2>2, <2>4, OneMoreCollected
  <2> QED BY <2>1, <2>5, Zenon DEF CollectorInv
<1>6. CASE AnswerRequest
  BY <1>2, <1>6 DEF AnswerRequest, FiltersTaken
<1>7. CASE CheckEvent \/ AnswerEvent \/ SendNext \/ Write \/ UNCHANGED wireVars
  <2>1. UNCHANGED <<filterVars, request>>
    BY <1>7 DEF CheckEvent, AnswerEvent, SendNext, Write, wireVars
  <2> QED BY <1>1, <2>1
<1> QED BY <1>1, <1>2, <1>3, <1>4, <1>5, <1>6, <1>7 DEF WireNext, Receive, Handle

LEMMA CollectorInvariant == WireSpec => [](WireInv /\ CollectorInv)
<1>1. WireInit => WireInv /\ CollectorInv
  <2>1. WireInit => CollectorInv
    BY DEF WireInit, CollectorInit, CollectorInv
  <2> QED BY <2>1, WireInitHolds
<1>2. WireInv /\ CollectorInv /\ [WireNext]_wireVars => WireInv' /\ CollectorInv'
  BY WireInvStep, CollectorStep
<1> QED BY <1>1, <1>2, PTL DEF WireSpec

(***************************************************************************)
(* A request is run with the filters it was sent with: the first           *)
(* MaxFilters that are accepted, in their order, each saying what its      *)
(* object says (server.c:293-321).                                         *)
(***************************************************************************)
THEOREM FiltersAreKept == WireSpec => []FiltersAreAsAsked
<1>1. ASSUME CollectorInv PROVE FiltersAreAsAsked
  <2> DEFINE objects == Candidates(request)
             accepted == {n \in DOMAIN objects : json_parse_filter_ok(objects[n])}
             Kept(at) ==
               /\ \A i, j \in DOMAIN filters : i < j => at[i] < at[j]
               /\ \A n \in accepted \ Range(at) :
                    Len(filters) = MaxFilters /\ \A i \in DOMAIN filters : at[i] < n
               /\ \A i \in DOMAIN filters :
                    IsProper(objects[at[i]]) => SaysAsMuch(filters[i], objects[at[i]])
  <2>1. SUFFICES ASSUME collecting, ~IsCollecting
                 PROVE  \E at \in [DOMAIN filters -> accepted] : Kept(at)
    BY Zenon DEF FiltersAreAsAsked
  <2>2. PICK k, at : Collected(objects, k, at, asked, filters)
    BY <1>1, <2>1, Zenon DEF CollectorInv
  <2> HIDE DEF objects
  <2>3. /\ k \in 0..Len(objects) /\ IsSequence(asked) /\ Len(asked) = Len(objects) - k
        /\ IsSequence(filters) /\ Len(filters) <= MaxFilters
        /\ at \in [DOMAIN filters -> accepted]
        /\ \A i, j \in DOMAIN filters : i < j => at[i] < at[j]
        /\ \A i \in DOMAIN filters : at[i] <= k
        /\ \A n \in accepted : n <= k => n \in Range(at)
        /\ \A i \in DOMAIN filters :
             IsProper(objects[at[i]]) => SaysAsMuch(filters[i], objects[at[i]])
    BY <2>2, Zenon DEF Collected, AcceptedOf
  <2>4. ASSUME NEW n \in accepted \ Range(at)
        PROVE  Len(filters) = MaxFilters /\ \A i \in DOMAIN filters : at[i] < n
    <3>1. n \in 1..Len(objects) /\ Len(objects) \in Nat
      BY <2>3 DEF AcceptedOf
    <3>2. n > k
      BY <2>3, <2>4, <3>1
    <3>3. asked # << >>
      BY <2>3, <3>1, <3>2
    <3>4. ~(Len(filters) < MaxFilters)
      BY <2>1, <3>3 DEF IsCollecting
    <3>5. Len(filters) \in Nat
      BY <2>3 DEF IsSequence
    <3>6. \A i \in DOMAIN filters : at[i] \in 1..Len(objects)
      BY <2>3
    <3> QED BY <2>3, <3>1, <3>2, <3>4, <3>5, <3>6, FilterLimits
  <2>5. Kept(at)
    <3> HIDE DEF accepted
    <3> QED BY <2>3, <2>4
  <2> HIDE DEF Kept, accepted
  <2> QED BY <2>3, <2>5
<1> QED BY <1>1, CollectorInvariant, PTL

-----------------------------------------------------------------------------
(***************************************************************************)
(* What the invariants leave open of the types: those of the writer, and   *)
(* the event in hand.                                                      *)
(***************************************************************************)
WriterOK ==
  /\ builder \in {"ready", "calls", "string"}
  /\ last \in {"open", "other"} /\ {whole, cut} \subseteq BOOLEAN
  /\ outbox \in Seq(Messages) /\ Len(outbox) <= 2

LEMMA BuildingKeepsTypes ==
  ASSUME builder \in {"ready", "calls", "string"}, last \in {"open", "other"},
         {whole, cut} \subseteq BOOLEAN, Building
  PROVE  /\ builder' \in {"ready", "calls", "string"}
         /\ last' \in {"open", "other"} /\ {whole, cut}' \subseteq BOOLEAN
<1>1. CASE AppendPiece
  BY <1>1 DEF AppendPiece, Due
<1>2. CASE AppendTags
  BY <1>2 DEF AppendTags, Due
<1>3. CASE OpenString
  BY <1>3 DEF OpenString, Due
<1>4. CASE EscapeRun
  BY <1>4 DEF EscapeRun
<1>5. CASE CloseString
  BY <1>5 DEF CloseString
<1>6. CASE FinishMessage
  BY <1>6 DEF FinishMessage
<1> QED BY <1>1, <1>2, <1>3, <1>4, <1>5, <1>6 DEF Building

CheckedOK == checked \in Published \cup {NoEvent}

LEMMA CheckedStep ==
  ASSUME CheckedOK, [WireNext]_wireVars
  PROVE  CheckedOK'
<1>1. CASE checked' = checked
  BY <1>1 DEF CheckedOK
<1>2. ASSUME NEW ev \in Published, ReceiveEvent(ev) PROVE checked' = ev
  BY <1>2 DEF ReceiveEvent, ParseEvent
<1>3. CASE CheckEvent
  <2>1. checked' = checked
    BY <1>3 DEF CheckEvent, Checking, SkipBlank, OpenTag, ReadElement, CloseTag, TagsParsed,
                VerifyTag, AllVerified
  <2> QED BY <1>1, <2>1
<1>4. CASE AnswerEvent
  BY <1>4 DEF AnswerEvent, Forget, CheckedOK
<1>5. ASSUME NEW message \in Requested, ReceiveRequest(message) PROVE checked' = checked
  BY <1>5 DEF ReceiveRequest, parserVars
<1>6. CASE Collect \/ AnswerRequest \/ SendNext \/ Write \/ UNCHANGED wireVars
  <2>1. checked' = checked
    BY <1>6 DEF Collect, AnswerRequest, SendNext, Write, wireVars, parserVars
  <2> QED BY <1>1, <2>1
<1> QED BY <1>1, <1>2, <1>3, <1>4, <1>5, <1>6 DEF WireNext, Receive, Handle, CheckedOK

LEMMA WriterStep ==
  ASSUME WireInv, WriterOK, [WireNext]_wireVars
  PROVE  WriterOK'
<1>1. outbox' \in Seq(Messages)
  BY WireInvStep DEF WireInv
<1>2. CASE UNCHANGED <<builder, last, whole, cut>> /\ Len(outbox') <= 2
  BY <1>1, <1>2 DEF WriterOK
<1>3. Len(<< >>) <= 2 /\ \A a, b : Len(<<a>>) <= 2 /\ Len(<<a, b>>) <= 2
  OBVIOUS
<1>4. ASSUME BuilderGone, Len(outbox') <= 2 PROVE WriterOK'
  BY <1>1, <1>4 DEF BuilderGone, WriterOK
<1>5. ASSUME NEW ev \in Published, ReceiveEvent(ev) PROVE WriterOK'
  BY <1>4, <1>5 DEF ReceiveEvent, WriterOK
<1>6. ASSUME NEW message \in Requested, ReceiveRequest(message) PROVE WriterOK'
  <2>1. outbox' = outbox \/ \E a : outbox' = <<a>>
    BY <1>6, Zenon DEF ReceiveRequest
  <2>2. Len(outbox') <= 2
    BY <1>3, <2>1 DEF WriterOK
  <2> QED BY <1>4, <1>6, <2>2 DEF ReceiveRequest
<1>7. CASE AnswerEvent
  <2>1. (\E a : outbox' = <<a>>) \/ \E a, b : outbox' = <<a, b>>
    BY <1>7, Zenon DEF AnswerEvent
  <2>2. Len(outbox') <= 2
    BY <1>3, <2>1
  <2> QED BY <1>2, <1>7, <2>2 DEF AnswerEvent, builderVars
<1>8. CASE AnswerRequest
  <2>1. \E a : outbox' = <<a>>
    BY <1>8, Zenon DEF AnswerRequest
  <2>2. Len(outbox') <= 2
    BY <1>3, <2>1
  <2> QED BY <1>2, <1>8, <2>2 DEF AnswerRequest, builderVars
<1>9. CASE SendNext
  <2>1. outbox # << >> /\ outbox' = Tail(outbox) /\ outbox \in Seq(Messages) /\ Len(outbox) <= 2
    BY <1>9 DEF SendNext, WriterOK
  <2>2. Len(outbox') <= 2
    BY <2>1
  <2>3. builder' = "calls" /\ last' = "open" /\ whole' = TRUE /\ cut' = FALSE
    BY <1>9 DEF SendNext, StartMessage
  <2> QED BY <1>1, <2>2, <2>3 DEF WriterOK
<1>10. CASE Write
  <2>1. Building /\ outbox' = outbox
    BY <1>10 DEF Write
  <2>2. /\ builder' \in {"ready", "calls", "string"}
        /\ last' \in {"open", "other"} /\ {whole, cut}' \subseteq BOOLEAN
    BY <2>1, BuildingKeepsTypes DEF WriterOK
  <2> QED BY <1>1, <2>1, <2>2 DEF WriterOK
<1>11. CASE CheckEvent \/ Collect \/ UNCHANGED wireVars
  BY <1>11 DEF CheckEvent, Collect, wireVars, builderVars, WriterOK
<1> QED BY <1>5, <1>6, <1>7, <1>8, <1>9, <1>10, <1>11 DEF WireNext, Receive, Handle

(***************************************************************************)
(* The types, and the bounds of what the parsers hold: MaxTags tags,       *)
(* MaxElements elements, and no more values in a filter than it has room   *)
(* for (json_util.c:601-602).                                              *)
(***************************************************************************)
THEOREM WireTypes == WireSpec => []WireTypeOK
<1>1. ASSUME WireInv, ParserInv, CollectorInv, CheckedOK, WriterOK PROVE WireTypeOK
  <2>1. /\ phase \in {"rest", "tags", "elements", "verify"}
        /\ verdict \in {"none", "malformed", "refused", "forged", "unparseable", "undelegated", "valid"}
    BY <1>1 DEF ParserInv
  <2>2. checked \in Published \cup {NoEvent}
    BY <1>1 DEF CheckedOK
  <2>3. /\ phase \in {"tags", "elements"} => p \in DOMAIN text
        /\ Len(tags) <= MaxTags /\ Len(tag) <= MaxElements
    BY <1>1, ReadingIsBounded
  <2>4. ASSUME NEW filter \in Range(filters) PROVE FilterFits(filter)
    <3>1. CASE collecting
      <4>1. PICK k, at : Collected(Candidates(request), k, at, asked, filters)
        BY <1>1, <3>1, Zenon DEF CollectorInv
      <4>2. \A i \in DOMAIN filters : FilterFits(filters[i])
        BY <4>1 DEF Collected
      <4> QED BY <2>4, <4>2, Zenon DEF Range
    <3>2. CASE ~collecting
      <4>1. filters = << >>
        BY <1>1, <3>2 DEF CollectorInv
      <4> QED BY <2>4, <4>1 DEF Range
    <3> QED BY <3>1, <3>2
  <2>5. /\ builder \in {"ready", "calls", "string"} /\ pos \in Nat
        /\ last \in {"open", "other"} /\ {whole, cut} \subseteq BOOLEAN
        /\ Len(outbox) <= 2
    BY <1>1 DEF WriterOK, WireInv, BuilderInv
  <2> QED BY <2>1, <2>2, <2>3, <2>4, <2>5 DEF WireTypeOK
<1>2. WireInit => WriterOK
  <2>1. << >> \in Seq(Messages) /\ Len(<< >>) <= 2
    OBVIOUS
  <2>2. WireInit => outbox = << >> /\ builder = "ready" /\ last = "open" /\ whole = TRUE /\ cut = FALSE
    BY DEF WireInit, BuilderInit
  <2>3. "ready" \in {"ready", "calls", "string"} /\ "open" \in {"open", "other"}
        /\ {TRUE, FALSE} \subseteq BOOLEAN
    OBVIOUS
  <2> QED BY <2>1, <2>2, <2>3, Zenon DEF WriterOK
<1>3. WireInv /\ WriterOK /\ [WireNext]_wireVars => WriterOK'
  BY WriterStep
<1>4. WireSpec => []WireInv
  BY ParserInvariant, PTL
<1>5. WireSpec => []WriterOK
  BY <1>2, <1>3, <1>4, PTL DEF WireSpec
<1>6. WireInit => CheckedOK
  BY DEF WireInit, ParserInit, CheckedOK
<1>7. CheckedOK /\ [WireNext]_wireVars => CheckedOK'
  BY CheckedStep
<1>8. WireSpec => []CheckedOK
  BY <1>6, <1>7, PTL DEF WireSpec
<1> QED BY <1>1, <1>5, <1>8, ParserInvariant, CollectorInvariant, PTL
==============================================================================
