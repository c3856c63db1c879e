------------------------------ MODULE TagProofs ------------------------------
(***************************************************************************)
(* The two parsers of an event's tags agree, for every event: what the     *)
(* gate accepts is scanned to its end and into the same tags, and what the *)
(* scan has verified is what the event says.                               *)
(***************************************************************************)
EXTENDS TagParsers, Recursion, SequenceTheorems

Lexeme == [is : {"[", "]", "comma", "string"}, raw : Seq(STRING)]

PlainText(ev) == Bracketed(TagTexts(ev))
HasGap(ev)    == ev.gap \in 2..Len(PlainText(ev))

(* Where the parser stands in the text without its blank, and what is left *)
(* of that.                                                                *)
Position(ev, at) == IF HasGap(ev) /\ at > ev.gap THEN at - 1 ELSE at
Left(ev, at)     == SubSeq(PlainText(ev), Position(ev, at), Len(PlainText(ev)))

(* What is left before the n-th tag, with the comma or behind it, and      *)
(* before the m-th element of that tag.                                    *)
FromTag(ev, n)          == Closing(TagTexts(ev), n)
FromBracket(ev, n)      == Bracketed(Elements(ev.tags[n])) \o FromTag(ev, n + 1)
FromElement(ev, n, m)   == Closing(Elements(ev.tags[n]), m) \o FromTag(ev, n + 1)
FromString(ev, n, m)    == <<Quoted(ev.tags[n][m])>> \o FromElement(ev, n, m + 1)

BeforeTag(ev, n, left) ==
  left = FromTag(ev, n) \/ (n \in 2..Len(ev.tags) /\ left = FromBracket(ev, n))
BeforeElement(ev, n, m, left) ==
  \/ left = FromElement(ev, n, m)
  \/ m \in 2..Len(ev.tags[n]) /\ left = FromString(ev, n, m)

(* Of the first n tags those with elements have been read, in order.       *)
SameTag(ev, t, i) ==
  Len(t) = Len(ev.tags[i]) /\ (IsPlain(ev) => t = ev.tags[i])

Scanned(ev, list, n) ==
  \E at \in [DOMAIN list -> DOMAIN ev.tags] :
    /\ Range(at) = {i \in DOMAIN ev.tags : i <= n /\ ev.tags[i] # << >>}
    /\ \A i, j \in DOMAIN list : i < j => at[i] < at[j]
    /\ \A i \in DOMAIN list : SameTag(ev, list[i], at[i])

(* The first m - 1 elements of the n-th tag have been read. *)
HasRead(ev, n, m, t) ==
  Len(t) = m - 1 /\ (IsPlain(ev) => \A j \in 1..m - 1 : t[j] = ev.tags[n][j])

Verified(ev, list, n) ==
  \A i \in 1..n - 1 :
    IsToken(list[i]) => nip26_check_delegation(ev, list[i][2], list[i][3], list[i][4])

Trusted(ev) ==
  IsPlain(ev) =>
    \A t \in Range(ev.tags) : IsToken(t) => nip26_check_delegation(ev, t[2], t[3], t[4])

(* Between two tags, within one, and behind them all. *)
InTags(ev, at, list) ==
  /\ at \in 2..Len(TextOf(ev))
  /\ \E n \in 1..Len(ev.tags) + 1 : BeforeTag(ev, n, Left(ev, at)) /\ Scanned(ev, list, n - 1)

InElements(ev, at, list, t) ==
  /\ at \in 2..Len(TextOf(ev))
  /\ \E n \in 1..Len(ev.tags) : \E m \in 1..Len(ev.tags[n]) + 1 :
       /\ BeforeElement(ev, n, m, Left(ev, at))
       /\ Scanned(ev, list, n - 1) /\ HasRead(ev, n, m, t)

InVerify(ev, list, n) ==
  /\ Scanned(ev, list, Len(ev.tags))
  /\ n \in 1..Len(list) + 1 /\ Verified(ev, list, n)

Readings == {ParsedElement(raw) : raw \in Seq(STRING)}

ParserInv ==
  /\ phase \in {"rest", "tags", "elements", "verify"}
  /\ phase # "rest" => IsWritten(checked) /\ validate_event_tags(checked) /\ verdict = "none"
  /\ tag \in Seq(Readings) /\ tags \in Seq(Seq(Readings))
  /\ phase # "elements" => tag = << >>
  /\ phase = "rest" => tags = << >>
  /\ phase \in {"tags", "elements"} => text = TextOf(checked)
  /\ phase = "tags" => InTags(checked, p, tags)
  /\ phase = "elements" => InElements(checked, p, tags, tag)
  /\ phase = "verify" => InVerify(checked, tags, next)
  /\ verdict \in {"none", "malformed", "refused", "forged", "undelegated", "valid"}
  /\ verdict = "valid" => Trusted(checked)

-----------------------------------------------------------------------------
(***************************************************************************)
(* A text with nothing escaped in it is read as it stands.                 *)
(***************************************************************************)
LEMMA PlainIsDecoded ==
  ASSUME NEW raw \in Seq(STRING), "\\" \notin Range(raw)
  PROVE  Decoded(raw, Len(raw)) = raw
<1> DEFINE n == Len(raw)
           D == 1..n + 1
           Body(f) == [i \in D |->
             IF i > n THEN << >>
             ELSE IF raw[i] = "\\" /\ i < n THEN <<Escaped(raw[i + 1])>> \o f[i + 2]
             ELSE <<raw[i]>> \o f[i + 1]]
           suffix == [i \in D |-> SubSeq(raw, i, n)]
           read == CHOOSE f : f = Body(f)
           rank == [i \in D |-> n + 1 - i]
           Suffixes == {i \in D : read[i] = SubSeq(raw, i, n)}
<1>1. n \in Nat /\ \A i \in 1..n : raw[i] # "\\"
  BY DEF Range
<1>2. ASSUME NEW f, NEW i \in D
      PROVE  Body(f)[i] = IF i > n THEN << >> ELSE <<raw[i]>> \o f[i + 1]
  <2>1. i \in 1..n \/ i > n
    BY <1>1
  <2>2. CASE i > n
    BY <2>2
  <2>3. CASE i \in 1..n
    BY <1>1, <2>3
  <2> QED BY <2>1, <2>2, <2>3
<1>3. ASSUME NEW i \in D
      PROVE  SubSeq(raw, i, n) = IF i > n THEN << >> ELSE <<raw[i]>> \o SubSeq(raw, i + 1, n)
  <2>1. CASE i > n
    BY <1>1, <2>1, SubSeqEmpty
  <2>2. CASE i \in 1..n
    <3>1. i \in 1..Len(raw) /\ n \in i..Len(raw)
      BY <1>1, <2>2
    <3>2. SubSeq(raw, i, n) = <<raw[i]>> \o SubSeq(raw, i + 1, n)
      BY <3>1, SubSeqRecursiveFirst
    <3> QED BY <1>1, <2>2, <3>2
  <2> QED BY <1>1, <2>1, <2>2
<1>4. suffix = Body(suffix)
  <2>1. ASSUME NEW i \in D PROVE suffix[i] = Body(suffix)[i]
    <3>1. CASE i > n
      BY <1>2, <1>3, <3>1
    <3>2. CASE i \in 1..n
      <4>1. i + 1 \in D /\ suffix[i + 1] = SubSeq(raw, i + 1, n)
        BY <1>1, <3>2
      <4>2. suffix[i] = <<raw[i]>> \o suffix[i + 1]
        BY <1>1, <1>3, <3>2, <4>1
      <4>3. Body(suffix)[i] = <<raw[i]>> \o suffix[i + 1]
        <5>1. ~(i > n)
          BY <1>1, <3>2
        <5> HIDE DEF Body, suffix, D, n
        <5> QED BY <1>2, <5>1
      <4> QED BY <4>2, <4>3
    <3> QED BY <1>1, <3>1, <3>2
  <2>2. suffix = [i \in D |-> suffix[i]]
    BY Zenon
  <2>3. Body(suffix) = [i \in D |-> Body(suffix)[i]]
    <3>1. ASSUME NEW f PROVE Body(f) = [i \in D |-> Body(f)[i]]
      BY Zenon
    <3> HIDE DEF Body, suffix
    <3> QED BY <3>1
  <2> HIDE DEF suffix, Body
  <2> QED BY <2>1, <2>2, <2>3
<1>5. read = Body(read)
  <2>1. \E f : f = Body(f)
    <3> HIDE DEF Body
    <3> QED BY <1>4
  <2> HIDE DEF Body
  <2> QED BY <2>1, Zenon
<1>6. \A i \in D : read[i] = IF i > n THEN << >> ELSE <<raw[i]>> \o read[i + 1]
  <2> HIDE DEF read, Body
  <2> QED BY <1>2, <1>5
<1> HIDE DEF read
<1>7. D \subseteq Suffixes
  <2>1. ASSUME NEW i \in D, \A j \in D : rank[j] < rank[i] => j \in Suffixes
        PROVE  i \in Suffixes
    <3>1. CASE i > n
      BY <1>3, <1>6, <3>1
    <3>2. CASE i \in 1..n
      <4>1. i + 1 \in D /\ rank[i + 1] < rank[i]
        BY <1>1, <3>2
      <4>2. read[i + 1] = SubSeq(raw, i + 1, n)
        BY <2>1, <4>1
      <4> QED BY <1>1, <1>3, <1>6, <3>2, <4>2
    <3> QED BY <1>1, <3>1, <3>2
  <2>2. rank \in [D -> Nat]
    BY <1>1
  <2> HIDE DEF Suffixes, rank, D
  <2> QED BY <2>1, <2>2, RankInduction
<1>8. read[1] = SubSeq(raw, 1, n)
  BY <1>1, <1>7
<1>9. SubSeq(raw, 1, n) = raw
  BY SubSeqFull
<1>10. Decoded(raw, n) = read[1]
  BY DEF Decoded, read
<1> QED BY <1>8, <1>9, <1>10

(* So is an element of a tag: neither its length nor its text changes. *)
LEMMA PlainIsRead ==
  ASSUME NEW raw \in Seq(STRING), "\\" \notin Range(raw)
  PROVE  ParsedElement(raw) = raw
<1>1. json_raw_string(raw) = raw
  BY PlainIsDecoded DEF json_raw_string
<1> QED BY <1>1, PlainIsDecoded DEF ParsedElement, raw_len

(***************************************************************************)
(* A list of texts is one text after the other, and a comma between two.   *)
(***************************************************************************)
LEMMA ClosingEquation ==
  ASSUME NEW S, NEW texts \in Seq(Seq(S)), Sign("]") \in S, Sign("comma") \in S,
         NEW n \in 1..Len(texts) + 1
  PROVE  /\ Closing(texts, n) \in Seq(S)
         /\ n = Len(texts) + 1 => Closing(texts, n) = <<Sign("]")>>
         /\ n <= Len(texts) =>
              Closing(texts, n) = (IF n = 1 THEN << >> ELSE <<Sign("comma")>>)
                                    \o (texts[n] \o Closing(texts, n + 1))
<1> DEFINE N == Len(texts)
           Y == Seq(S)
           end == <<Sign("]")>>
           Comma(i) == IF i = 1 THEN << >> ELSE <<Sign("comma")>>
           Join(i, y) == Comma(i) \o (texts[i] \o y)
           Step(f) == [i \in 1..Len(texts) + 1 |->
             IF i > Len(texts) THEN <<Sign("]")>>
             ELSE (IF i = 1 THEN << >> ELSE <<Sign("comma")>>) \o (texts[i] \o f[i + 1])]
           G == [i \in 1..N |-> [y \in Y |-> Join(i, y)]]
           from == CHOOSE f : f = Step(f)
           Typed == {i \in 1..N + 1 : from[i] \in Y}
<1>1. N \in Nat
  OBVIOUS
<1>2. ASSUME NEW i \in 1..N PROVE texts[i] \in Y
  OBVIOUS
<1>3. end \in Y /\ \A i : Comma(i) \in Y
  <2>1. end \in Y
    OBVIOUS
  <2>2. ASSUME NEW i PROVE Comma(i) \in Y
    <3>1. << >> \in Y /\ <<Sign("comma")>> \in Y
      OBVIOUS
    <3> HIDE DEF Y
    <3> QED BY <3>1
  <2> QED BY <2>1, <2>2
<1>4. ASSUME NEW a \in Y, NEW b \in Y PROVE a \o b \in Y
  OBVIOUS
<1>5. ASSUME NEW i \in 1..N, NEW y \in Y PROVE Join(i, y) \in Y
  <2> HIDE DEF Y, Comma, N
  <2> QED BY <1>2, <1>3, <1>4
<1>6. ASSUME NEW f, NEW i \in 1..N + 1
      PROVE  Step(f)[i] = IF i = N + 1 THEN end ELSE Join(i, f[i + 1])
  <2>1. Step(f)[i] = IF i > N THEN end ELSE Join(i, f[i + 1])
    BY Zenon
  <2>2. i > N <=> i = N + 1
    <3> HIDE DEF N
    <3> QED BY <1>1
  <2> QED BY <2>1, <2>2, Zenon
<1>7. from = Step(from)
  <2>1. \E f : f = Step(f)
    <3>1. G \in [1..N -> [Y -> Y]]
      <4> HIDE DEF Y, N, Join
      <4> QED BY <1>5
    <3>2. PICK f : GoesDown(f, N, Y, end, G)
      <4> HIDE DEF Y, N, G, end
      <4> QED BY <1>1, <1>3, <3>1, DownwardRecursion
    <3>3. /\ f \in [1..N + 1 -> Y] /\ f[N + 1] = end
          /\ \A i \in 1..N : f[i] = G[i][f[i + 1]]
      <4> HIDE DEF Y, N, G, end
      <4> QED BY <3>2 DEF GoesDown
    <3>4. ASSUME NEW i \in 1..N + 1 PROVE f[i] = Step(f)[i]
      <4>1. i # N + 1 => i \in 1..N /\ i + 1 \in 1..N + 1
        <5> HIDE DEF N
        <5> QED BY <1>1
      <4>2. \A j \in 1..N, y \in Y : G[j][y] = Join(j, y)
        <5> HIDE DEF N, Y, Join
        <5> QED OBVIOUS
      <4>3. i # N + 1 => f[i] = Join(i, f[i + 1])
        <5>1. i # N + 1 => f[i + 1] \in Y /\ f[i] = G[i][f[i + 1]]
          <6> HIDE DEF G, N, Y, end
          <6> QED BY <3>3, <4>1
        <5> HIDE DEF G, N, Y, Join, end
        <5> QED BY <4>1, <4>2, <5>1
      <4>4. Step(f)[i] = IF i = N + 1 THEN end ELSE Join(i, f[i + 1])
        BY <1>6, Zenon
      <4> HIDE DEF Step, G, N, Y, Join, end
      <4> QED BY <3>3, <4>3, <4>4
    <3>5. DOMAIN Step(f) = 1..N + 1 /\ Step(f) = [i \in 1..N + 1 |-> Step(f)[i]]
      BY Zenon
    <3>6. f = Step(f)
      <4> HIDE DEF Step, N, Y
      <4> QED BY <3>3, <3>4, <3>5
    <3> HIDE DEF Step
    <3> QED BY <3>6
  <2> HIDE DEF Step
  <2> QED BY <2>1, Zenon
<1>8. ASSUME NEW i \in 1..N + 1
      PROVE  from[i] = IF i = N + 1 THEN end ELSE Join(i, from[i + 1])
  <2> HIDE DEF from, Step, Join, end, N
  <2> QED BY <1>6, <1>7
<1> HIDE DEF from, Step
<1>9. 1..N + 1 \subseteq Typed
  <2>1. N + 1 \in Typed
    <3> HIDE DEF N, Y, end, Join
    <3> QED BY <1>1, <1>3, <1>8
  <2>2. ASSUME NEW i \in 1..N, i + 1 \in Typed PROVE i \in Typed
    <3> HIDE DEF N, Y, end, Join
    <3> QED BY <1>1, <1>5, <1>8, <2>2
  <2> HIDE DEF N, Typed
  <2> QED BY <1>1, <2>1, <2>2, DownwardInduction
<1>10. \A i : Closing(texts, i) = from[i]
  BY DEF Closing, from, Step
<1>11. Closing(texts, n) \in Y
  BY <1>9, <1>10
<1>12. n = N + 1 => Closing(texts, n) = end
  <2> HIDE DEF N, end, Join
  <2> QED BY <1>8, <1>10
<1>13. n <= N => Closing(texts, n) = Join(n, Closing(texts, n + 1))
  <2>1. n <= N => n # N + 1
    <3> HIDE DEF N
    <3> QED BY <1>1
  <2>2. n # N + 1 => from[n] = Join(n, from[n + 1])
    BY <1>8, Zenon
  <2> HIDE DEF N, end
  <2> QED BY <1>10, <2>1, <2>2, Zenon
<1> QED BY <1>11, <1>12, <1>13, Zenon

-----------------------------------------------------------------------------
(* What stands in front of a list is its head, and the list its tail. *)
LEMMA InFront ==
  ASSUME NEW S, NEW a \in S, NEW s \in Seq(S)
  PROVE  /\ <<a>> \o s \in Seq(S) /\ <<a>> \o s # << >>
         /\ Head(<<a>> \o s) = a /\ Tail(<<a>> \o s) = s
<1> DEFINE one == <<a>>
           t == one \o s
<1>1. one \in Seq(S) /\ Len(one) = 1 /\ one[1] = a
  OBVIOUS
<1> HIDE DEF one
<1>2. /\ t \in Seq(S) /\ Len(t) = 1 + Len(s) /\ t[1] = a
      /\ \A i \in 1..Len(s) : t[1 + i] = s[i]
  BY <1>1, ConcatProperties
<1> HIDE DEF t
<1>3. Len(s) \in Nat /\ t # << >> /\ Head(t) = a
  BY <1>2
<1>4. Tail(t) \in Seq(S) /\ Len(Tail(t)) = Len(s) /\ \A i \in 1..Len(s) : Tail(t)[i] = s[i]
  BY <1>2, <1>3
<1>5. Tail(t) = s
  BY <1>4, SeqEqual
<1> QED BY <1>2, <1>3, <1>5 DEF t, one

LEMMA LexemesAreTyped ==
  /\ Sign("[") \in Lexeme /\ Sign("]") \in Lexeme /\ Sign("comma") \in Lexeme
  /\ \A raw \in Seq(STRING) : Quoted(raw) \in Lexeme
<1> DEFINE Raw == Seq(STRING)
<1>1. << >> \in Raw
  OBVIOUS
<1>2. Sign("[") \in Lexeme /\ Sign("]") \in Lexeme /\ Sign("comma") \in Lexeme
  BY <1>1 DEF Sign, Lexeme
<1>3. ASSUME NEW raw \in Raw PROVE Quoted(raw) \in Lexeme
  BY DEF Quoted, Lexeme
<1> QED BY <1>2, <1>3

LEMMA BracketedIsTyped ==
  ASSUME NEW texts \in Seq(Seq(Lexeme))
  PROVE  /\ Bracketed(texts) \in Seq(Lexeme)
         /\ \A n \in 1..Len(texts) + 1 : Closing(texts, n) \in Seq(Lexeme)
<1>1. \A n \in 1..Len(texts) + 1 : Closing(texts, n) \in Seq(Lexeme)
  BY LexemesAreTyped, ClosingEquation
<1>2. 1 \in 1..Len(texts) + 1
  OBVIOUS
<1> DEFINE open == Sign("[")
           back == Closing(texts, 1)
<1>3. open \in Lexeme /\ back \in Seq(Lexeme)
  BY <1>1, <1>2, LexemesAreTyped
<1>4. <<open>> \o back \in Seq(Lexeme)
  <2> HIDE DEF open, back
  <2> QED BY <1>3, InFront
<1> QED BY <1>1, <1>4 DEF Bracketed

LEMMA ElementsAreTyped ==
  ASSUME NEW t \in Seq(Seq(STRING))
  PROVE  /\ Elements(t) \in Seq(Seq(Lexeme)) /\ Len(Elements(t)) = Len(t)
         /\ \A j \in 1..Len(t) : Elements(t)[j] = <<Quoted(t[j])>>
<1> DEFINE Raw == Seq(STRING)
           Y == Seq(Lexeme)
<1>1. ASSUME NEW j \in 1..Len(t) PROVE <<Quoted(t[j])>> \in Y
  <2>1. t[j] \in Raw
    OBVIOUS
  <2>2. Quoted(t[j]) \in Lexeme
    BY <2>1, LexemesAreTyped
  <2> QED BY <2>2
<1>2. Elements(t) = [j \in 1..Len(t) |-> <<Quoted(t[j])>>] /\ Len(t) \in Nat
  BY DEF Elements
<1> HIDE DEF Y
<1>3. Elements(t) \in Seq(Y) /\ Len(Elements(t)) = Len(t)
  <2> DEFINE q(j) == <<Quoted(t[j])>>
             e == [j \in 1..Len(t) |-> q(j)]
             n == Len(t)
  <2>1. n \in Nat /\ \A j \in 1..n : q(j) \in Y
    BY <1>1, <1>2
  <2> HIDE DEF q, n
  <2>2. [j \in 1..n |-> q(j)] \in Seq(Y) /\ Len([j \in 1..n |-> q(j)]) = n
    BY <2>1
  <2> QED BY <1>2, <2>2 DEF q, n
<1> QED BY <1>2, <1>3 DEF Y

(* The texts of an event's tags are lists of lexemes. *)
LEMMA TagTextsAreTyped ==
  ASSUME NEW ev, IsWritten(ev)
  PROVE  /\ ev.tags \in Seq(Seq(Seq(STRING))) /\ Len(ev.tags) \in Nat
         /\ TagTexts(ev) \in Seq(Seq(Lexeme)) /\ Len(TagTexts(ev)) = Len(ev.tags)
         /\ \A i \in 1..Len(ev.tags) :
              /\ ev.tags[i] \in Seq(Seq(STRING)) /\ Len(ev.tags[i]) \in Nat
              /\ TagTexts(ev)[i] = Bracketed(Elements(ev.tags[i]))
<1> DEFINE all == ev.tags
           Y == Seq(Lexeme)
           Tag == Seq(Seq(STRING))
           q(i) == Bracketed(Elements(all[i]))
           n == Len(all)
<1>1. all \in Seq(Tag)
  BY DEF IsWritten
<1> HIDE DEF all, Tag
<1>2. n \in Nat /\ DOMAIN all = 1..n /\ \A i \in 1..n : all[i] \in Tag
  BY <1>1
<1>3. ASSUME NEW i \in 1..n PROVE q(i) \in Y
  <2>1. all[i] \in Seq(Seq(STRING))
    BY <1>2 DEF Tag
  <2> QED BY <2>1, ElementsAreTyped, BracketedIsTyped
<1>4. TagTexts(ev) = [i \in 1..n |-> q(i)]
  BY <1>2 DEF TagTexts, all
<1>5. ASSUME NEW i \in 1..n PROVE all[i] \in Seq(Seq(STRING)) /\ Len(all[i]) \in Nat
  <2>1. all[i] \in Seq(Seq(STRING))
    BY <1>2 DEF Tag
  <2> QED BY <2>1
<1>6. TagTexts(ev) \in Seq(Y) /\ Len(TagTexts(ev)) = n
  <2> HIDE DEF n, q, Y
  <2>1. [i \in 1..n |-> q(i)] \in Seq(Y) /\ Len([i \in 1..n |-> q(i)]) = n
    BY <1>2, <1>3
  <2> QED BY <1>4, <2>1
<1>7. \A i \in 1..n : TagTexts(ev)[i] = q(i)
  BY <1>4
<1> QED BY <1>1, <1>2, <1>5, <1>6, <1>7 DEF all, Tag

-----------------------------------------------------------------------------
(* Before the m-th element of a tag stands its comma, or the bracket that  *)
(* closes the tag.                                                         *)
LEMMA ElementShape ==
  ASSUME NEW ev, IsWritten(ev), NEW n \in 1..Len(ev.tags), NEW m \in 1..Len(ev.tags[n]) + 1,
         FromTag(ev, n + 1) \in Seq(Lexeme)
  PROVE  /\ FromElement(ev, n, m) \in Seq(Lexeme)
         /\ m = Len(ev.tags[n]) + 1 =>
              FromElement(ev, n, m) = <<Sign("]")>> \o FromTag(ev, n + 1)
         /\ m <= Len(ev.tags[n]) =>
              /\ FromString(ev, n, m) \in Seq(Lexeme)
              /\ FromElement(ev, n, m) =
                   IF m = 1 THEN FromString(ev, n, m) ELSE <<Sign("comma")>> \o FromString(ev, n, m)
<1> DEFINE t == ev.tags[n]
           N == Len(t)
           E == Elements(t)
           Y == Seq(Lexeme)
           back == FromTag(ev, n + 1)
           close == <<Sign("]")>>
           comma == <<Sign("comma")>>
           quoted == <<Quoted(t[m])>>
           after == Closing(E, m + 1)
<1>1. t \in Seq(Seq(STRING)) /\ N \in Nat
  BY TagTextsAreTyped
<1>2. E \in Seq(Seq(Lexeme)) /\ Len(E) = N /\ \A j \in 1..N : E[j] = <<Quoted(t[j])>>
  <2> HIDE DEF t
  <2> QED BY <1>1, ElementsAreTyped
<1>3. m \in 1..N + 1
  OBVIOUS
<1>4. /\ Closing(E, m) \in Y
      /\ m = N + 1 => Closing(E, m) = close
      /\ m <= N => Closing(E, m) = (IF m = 1 THEN << >> ELSE comma) \o (E[m] \o after)
  <2>1. m \in 1..Len(E) + 1
    BY <1>2, <1>3
  <2> HIDE DEF E, N, t
  <2> QED BY <1>2, <2>1, LexemesAreTyped, ClosingEquation
<1>5. back \in Y /\ close \in Y /\ comma \in Y /\ << >> \in Y
  <2>1. close \in Y /\ comma \in Y /\ << >> \in Y
    BY LexemesAreTyped
  <2> QED BY <2>1
<1>6. FromElement(ev, n, m) = Closing(E, m) \o back
  BY DEF FromElement
<1>7. FromElement(ev, n, m) \in Y
  <2> HIDE DEF E, back
  <2> QED BY <1>4, <1>5, <1>6
<1>8. m = N + 1 => FromElement(ev, n, m) = close \o back
  BY <1>4, <1>6, Zenon
<1>9. ASSUME m <= N
      PROVE  /\ FromString(ev, n, m) \in Y
             /\ FromElement(ev, n, m) =
                  IF m = 1 THEN FromString(ev, n, m) ELSE comma \o FromString(ev, n, m)
  <2>1. m \in 1..N
    <3> HIDE DEF N
    <3> QED BY <1>1, <1>3, <1>9
  <2>2. E[m] = quoted /\ quoted \in Y
    <3>1. t[m] \in Seq(STRING)
      <4> HIDE DEF t
      <4> QED BY <1>1, <2>1
    <3>2. Quoted(t[m]) \in Lexeme
      BY <3>1, LexemesAreTyped
    <3>3. quoted \in Y
      BY <3>2
    <3> QED BY <1>2, <2>1, <3>3
  <2>3. after \in Y
    <3>1. m + 1 \in 1..Len(E) + 1
      <4> HIDE DEF N, E
      <4> QED BY <1>1, <1>2, <2>1
    <3> HIDE DEF E
    <3> QED BY <1>2, <3>1, BracketedIsTyped
  <2>4. FromString(ev, n, m) = quoted \o (after \o back)
    BY DEF FromString, FromElement
  <2> DEFINE string == FromString(ev, n, m)
             inner == quoted \o after
  <2>5. after \o back \in Y /\ inner \in Y /\ inner \o back = quoted \o (after \o back)
    <3> HIDE DEF after, back, quoted
    <3> QED BY <1>5, <2>2, <2>3, ConcatAssociative
  <2>6. string \in Y /\ inner \o back = string
    <3> HIDE DEF after, back, quoted, inner
    <3> QED BY <1>5, <2>2, <2>3, <2>4, <2>5
  <2> DEFINE front == IF m = 1 THEN << >> ELSE comma
  <2>7. front \in Y /\ FromElement(ev, n, m) = (front \o inner) \o back
    <3>1. Closing(E, m) = front \o inner
      BY <1>4, <1>9, <2>2, Zenon
    <3> QED BY <1>5, <1>6, <3>1
  <2>8. FromElement(ev, n, m) = front \o string
    <3>1. (front \o inner) \o back = front \o (inner \o back)
      <4>1. front \in Y /\ inner \in Y /\ back \in Y
        BY <1>5, <2>5, <2>7
      <4> HIDE DEF front, inner, back
      <4> QED BY <4>1, ConcatAssociative
    <3> HIDE DEF front, inner, back, string
    <3> QED BY <2>6, <2>7, <3>1, Zenon
  <2>9. << >> \o string = string
    <3> HIDE DEF string
    <3> QED BY <2>6
  <2>10. FromElement(ev, n, m) = IF m = 1 THEN string ELSE comma \o string
    <3> HIDE DEF string, comma
    <3>1. CASE m = 1
      BY <2>8, <2>9, <3>1
    <3>2. CASE m # 1
      BY <2>8, <3>2
    <3> QED BY <3>1, <3>2
  <2> QED BY <2>6, <2>10
<1> QED BY <1>7, <1>8, <1>9 DEF N, t

(* Before the n-th tag stands its comma, or the bracket that closes them   *)
(* all.                                                                    *)
LEMMA TagShape ==
  ASSUME NEW ev, IsWritten(ev), NEW n \in 1..Len(ev.tags) + 1
  PROVE  /\ FromTag(ev, n) \in Seq(Lexeme)
         /\ n = Len(ev.tags) + 1 => FromTag(ev, n) = <<Sign("]")>>
         /\ n <= Len(ev.tags) =>
              /\ FromElement(ev, n, 1) \in Seq(Lexeme)
              /\ FromBracket(ev, n) = <<Sign("[")>> \o FromElement(ev, n, 1)
              /\ FromTag(ev, n) =
                   IF n = 1 THEN FromBracket(ev, n) ELSE <<Sign("comma")>> \o FromBracket(ev, n)
<1> DEFINE N == Len(ev.tags)
           T == TagTexts(ev)
           Y == Seq(Lexeme)
           close == <<Sign("]")>>
           comma == <<Sign("comma")>>
           open == <<Sign("[")>>
<1>1. N \in Nat /\ T \in Seq(Seq(Lexeme)) /\ Len(T) = N
  BY TagTextsAreTyped
<1>2. close \in Y /\ comma \in Y /\ open \in Y /\ << >> \in Y
  BY LexemesAreTyped
<1>3. \A i \in 1..N + 1 : FromTag(ev, i) \in Y
  <2> HIDE DEF N, T
  <2>1. \A i \in 1..N + 1 : Closing(T, i) \in Y
    BY <1>1, BracketedIsTyped
  <2> QED BY <2>1 DEF FromTag, T
<1>4. /\ n = N + 1 => FromTag(ev, n) = close
      /\ n <= N => FromTag(ev, n) = (IF n = 1 THEN << >> ELSE comma) \o (T[n] \o FromTag(ev, n + 1))
  <2>1. n \in 1..Len(T) + 1
    BY <1>1
  <2>2. /\ n = N + 1 => Closing(T, n) = close
        /\ n <= N => Closing(T, n) = (IF n = 1 THEN << >> ELSE comma) \o (T[n] \o Closing(T, n + 1))
    <3> HIDE DEF N, T
    <3> QED BY <1>1, <2>1, LexemesAreTyped, ClosingEquation
  <2> HIDE DEF close, comma
  <2> QED BY <2>2, Zenon DEF FromTag
<1>5. ASSUME n <= N
      PROVE  /\ FromElement(ev, n, 1) \in Seq(Lexeme)
             /\ FromBracket(ev, n) = open \o FromElement(ev, n, 1)
             /\ FromTag(ev, n) = IF n = 1 THEN FromBracket(ev, n) ELSE comma \o FromBracket(ev, n)
  <2> DEFINE E == Elements(ev.tags[n])
             first == Closing(E, 1)
             back == FromTag(ev, n + 1)
             element == FromElement(ev, n, 1)
             bracket == FromBracket(ev, n)
             front == IF n = 1 THEN << >> ELSE comma
  <2>1. n \in 1..N /\ n + 1 \in 1..N + 1
    <3> HIDE DEF N
    <3> QED BY <1>1, <1>5
  <2>2. back \in Y
    BY <1>3, <2>1
  <2>3. T[n] = Bracketed(E)
    BY <2>1, TagTextsAreTyped
  <2>4. first \in Y
    <3>1. E \in Seq(Seq(Lexeme))
      <4>1. ev.tags[n] \in Seq(Seq(STRING))
        BY <2>1, TagTextsAreTyped
      <4> QED BY <4>1, ElementsAreTyped
    <3>2. 1 \in 1..Len(E) + 1
      <4> HIDE DEF E
      <4> QED BY <3>1
    <3> HIDE DEF E
    <3> QED BY <3>1, <3>2, BracketedIsTyped
  <2>5. element = first \o back /\ bracket = (open \o first) \o back
    BY DEF FromElement, FromBracket, Bracketed
  <2>6. element \in Y /\ bracket \in Y /\ bracket = open \o element
    <3> HIDE DEF first, back, open, element, bracket
    <3> QED BY <1>2, <2>2, <2>4, <2>5, ConcatAssociative
  <2>7. FromTag(ev, n) = front \o bracket
    <3>1. bracket = T[n] \o back
      BY <2>3 DEF FromBracket
    <3> HIDE DEF T, back, bracket, comma
    <3> QED BY <1>4, <1>5, <3>1, Zenon DEF back
  <2>8. << >> \o bracket = bracket
    <3> HIDE DEF bracket
    <3> QED BY <2>6
  <2> HIDE DEF bracket, element, comma, open
  <2> QED BY <2>6, <2>7, <2>8 DEF bracket, element
<1>6. FromTag(ev, n) \in Y
  BY <1>3
<1> QED BY <1>4, <1>5, <1>6

-----------------------------------------------------------------------------
(* What stands next, and what is left behind it. *)
TagReads(ev, n, left) ==
  \/ Head(left).is = "]" /\ n = Len(ev.tags) + 1
  \/ Head(left).is = "[" /\ n <= Len(ev.tags) /\ BeforeElement(ev, n, 1, Tail(left))
  \/ Head(left).is = "comma" /\ n <= Len(ev.tags) /\ BeforeTag(ev, n, Tail(left))

ElementReads(ev, n, m, left) ==
  \/ Head(left).is = "]" /\ m = Len(ev.tags[n]) + 1 /\ BeforeTag(ev, n + 1, Tail(left))
  \/ /\ Head(left).is = "string" /\ m <= Len(ev.tags[n])
     /\ Head(left).raw = ev.tags[n][m] /\ BeforeElement(ev, n, m + 1, Tail(left))
  \/ Head(left).is = "comma" /\ m <= Len(ev.tags[n]) /\ BeforeElement(ev, n, m, Tail(left))

LEMMA ConsIs ==
  ASSUME NEW a \in Lexeme, NEW s \in Seq(Lexeme), NEW left, left = <<a>> \o s
  PROVE  left \in Seq(Lexeme) /\ left # << >> /\ Head(left) = a /\ Tail(left) = s
BY InFront

(* Between two tags the next lexeme tells how many are left. *)
LEMMA ReadsTag ==
  ASSUME NEW ev, IsWritten(ev), NEW n \in 1..Len(ev.tags) + 1, NEW left, BeforeTag(ev, n, left)
  PROVE  left \in Seq(Lexeme) /\ left # << >> /\ TagReads(ev, n, left)
<1> DEFINE N == Len(ev.tags)
           close == Sign("]")
           open == Sign("[")
           comma == Sign("comma")
           bracket == FromBracket(ev, n)
           element == FromElement(ev, n, 1)
           from == FromTag(ev, n)
<1>1. /\ close \in Lexeme /\ open \in Lexeme /\ comma \in Lexeme
      /\ close.is = "]" /\ open.is = "[" /\ comma.is = "comma"
  <2>1. close.is = "]" /\ open.is = "[" /\ comma.is = "comma"
    BY DEF Sign
  <2> QED BY <2>1, LexemesAreTyped
<1>2. N \in Nat /\ n \in 1..N + 1
  BY TagTextsAreTyped
<1>3. /\ n = N + 1 => from = <<close>>
      /\ n <= N => /\ element \in Seq(Lexeme) /\ bracket = <<open>> \o element
                   /\ from = IF n = 1 THEN bracket ELSE <<comma>> \o bracket
  BY TagShape
<1>4. left = from \/ (n \in 2..N /\ left = bracket)
  BY DEF BeforeTag
<1>5. \A s : s = element => BeforeElement(ev, n, 1, s)
  BY DEF BeforeElement
<1>6. n \in 2..N => BeforeTag(ev, n, bracket)
  BY DEF BeforeTag
<1> HIDE DEF N, close, open, comma, bracket, element, from
<1>7. ASSUME n <= N, left = bracket
      PROVE  left \in Seq(Lexeme) /\ left # << >> /\ Head(left) = open /\ Tail(left) = element
  BY <1>1, <1>3, <1>7, ConsIs
<1>8. CASE n <= N /\ left = bracket
  <2>1. Head(left).is = "[" /\ BeforeElement(ev, n, 1, Tail(left))
    BY <1>1, <1>5, <1>7, <1>8
  <2>2. n <= Len(ev.tags)
    BY <1>8 DEF N
  <2> QED BY <1>7, <1>8, <2>1, <2>2 DEF TagReads
<1>9. CASE n \in 2..N /\ left = from
  <2>1. n <= N /\ n # 1
    BY <1>2, <1>9
  <2>2. bracket \in Seq(Lexeme)
    BY <1>1, <1>3, <2>1, ConsIs
  <2>3. left \in Seq(Lexeme) /\ left # << >> /\ Head(left) = comma /\ Tail(left) = bracket
    <3>1. left = <<comma>> \o bracket
      BY <1>3, <1>9, <2>1
    <3> QED BY <1>1, <2>2, <3>1, ConsIs
  <2>4. Head(left).is = "comma" /\ BeforeTag(ev, n, Tail(left))
    BY <1>1, <1>6, <1>9, <2>3
  <2>5. n <= Len(ev.tags)
    BY <2>1 DEF N
  <2> QED BY <2>3, <2>4, <2>5 DEF TagReads
<1>10. CASE n = N + 1
  <2>1. left = <<close>>
    <3>1. ~(n \in 2..N)
      BY <1>2, <1>10
    <3> QED BY <1>3, <1>4, <1>10, <3>1
  <2>2. left \in Seq(Lexeme) /\ left # << >> /\ Head(left) = close
    BY <1>1, <2>1
  <2>3. n = Len(ev.tags) + 1
    BY <1>10 DEF N
  <2>4. Head(left).is = "]"
    BY <1>1, <2>2
  <2> QED BY <2>2, <2>3, <2>4 DEF TagReads
<1>11. n = N + 1 \/ n \in 2..N \/ (n = 1 /\ n <= N)
  BY <1>2
<1>12. CASE n = 1 /\ n <= N
  <2>1. left = bracket
    BY <1>3, <1>4, <1>12
  <2> QED BY <1>8, <1>12, <2>1
<1>13. CASE n \in 2..N
  <2>1. n <= N
    BY <1>2, <1>13
  <2> QED BY <1>4, <1>8, <1>9, <1>13, <2>1
<1> QED BY <1>10, <1>11, <1>12, <1>13

(* Within a tag the next lexeme tells how many elements are left. *)
LEMMA ReadsElement ==
  ASSUME NEW ev, IsWritten(ev), NEW n \in 1..Len(ev.tags), NEW m \in 1..Len(ev.tags[n]) + 1,
         NEW left, BeforeElement(ev, n, m, left)
  PROVE  left \in Seq(Lexeme) /\ left # << >> /\ ElementReads(ev, n, m, left)
<1> DEFINE M == Len(ev.tags[n])
           close == Sign("]")
           comma == Sign("comma")
           value == ev.tags[n][m]
           quoted == Quoted(value)
           string == FromString(ev, n, m)
           further == FromElement(ev, n, m + 1)
           from == FromElement(ev, n, m)
           back == FromTag(ev, n + 1)
<1>1. /\ close \in Lexeme /\ comma \in Lexeme
      /\ close.is = "]" /\ comma.is = "comma"
  <2>1. close.is = "]" /\ comma.is = "comma"
    BY DEF Sign
  <2> QED BY <2>1, LexemesAreTyped
<1>2. M \in Nat /\ m \in 1..M + 1
  BY TagTextsAreTyped
<1>3. back \in Seq(Lexeme)
  <2>1. n + 1 \in 1..Len(ev.tags) + 1
    BY TagTextsAreTyped
  <2> QED BY <2>1, TagShape
<1>4. /\ from \in Seq(Lexeme)
      /\ m = M + 1 => from = <<close>> \o back
      /\ m <= M => /\ string \in Seq(Lexeme)
                   /\ from = IF m = 1 THEN string ELSE <<comma>> \o string
  BY <1>3, ElementShape
<1>5. m <= M => further \in Seq(Lexeme)
  <2> SUFFICES ASSUME m <= M PROVE further \in Seq(Lexeme)
    OBVIOUS
  <2> DEFINE k == m + 1
  <2>1. k \in 1..Len(ev.tags[n]) + 1
    <3>1. k \in 1..M + 1
      <4> HIDE DEF M
      <4> QED BY <1>2
    <3> QED BY <3>1
  <2>2. FromElement(ev, n, k) \in Seq(Lexeme)
    <3> HIDE DEF k
    <3> QED BY <1>3, <2>1, ElementShape
  <2> QED BY <2>2
<1>6. m <= M => quoted \in Lexeme /\ quoted.is = "string" /\ quoted.raw = value
  <2>1. m <= M => value \in Seq(STRING)
    <3>1. ev.tags[n] \in Seq(Seq(STRING))
      BY TagTextsAreTyped
    <3>2. m <= M => m \in 1..Len(ev.tags[n])
      <4>1. m <= M => m \in 1..M
        <5> HIDE DEF M
        <5> QED BY <1>2
      <4> QED BY <4>1
    <3> DEFINE t == ev.tags[n]
    <3> HIDE DEF t
    <3> QED BY <3>1, <3>2 DEF t
  <2>2. quoted.is = "string" /\ quoted.raw = value
    BY DEF Quoted
  <2> HIDE DEF value, M
  <2> QED BY <2>1, <2>2, LexemesAreTyped
<1>7. string = <<quoted>> \o further
  BY DEF FromString
<1>8. left = from \/ (m \in 2..M /\ left = string)
  BY DEF BeforeElement
<1>9. /\ BeforeElement(ev, n, m + 1, further)
      /\ m \in 2..M => BeforeElement(ev, n, m, string)
      /\ BeforeTag(ev, n + 1, back)
  BY DEF BeforeElement, BeforeTag
<1>10. \A i : i <= M => i <= Len(ev.tags[n])
  OBVIOUS
<1> HIDE DEF M, close, comma, string, further, from, back, quoted
<1>11. CASE m <= M /\ left = string
  <2>1. left \in Seq(Lexeme) /\ left # << >> /\ Head(left) = quoted /\ Tail(left) = further
    BY <1>5, <1>6, <1>7, <1>11, ConsIs
  <2>2. Head(left).is = "string" /\ Head(left).raw = value /\ BeforeElement(ev, n, m + 1, Tail(left))
    BY <1>6, <1>9, <1>11, <2>1
  <2> QED BY <1>10, <1>11, <2>1, <2>2 DEF ElementReads
<1>12. CASE m \in 2..M /\ left = from
  <2>1. m <= M /\ m # 1
    BY <1>2, <1>12
  <2>2. left \in Seq(Lexeme) /\ left # << >> /\ Head(left) = comma /\ Tail(left) = string
    <3>1. left = <<comma>> \o string /\ string \in Seq(Lexeme)
      BY <1>4, <1>12, <2>1
    <3> QED BY <1>1, <3>1, ConsIs
  <2>3. Head(left).is = "comma" /\ BeforeElement(ev, n, m, Tail(left))
    BY <1>1, <1>9, <1>12, <2>2
  <2> QED BY <1>10, <2>1, <2>2, <2>3 DEF ElementReads
<1>13. CASE m = M + 1
  <2>1. left = <<close>> \o back
    <3>1. ~(m \in 2..M)
      BY <1>2, <1>13
    <3> QED BY <1>4, <1>8, <1>13, <3>1
  <2>2. left \in Seq(Lexeme) /\ left # << >> /\ Head(left) = close /\ Tail(left) = back
    BY <1>1, <1>3, <2>1, ConsIs
  <2>3. m = Len(ev.tags[n]) + 1
    BY <1>13 DEF M
  <2>4. Head(left).is = "]" /\ BeforeTag(ev, n + 1, Tail(left))
    BY <1>1, <1>9, <2>2
  <2> QED BY <2>2, <2>3, <2>4 DEF ElementReads
<1>14. m = M + 1 \/ m \in 2..M \/ (m = 1 /\ m <= M)
  BY <1>2
<1>15. CASE m = 1 /\ m <= M
  <2>1. left = string
    BY <1>4, <1>8, <1>15
  <2> QED BY <1>11, <1>15, <2>1
<1>16. CASE m \in 2..M
  <2>1. m <= M
    BY <1>2, <1>16
  <2> QED BY <1>8, <1>11, <1>12, <1>16, <2>1
<1> QED BY <1>13, <1>14, <1>15, <1>16

-----------------------------------------------------------------------------
(* A list with one thing more at its g-th place. *)
LEMMA WithBlank ==
  ASSUME NEW S, NEW s \in Seq(S), NEW g \in 2..Len(s), NEW b \in S
  PROVE  LET t == SubSeq(s, 1, g - 1) \o <<b>> \o SubSeq(s, g, Len(s))
         IN  /\ Len(t) = Len(s) + 1 /\ t[g] = b
             /\ \A i \in 1..g - 1 : t[i] = s[i]
             /\ \A i \in g + 1..Len(s) + 1 : t[i] = s[i - 1]
<1> DEFINE front == SubSeq(s, 1, g - 1)
           one == <<b>>
           back == SubSeq(s, g, Len(s))
           half == front \o one
           t == half \o back
<1>1. Len(s) \in Nat /\ g \in Nat /\ 2 <= g /\ g <= Len(s)
  OBVIOUS
<1>2. /\ front \in Seq(S) /\ Len(front) = g - 1
      /\ \A i \in 1..g - 1 : front[i] = s[i]
  BY <1>1
<1>3. /\ back \in Seq(S) /\ Len(back) = Len(s) - g + 1
      /\ \A i \in 1..Len(s) - g + 1 : back[i] = s[g + i - 1]
  BY <1>1
<1>4. one \in Seq(S) /\ Len(one) = 1 /\ one[1] = b
  OBVIOUS
<1> HIDE DEF front, one, back
<1>5. /\ half \in Seq(S) /\ Len(half) = g /\ half[g] = b
      /\ \A i \in 1..g - 1 : half[i] = s[i]
  <2>1. /\ half \in Seq(S) /\ Len(half) = Len(front) + Len(one)
        /\ \A i \in 1..Len(front) + Len(one) :
             half[i] = IF i <= Len(front) THEN front[i] ELSE one[i - Len(front)]
    BY <1>2, <1>4, ConcatProperties
  <2> HIDE DEF half
  <2> QED BY <1>1, <1>2, <1>4, <2>1
<1> HIDE DEF half
<1>6. /\ Len(t) = Len(s) + 1
      /\ \A i \in 1..g : t[i] = half[i]
      /\ \A i \in g + 1..Len(s) + 1 : t[i] = back[i - g]
  <2>1. /\ t \in Seq(S) /\ Len(t) = Len(half) + Len(back)
        /\ \A i \in 1..Len(half) + Len(back) :
             t[i] = IF i <= Len(half) THEN half[i] ELSE back[i - Len(half)]
    BY <1>3, <1>5, ConcatProperties
  <2> HIDE DEF t
  <2> QED BY <1>1, <1>3, <1>5, <2>1
<1> HIDE DEF t
<1>7. t[g] = b /\ \A i \in 1..g - 1 : t[i] = s[i]
  BY <1>1, <1>5, <1>6
<1>8. ASSUME NEW i \in g + 1..Len(s) + 1 PROVE t[i] = s[i - 1]
  <2>1. i - g \in 1..Len(s) - g + 1 /\ g + (i - g) - 1 = i - 1
    BY <1>1
  <2> QED BY <1>3, <1>6, <2>1
<1> QED BY <1>6, <1>7, <1>8 DEF t, half, front, one, back

LEMMA PlainTextIs ==
  ASSUME NEW ev, IsWritten(ev)
  PROVE  /\ PlainText(ev) \in Seq(Lexeme)
         /\ PlainText(ev) = <<Sign("[")>> \o FromTag(ev, 1)
         /\ FromTag(ev, 1) \in Seq(Lexeme) /\ FromTag(ev, 1) # << >>
<1>1. PlainText(ev) = <<Sign("[")>> \o FromTag(ev, 1)
  BY DEF PlainText, Bracketed, FromTag
<1>2. FromTag(ev, 1) \in Seq(Lexeme) /\ FromTag(ev, 1) # << >>
  <2> DEFINE n == 1
  <2>1. n \in 1..Len(ev.tags) + 1
    BY TagTextsAreTyped
  <2>2. BeforeTag(ev, n, FromTag(ev, n))
    BY DEF BeforeTag
  <2>3. FromTag(ev, n) \in Seq(Lexeme) /\ FromTag(ev, n) # << >>
    <3> HIDE DEF n
    <3> QED BY <2>1, <2>2, ReadsTag
  <2> QED BY <2>3
<1> DEFINE open == Sign("[")
           back == FromTag(ev, 1)
<1>3. <<open>> \o back \in Seq(Lexeme)
  <2>1. open \in Lexeme /\ back \in Seq(Lexeme)
    BY <1>2, LexemesAreTyped
  <2> HIDE DEF open, back
  <2> QED BY <2>1, InFront
<1> QED BY <1>1, <1>2, <1>3

(* What the parser sees, and what is left when it takes a step. *)
AtBlank(ev, at) ==
  /\ TextOf(ev)[at].is \in {"blank", "return"}
  /\ Left(ev, at + 1) = Left(ev, at)
AtLexeme(ev, at) ==
  /\ TextOf(ev)[at] = Head(Left(ev, at))
  /\ Left(ev, at + 1) = Tail(Left(ev, at))

(* What is left of a list behind an element of it. *)
LEMMA RestIs ==
  ASSUME NEW S, NEW s \in Seq(S), NEW i \in 1..Len(s)
  PROVE  /\ Head(SubSeq(s, i, Len(s))) = s[i]
         /\ Tail(SubSeq(s, i, Len(s))) = SubSeq(s, i + 1, Len(s))
         /\ SubSeq(s, i + 1, Len(s)) # << >> => i + 1 <= Len(s)
<1>1. Len(s) \in i..Len(s)
  OBVIOUS
<1>2. /\ Head(SubSeq(s, i, Len(s))) = s[i]
      /\ Tail(SubSeq(s, i, Len(s))) = SubSeq(s, i + 1, Len(s))
  BY <1>1, HeadTailOfSubSeq
<1>3. ASSUME ~(i + 1 <= Len(s)) PROVE SubSeq(s, i + 1, Len(s)) = << >>
  <2>1. i + 1 \in Int /\ Len(s) \in Int /\ Len(s) < i + 1
    BY <1>3
  <2> QED BY <2>1, SubSeqEmpty
<1> QED BY <1>2, <1>3

(* A step takes the parser past the blank, or past the next lexeme. *)
LEMMA TextAt ==
  ASSUME NEW ev, IsWritten(ev), NEW at \in 2..Len(TextOf(ev))
  PROVE  /\ AtBlank(ev, at) \/ AtLexeme(ev, at)
         /\ Left(ev, at + 1) # << >> => at + 1 \in 2..Len(TextOf(ev))
<1> DEFINE plain == PlainText(ev)
           text_ == TextOf(ev)
           g == ev.gap
           L == Len(plain)
           b == Sign(ev.blank)
           Rest(i) == SubSeq(plain, i, L)
<1>1. plain \in Seq(Lexeme) /\ L \in Nat /\ g \in Nat
  BY PlainTextIs DEF IsWritten
<1>2. b.is \in {"blank", "return"}
  BY DEF IsWritten, Sign
<1>3. CASE HasGap(ev)
  <2>1. g \in 2..L
    BY <1>3 DEF HasGap
  <2>2. text_ = SubSeq(plain, 1, g - 1) \o <<b>> \o SubSeq(plain, g, Len(plain))
    BY <2>1 DEF TextOf, PlainText
  <2>3. /\ Len(text_) = L + 1 /\ text_[g] = b
        /\ \A i \in 1..g - 1 : text_[i] = plain[i]
        /\ \A i \in g + 1..L + 1 : text_[i] = plain[i - 1]
    <3> DEFINE S == Lexeme \cup {b}
    <3>1. plain \in Seq(S) /\ b \in S /\ g \in 2..Len(plain)
      <4> HIDE DEF plain, b, g
      <4> QED BY <1>1, <2>1
    <3> HIDE DEF plain, text_, b, S, g
    <3>2. LET t == SubSeq(plain, 1, g - 1) \o <<b>> \o SubSeq(plain, g, Len(plain))
          IN  /\ Len(t) = Len(plain) + 1 /\ t[g] = b
              /\ \A i \in 1..g - 1 : t[i] = plain[i]
              /\ \A i \in g + 1..Len(plain) + 1 : t[i] = plain[i - 1]
      BY <3>1, WithBlank
    <3> QED BY <2>2, <3>2, Zenon
  <2>4. \A i : Left(ev, i) = Rest(IF i > g THEN i - 1 ELSE i)
    BY <1>3 DEF Left, Position
  <2>5. at \in 2..L + 1
    BY <2>3
  <2> HIDE DEF plain, text_, g, b
  <2>6. CASE at = g
    <3>1. Left(ev, at + 1) = Rest(at) /\ Left(ev, at) = Rest(at)
      <4>1. at + 1 > g /\ (at + 1) - 1 = at /\ ~(at > g)
        BY <1>1, <2>6
      <4> HIDE DEF Rest
      <4> QED BY <2>4, <4>1
    <3>2. AtBlank(ev, at)
      BY <1>2, <2>3, <2>6, <3>1 DEF AtBlank, text_
    <3>3. at + 1 \in 2..L + 1
      BY <1>1, <2>1, <2>6
    <3> QED BY <2>3, <3>2, <3>3 DEF text_
  <2>7. CASE at # g
    <3> DEFINE i == IF at > g THEN at - 1 ELSE at
    <3>1. i \in 1..L /\ text_[at] = plain[i]
      BY <1>1, <2>1, <2>3, <2>5, <2>7
    <3>2. (IF at + 1 > g THEN (at + 1) - 1 ELSE at + 1) = i + 1
      BY <1>1, <2>1, <2>5, <2>7
    <3>3. Left(ev, at) = Rest(i) /\ Left(ev, at + 1) = Rest(i + 1)
      <4> HIDE DEF Rest
      <4>1. Left(ev, at) = Rest(i)
        BY <2>4, Zenon
      <4>2. Left(ev, at + 1) = Rest(IF at + 1 > g THEN (at + 1) - 1 ELSE at + 1)
        BY <2>4, Zenon
      <4> HIDE DEF i
      <4> QED BY <3>2, <4>1, <4>2
    <3> HIDE DEF i
    <3>4. Head(Rest(i)) = plain[i] /\ Tail(Rest(i)) = Rest(i + 1) /\ (Rest(i + 1) # << >> => i + 1 <= L)
      <4>1. i \in 1..Len(plain)
        BY <3>1
      <4> HIDE DEF plain
      <4> QED BY <1>1, <4>1, RestIs
    <3>5. AtLexeme(ev, at)
      BY <3>1, <3>3, <3>4 DEF AtLexeme, text_
    <3>6. i + 1 <= L => at + 1 \in 2..L + 1
      BY <1>1, <2>5, <3>1 DEF i
    <3> QED BY <2>3, <3>3, <3>4, <3>5, <3>6 DEF text_
  <2> QED BY <2>6, <2>7
<1>4. CASE ~HasGap(ev)
  <2>1. text_ = plain
    BY <1>4 DEF TextOf, PlainText, HasGap
  <2>2. \A i : Left(ev, i) = Rest(i)
    BY <1>4 DEF Left, Position
  <2>3. at \in 2..L
    BY <2>1
  <2> HIDE DEF plain, text_
  <2>4. Head(Rest(at)) = plain[at] /\ Tail(Rest(at)) = Rest(at + 1) /\ (Rest(at + 1) # << >> => at + 1 <= L)
    <3>1. at \in 1..Len(plain)
      BY <1>1, <2>3
    <3> QED BY <1>1, <3>1, RestIs
  <2>5. AtLexeme(ev, at)
    BY <2>1, <2>2, <2>4 DEF AtLexeme, text_
  <2>6. at + 1 <= L => at + 1 \in 2..L
    BY <1>1, <2>3
  <2> QED BY <2>1, <2>2, <2>4, <2>5, <2>6 DEF text_
<1> QED BY <1>3, <1>4

(* It begins behind the first bracket. *)
LEMMA TextBegins ==
  ASSUME NEW ev, IsWritten(ev)
  PROVE  2 \in 2..Len(TextOf(ev)) /\ Left(ev, 2) = FromTag(ev, 1)
<1> DEFINE plain == PlainText(ev)
           open == Sign("[")
           back == FromTag(ev, 1)
           L == Len(plain)
<1>1. plain \in Seq(Lexeme) /\ L \in Nat /\ ev.gap \in Nat
  BY PlainTextIs DEF IsWritten
<1>2. plain = <<open>> \o back /\ open \in Lexeme /\ back \in Seq(Lexeme) /\ back # << >>
  BY PlainTextIs, LexemesAreTyped
<1>3. plain # << >> /\ Tail(plain) = back
  <2> HIDE DEF plain, open, back
  <2> QED BY <1>2, ConsIs
<1>4. L >= 2 /\ SubSeq(plain, 2, L) = back
  <2> HIDE DEF plain, back
  <2> QED BY <1>1, <1>2, <1>3
<1>5. Left(ev, 2) = SubSeq(plain, 2, L)
  <2>1. HasGap(ev) => ~(2 > ev.gap)
    BY <1>1 DEF HasGap
  <2> QED BY <2>1 DEF Left, Position
<1>6. Len(TextOf(ev)) >= 2 /\ Len(TextOf(ev)) \in Nat
  <2> DEFINE b == Sign(ev.blank)
             g == ev.gap
             S == Lexeme \cup {b}
  <2>1. CASE HasGap(ev)
    <3>1. plain \in Seq(S) /\ b \in S /\ g \in 2..Len(plain)
      <4>1. g \in 2..Len(plain)
        BY <2>1 DEF HasGap
      <4> HIDE DEF plain, b, g
      <4> QED BY <1>1, <4>1
    <3>2. Len(SubSeq(plain, 1, g - 1) \o <<b>> \o SubSeq(plain, g, Len(plain))) = L + 1
      <4> HIDE DEF plain, b, S, g
      <4> QED BY <3>1, WithBlank
    <3>3. TextOf(ev) = SubSeq(plain, 1, g - 1) \o <<b>> \o SubSeq(plain, g, Len(plain))
      BY <3>1 DEF TextOf, PlainText
    <3>4. Len(TextOf(ev)) = L + 1
      BY <3>2, <3>3, Zenon
    <3> HIDE DEF L
    <3> QED BY <1>1, <1>4, <3>4
  <2>2. CASE ~HasGap(ev)
    <3>1. TextOf(ev) = plain
      BY <2>2 DEF TextOf, PlainText, HasGap
    <3> QED BY <1>1, <1>4, <3>1
  <2> QED BY <2>1, <2>2
<1>7. 2 \in 2..Len(TextOf(ev))
  BY <1>6
<1> QED BY <1>4, <1>5, <1>7

-----------------------------------------------------------------------------
LEMMA NothingScanned ==
  ASSUME NEW ev, IsWritten(ev)
  PROVE  Scanned(ev, << >>, 0)
<1> DEFINE T == ev.tags
           at == [i \in {} |-> 0]
<1>1. DOMAIN T = 1..Len(T) /\ Len(T) \in Nat
  BY DEF IsWritten
<1> HIDE DEF T
<1>2. at \in [DOMAIN << >> -> DOMAIN T]
  OBVIOUS
<1>3. Range(at) = {i \in DOMAIN T : i <= 0 /\ T[i] # << >>}
  BY <1>1 DEF Range
<1>4. /\ \A i, j \in DOMAIN << >> : i < j => at[i] < at[j]
      /\ \A i \in DOMAIN << >> : SameTag(ev, << >>[i], at[i])
  OBVIOUS
<1> HIDE DEF at
<1>5. \E f \in [DOMAIN << >> -> DOMAIN T] :
        /\ Range(f) = {i \in DOMAIN T : i <= 0 /\ T[i] # << >>}
        /\ \A i, j \in DOMAIN << >> : i < j => f[i] < f[j]
        /\ \A i \in DOMAIN << >> : SameTag(ev, << >>[i], f[i])
  BY <1>2, <1>3, <1>4, Zenon
<1> QED BY <1>5 DEF Scanned, T

(* A tag without elements adds nothing to what is scanned. *)
LEMMA ScannedPastEmpty ==
  ASSUME NEW ev, IsWritten(ev), NEW list, NEW n \in 1..Len(ev.tags), ev.tags[n] = << >>,
         Scanned(ev, list, n - 1)
  PROVE  Scanned(ev, list, n)
<1> DEFINE T == ev.tags
           Upto(k) == {i \in DOMAIN T : i <= k /\ T[i] # << >>}
<1>1. DOMAIN T = 1..Len(T) /\ Len(T) \in Nat /\ n \in 1..Len(T) /\ T[n] = << >>
  BY DEF IsWritten
<1>2. Upto(n - 1) = Upto(n)
  <2> HIDE DEF T
  <2> QED BY <1>1
<1> QED BY <1>2, Zenon DEF Scanned

(* Any other adds itself. *)
LEMMA ScannedOneMore ==
  ASSUME NEW ev, IsWritten(ev), NEW S, NEW list \in Seq(S), NEW t \in S,
         NEW n \in 1..Len(ev.tags), ev.tags[n] # << >>,
         SameTag(ev, t, n), Scanned(ev, list, n - 1)
  PROVE  Scanned(ev, Append(list, t), n)
<1> DEFINE T == ev.tags
           Upto(k) == {i \in DOMAIN T : i <= k /\ T[i] # << >>}
           N == Len(list)
           all == Append(list, t)
<1>1. DOMAIN T = 1..Len(T) /\ Len(T) \in Nat /\ n \in 1..Len(T) /\ T[n] # << >>
  BY DEF IsWritten
<1>2. PICK at \in [DOMAIN list -> DOMAIN T] :
        /\ Range(at) = Upto(n - 1)
        /\ \A i, j \in DOMAIN list : i < j => at[i] < at[j]
        /\ \A i \in DOMAIN list : SameTag(ev, list[i], at[i])
  BY Zenon DEF Scanned
<1> HIDE DEF T
<1>3. /\ DOMAIN list = 1..N /\ N \in Nat /\ DOMAIN all = 1..N + 1
      /\ all[N + 1] = t /\ \A i \in 1..N : all[i] = list[i]
  OBVIOUS
<1> HIDE DEF N, all
<1> DEFINE f == [i \in DOMAIN all |-> IF i = N + 1 THEN n ELSE at[i]]
<1>4. \A i \in 1..N : at[i] \in Upto(n - 1) /\ f[i] = at[i] /\ i # N + 1
  BY <1>2, <1>3 DEF Range
<1>5. f[N + 1] = n
  BY <1>3
<1>6. \A i \in DOMAIN all : i = N + 1 \/ i \in 1..N
  BY <1>3
<1>7. f \in [DOMAIN all -> DOMAIN T]
  <2>1. \A i \in DOMAIN all : f[i] \in DOMAIN T
    <3> HIDE DEF f
    <3> QED BY <1>1, <1>2, <1>3, <1>4, <1>5, <1>6
  <2> QED BY <2>1
<1> HIDE DEF f
<1>8. ASSUME NEW i \in DOMAIN all, NEW j \in DOMAIN all, i < j PROVE f[i] < f[j]
  <2>1. i \in 1..N
    BY <1>3, <1>8
  <2>2. CASE j = N + 1
    <3>1. f[i] = at[i] /\ at[i] <= n - 1 /\ at[i] \in Nat
      BY <1>1, <1>4, <2>1
    <3> QED BY <1>1, <1>5, <2>2, <3>1
  <2>3. CASE j \in 1..N
    BY <1>2, <1>3, <1>4, <1>8, <2>1, <2>3
  <2> QED BY <1>6, <2>2, <2>3
<1>9. ASSUME NEW i \in DOMAIN all PROVE SameTag(ev, all[i], f[i])
  BY <1>2, <1>3, <1>4, <1>5, <1>6
<1>10. Range(f) = Upto(n)
  <2>1. ASSUME NEW k \in Range(f) PROVE k \in Upto(n)
    <3>1. PICK i \in DOMAIN all : f[i] = k
      BY <1>7 DEF Range
    <3>2. k = n \/ k \in Upto(n - 1)
      BY <1>4, <1>5, <1>6, <3>1
    <3> QED BY <1>1, <3>2
  <2>2. ASSUME NEW k \in Upto(n) PROVE k \in Range(f)
    <3>1. CASE k = n
      <4>1. N + 1 \in DOMAIN f
        BY <1>3, <1>7
      <4> QED BY <1>5, <3>1, <4>1 DEF Range
    <3>2. CASE k # n
      <4>1. k \in Upto(n - 1)
        BY <1>1, <3>2
      <4>2. PICK i \in 1..N : at[i] = k
        BY <1>2, <1>3, <4>1 DEF Range
      <4>3. i \in DOMAIN f /\ f[i] = k
        BY <1>3, <1>4, <1>7, <4>2
      <4> QED BY <4>3 DEF Range
    <3> QED BY <3>1, <3>2
  <2> QED BY <2>1, <2>2
<1>11. \E g \in [DOMAIN all -> DOMAIN T] :
         /\ Range(g) = Upto(n)
         /\ \A i, j \in DOMAIN all : i < j => g[i] < g[j]
         /\ \A i \in DOMAIN all : SameTag(ev, all[i], g[i])
  <2> HIDE DEF Upto
  <2> QED BY <1>7, <1>8, <1>9, <1>10, Zenon
<1> QED BY <1>11 DEF Scanned, T, all

(* No more tags are scanned than there are. *)
LEMMA ScannedLength ==
  ASSUME NEW ev, IsWritten(ev), NEW S, NEW list \in Seq(S), NEW n \in Nat, Scanned(ev, list, n)
  PROVE  Len(list) <= n
<1> DEFINE T == ev.tags
           N == Len(list)
           Upto(k) == {i \in DOMAIN T : i <= k /\ T[i] # << >>}
<1>1. DOMAIN T = 1..Len(T) /\ Len(T) \in Nat /\ DOMAIN list = 1..N /\ N \in Nat
  BY DEF IsWritten
<1>2. PICK at \in [DOMAIN list -> DOMAIN T] :
        /\ Range(at) = Upto(n)
        /\ \A i, j \in DOMAIN list : i < j => at[i] < at[j]
  BY Zenon DEF Scanned
<1> HIDE DEF T, N
<1> DEFINE Far == {i \in 0..N : i > 0 => at[i] >= i}
<1>3. 0 \in Far
  BY <1>1
<1>4. ASSUME NEW i \in 1..N, i - 1 \in Far PROVE i \in Far
  <2>1. at[i] \in Nat /\ at[i] >= 1
    BY <1>1
  <2>2. CASE i = 1
    BY <1>1, <2>1, <2>2
  <2>3. CASE i # 1
    <3>1. i - 1 \in 1..N /\ i - 1 < i
      BY <1>1, <2>3
    <3>2. at[i - 1] >= i - 1 /\ at[i - 1] \in Nat
      BY <1>1, <1>4, <3>1
    <3>3. at[i - 1] < at[i]
      BY <1>1, <1>2, <3>1
    <3> QED BY <1>1, <2>1, <3>2, <3>3
  <2> QED BY <2>2, <2>3
<1>5. 0..N \subseteq Far
  <2> HIDE DEF Far
  <2> QED BY <1>1, <1>3, <1>4, UpwardInduction
<1>6. CASE N = 0
  BY <1>6 DEF N
<1>7. CASE N \in 1..N
  <2>1. at[N] >= N /\ at[N] \in Nat
    BY <1>1, <1>5, <1>7
  <2>2. at[N] \in Range(at)
    BY <1>1, <1>7 DEF Range
  <2>3. at[N] <= n
    BY <1>2, <2>2
  <2> QED BY <1>1, <2>1, <2>3 DEF N
<1> QED BY <1>1, <1>6, <1>7

-----------------------------------------------------------------------------
(* What a step between two tags makes of the text that is left. *)
LEMMA TagStep ==
  ASSUME NEW ev, IsWritten(ev), validate_event_tags(ev), NEW at, NEW S, NEW list \in Seq(S),
         InTags(ev, at, list), NEW is, is = TextOf(ev)[at].is
  PROVE  /\ is \in {"blank", "comma"} => InTags(ev, at + 1, list)
         /\ is = "[" => Len(list) < MaxElements /\ InElements(ev, at + 1, list, << >>)
         /\ is = "]" => InVerify(ev, list, 1)
<1> DEFINE N == Len(ev.tags)
           left == Left(ev, at)
           further == Left(ev, at + 1)
           Within == at + 1 \in 2..Len(TextOf(ev))
<1>1. PICK n \in 1..N + 1 : BeforeTag(ev, n, left) /\ Scanned(ev, list, n - 1)
  BY DEF InTags
<1>2. N \in Nat /\ n \in 1..N + 1
  BY TagTextsAreTyped
<1>3. left # << >> /\ TagReads(ev, n, left)
  BY <1>1, ReadsTag
<1>4. (AtBlank(ev, at) \/ AtLexeme(ev, at)) /\ (further # << >> => Within)
  BY TextAt DEF InTags
<1>5. BeforeTag(ev, n, further) => Within /\ InTags(ev, at + 1, list)
  <2> SUFFICES ASSUME BeforeTag(ev, n, further) PROVE Within /\ InTags(ev, at + 1, list)
    OBVIOUS
  <2>1. further # << >>
    BY ReadsTag
  <2> QED BY <1>1, <1>4, <2>1 DEF InTags
<1>6. CASE AtBlank(ev, at)
  <2>1. is \in {"blank", "return"} /\ further = left
    BY <1>6 DEF AtBlank
  <2> QED BY <1>1, <1>5, <2>1
<1>7. CASE AtLexeme(ev, at)
  <2>1. is = Head(left).is /\ further = Tail(left)
    BY <1>7 DEF AtLexeme
  <2> HIDE DEF left, further
  <2>2. CASE is = "]" /\ n = N + 1
    <3>1. Scanned(ev, list, N)
      BY <1>1, <1>2, <2>2
    <3>2. Verified(ev, list, 1)
      BY DEF Verified
    <3>3. 1 \in 1..Len(list) + 1
      OBVIOUS
    <3>4. InVerify(ev, list, 1)
      BY <3>1, <3>2, <3>3 DEF InVerify
    <3> QED BY <2>2, <3>4
  <2>3. CASE is = "[" /\ n <= N /\ BeforeElement(ev, n, 1, further)
    <3>1. n \in 1..N
      <4> HIDE DEF N
      <4> QED BY <1>2, <2>3
    <3>2. Len(ev.tags[n]) \in Nat
      BY <3>1, TagTextsAreTyped
    <3> DEFINE m == 1
    <3>3. m \in 1..Len(ev.tags[n]) + 1 /\ HasRead(ev, n, m, << >>)
      BY <3>2 DEF HasRead
    <3>4. Within
      <4>1. BeforeElement(ev, n, m, further)
        BY <2>3
      <4>2. further # << >>
        <5> HIDE DEF m
        <5> QED BY <3>1, <3>3, <4>1, ReadsElement
      <4> QED BY <1>4, <4>2
    <3>5. InElements(ev, at + 1, list, << >>)
      <4>1. BeforeElement(ev, n, m, further) /\ Scanned(ev, list, n - 1) /\ HasRead(ev, n, m, << >>)
        BY <1>1, <2>3, <3>3
      <4> HIDE DEF m
      <4> QED BY <3>1, <3>3, <3>4, <4>1 DEF InElements, further
    <3>6. Len(list) <= n - 1
      BY <1>1, <3>1, ScannedLength
    <3>7. N <= MaxTags /\ MaxTags <= MaxElements
      BY ParserLimits DEF validate_event_tags
    <3>8. Len(list) < MaxElements
      <4> HIDE DEF N
      <4> QED BY <1>2, <3>1, <3>6, <3>7, ParserLimits
    <3> QED BY <2>3, <3>5, <3>8
  <2>4. CASE is = "comma" /\ BeforeTag(ev, n, further)
    BY <1>5, <2>4
  <2> QED BY <1>3, <2>1, <2>2, <2>3, <2>4 DEF TagReads
<1> QED BY <1>4, <1>6, <1>7

(* A tag that is read to its end is the tag. *)
LEMMA SameWhole ==
  ASSUME NEW ev, IsWritten(ev), NEW n \in 1..Len(ev.tags), NEW S, NEW t \in Seq(S),
         HasRead(ev, n, Len(ev.tags[n]) + 1, t)
  PROVE  SameTag(ev, t, n)
<1> DEFINE u == ev.tags[n]
           M == Len(u)
           Tag == Seq(STRING)
<1>1. u \in Seq(Tag) /\ M \in Nat
  BY TagTextsAreTyped
<1>2. Len(t) = M /\ (IsPlain(ev) => \A j \in 1..M : t[j] = u[j])
  BY <1>1 DEF HasRead
<1> HIDE DEF u, Tag
<1>3. u = [j \in 1..M |-> u[j]] /\ t = [j \in 1..M |-> t[j]]
  BY <1>1, <1>2
<1>4. IsPlain(ev) => t = u
  BY <1>2, <1>3
<1> QED BY <1>2, <1>4 DEF SameTag, u

(* What a step within a tag makes of the text that is left. *)
LEMMA ElementStep ==
  ASSUME NEW ev, IsWritten(ev), validate_event_tags(ev), NEW at, NEW S, NEW list \in Seq(Seq(S)),
         NEW t \in Seq(S), InElements(ev, at, list, t), NEW token, token = TextOf(ev)[at],
         \A raw \in Seq(STRING) : ParsedElement(raw) \in S
  PROVE  /\ token.is \in {"blank", "comma"} => InElements(ev, at + 1, list, t)
         /\ token.is = "string" =>
              /\ Len(t) < MaxElements /\ ParsedElement(token.raw) \in S
              /\ InElements(ev, at + 1, list, Append(t, ParsedElement(token.raw)))
         /\ token.is = "]" =>
              InTags(ev, at + 1, IF t # << >> THEN Append(list, t) ELSE list)
<1> DEFINE N == Len(ev.tags)
           left == Left(ev, at)
           further == Left(ev, at + 1)
           Within == at + 1 \in 2..Len(TextOf(ev))
<1>0. PICK n \in 1..N : \E m \in 1..Len(ev.tags[n]) + 1 :
        BeforeElement(ev, n, m, left) /\ Scanned(ev, list, n - 1) /\ HasRead(ev, n, m, t)
  BY Zenon DEF InElements
<1>1. PICK m \in 1..Len(ev.tags[n]) + 1 :
        BeforeElement(ev, n, m, left) /\ Scanned(ev, list, n - 1) /\ HasRead(ev, n, m, t)
  BY <1>0, Zenon
<1> DEFINE u == ev.tags[n]
           M == Len(u)
           value == u[m]
<1>2. /\ N \in Nat /\ n \in 1..N /\ M \in Nat /\ m \in 1..M + 1 /\ u \in Seq(Seq(STRING))
      /\ n + 1 \in 1..N + 1 /\ M <= MaxElements
  <2>1. N \in Nat /\ M \in Nat /\ u \in Seq(Seq(STRING))
    BY TagTextsAreTyped
  <2>2. M <= MaxElements
    BY TagTextsAreTyped DEF validate_event_tags, IsWritten
  <2>3. n \in 1..N /\ m \in 1..M + 1
    BY <1>0, <1>1
  <2>4. n + 1 \in 1..N + 1
    <3> HIDE DEF N
    <3> QED BY <2>1, <2>3
  <2> QED BY <2>1, <2>2, <2>3, <2>4
<1>3. left # << >> /\ ElementReads(ev, n, m, left)
  BY <1>1, <1>2, ReadsElement
<1>4. (AtBlank(ev, at) \/ AtLexeme(ev, at)) /\ (further # << >> => Within)
  BY TextAt DEF InElements
<1>5. ASSUME NEW k \in 1..M + 1, BeforeElement(ev, n, k, further), NEW s, HasRead(ev, n, k, s)
      PROVE  InElements(ev, at + 1, list, s)
  <2>1. further # << >>
    BY <1>2, <1>5, ReadsElement
  <2> QED BY <1>1, <1>4, <1>5, <2>1 DEF InElements
<1>6. CASE AtBlank(ev, at)
  <2>1. token.is \in {"blank", "return"} /\ further = left
    BY <1>6 DEF AtBlank
  <2>2. InElements(ev, at + 1, list, t)
    BY <1>1, <1>2, <1>5, <2>1
  <2> QED BY <2>1, <2>2
<1>7. CASE AtLexeme(ev, at)
  <2>1. token = Head(left) /\ further = Tail(left)
    BY <1>7 DEF AtLexeme
  <2>2. CASE token.is = "]" /\ m = M + 1 /\ BeforeTag(ev, n + 1, further)
    <3> DEFINE all == IF t # << >> THEN Append(list, t) ELSE list
    <3>1. SameTag(ev, t, n) /\ Len(t) = M
      <4>1. HasRead(ev, n, Len(ev.tags[n]) + 1, t)
        BY <1>1, <2>2
      <4> QED BY <1>2, <4>1, SameWhole DEF SameTag
    <3>2. Scanned(ev, all, n)
      <4>1. CASE t = << >>
        <5>1. u = << >>
          <6>1. M = 0
            BY <3>1, <4>1
          <6> HIDE DEF u
          <6> QED BY <1>2, <6>1 DEF M
        <5>2. Scanned(ev, list, n)
          BY <1>1, <1>2, <5>1, ScannedPastEmpty
        <5> QED BY <4>1, <5>2
      <4>2. CASE t # << >>
        <5>1. u # << >>
          <6>1. M # 0
            BY <3>1, <4>2
          <6>2. u = << >> => M = 0
            OBVIOUS
          <6> QED BY <6>1, <6>2
        <5>2. Scanned(ev, Append(list, t), n)
          BY <1>1, <1>2, <3>1, <5>1, ScannedOneMore
        <5> QED BY <4>2, <5>2
      <4> QED BY <4>1, <4>2
    <3>3. Within
      <4>1. further # << >>
        BY <1>2, <2>2, ReadsTag
      <4> QED BY <1>4, <4>1
    <3>4. (n + 1) - 1 = n
      BY <1>2
    <3>5. InTags(ev, at + 1, all)
      <4> DEFINE k == n + 1
      <4>1. k \in 1..N + 1 /\ BeforeTag(ev, k, further) /\ Scanned(ev, all, k - 1)
        BY <1>2, <2>2, <3>2, <3>4
      <4> HIDE DEF k, all
      <4> QED BY <3>3, <4>1 DEF InTags
    <3> QED BY <2>2, <3>5
  <2>3. CASE token.is = "string" /\ m <= M /\ token.raw = value /\ BeforeElement(ev, n, m + 1, further)
    <3> DEFINE read == ParsedElement(value)
               s == Append(t, read)
    <3>1. m \in 1..M /\ m + 1 \in 1..M + 1 /\ (m + 1) - 1 = m
      <4> HIDE DEF M
      <4> QED BY <1>2, <2>3
    <3>2. value \in Seq(STRING)
      <4> HIDE DEF u
      <4> QED BY <1>2, <3>1
    <3>3. read \in S
      BY <3>2
    <3>4. Len(t) = m - 1 /\ (IsPlain(ev) => \A j \in 1..m - 1 : t[j] = u[j])
      BY <1>1 DEF HasRead
    <3>5. IsPlain(ev) => read = value
      <4>1. IsPlain(ev) => "\\" \notin Range(value)
        <5>1. n \in DOMAIN ev.tags /\ m \in DOMAIN ev.tags[n]
          <6>1. DOMAIN ev.tags = 1..N
            BY DEF IsWritten
          <6>2. DOMAIN u = 1..M
            <7> HIDE DEF u
            <7> QED BY <1>2
          <6> QED BY <1>2, <3>1, <6>1, <6>2
        <5> QED BY <5>1, Zenon DEF IsPlain
      <4> HIDE DEF value
      <4> QED BY <3>2, <4>1, PlainIsRead
    <3>6. Len(s) = m /\ s[m] = read /\ \A j \in 1..m - 1 : s[j] = t[j]
      <4> HIDE DEF read
      <4> QED BY <3>1, <3>3, <3>4
    <3>7. HasRead(ev, n, m + 1, s)
      <4>1. IsPlain(ev) => \A j \in 1..m : s[j] = u[j]
        <5>1. ASSUME IsPlain(ev), NEW j \in 1..m PROVE s[j] = u[j]
          <6>1. j = m \/ j \in 1..m - 1
            BY <3>1
          <6> HIDE DEF s, u, read
          <6> QED BY <3>4, <3>5, <3>6, <5>1, <6>1 DEF value
        <5> QED BY <5>1
      <4> HIDE DEF s
      <4> QED BY <3>1, <3>6, <4>1 DEF HasRead
    <3>8. InElements(ev, at + 1, list, s)
      <4> DEFINE k == m + 1
      <4>1. k \in 1..M + 1 /\ BeforeElement(ev, n, k, further) /\ HasRead(ev, n, k, s)
        BY <2>3, <3>1, <3>7
      <4> HIDE DEF k, s
      <4> QED BY <1>5, <4>1
    <3>9. Len(t) < MaxElements
      <4> HIDE DEF M
      <4> QED BY <1>2, <3>1, <3>4, ParserLimits
    <3> HIDE DEF value
    <3> QED BY <2>3, <3>3, <3>8, <3>9
  <2>4. CASE token.is = "comma" /\ BeforeElement(ev, n, m, further)
    <3>1. InElements(ev, at + 1, list, t)
      BY <1>1, <1>2, <1>5, <2>4
    <3> QED BY <2>4, <3>1
  <2> HIDE DEF left, further
  <2> QED BY <1>3, <2>1, <2>2, <2>3, <2>4 DEF ElementReads
<1> QED BY <1>4, <1>6, <1>7

-----------------------------------------------------------------------------
LEMMA SettlingHolds ==
  ASSUME NEW outcome \in {"malformed", "refused", "forged", "undelegated"}, Settle(outcome)
  PROVE  ParserInv'
BY DEF Settle, ParserInv

LEMMA ParseEventHolds ==
  ASSUME ParserInv, NEW ev, IsWritten(ev), ParseEvent(ev)
  PROVE  ParserInv'
<1>1. CASE Settle("malformed") \/ Settle("refused") \/ Settle("forged")
  BY <1>1, SettlingHolds
<1>2. CASE /\ phase' = "tags" /\ text' = TextOf(ev) /\ p' = 2 /\ checked' = ev
           /\ validate_event_tags(ev) /\ UNCHANGED <<tag, tags, next, verdict>>
  <2>1. tag' = << >> /\ tags' = << >> /\ verdict' = "none"
    BY <1>2 DEF ParseEvent, ParserInv
  <2>2. InTags(ev, 2, << >>)
    <3> DEFINE n == 1
               from == Left(ev, 2)
    <3>1. n \in 1..Len(ev.tags) + 1
      BY TagTextsAreTyped
    <3>2. from = FromTag(ev, n) /\ 2 \in 2..Len(TextOf(ev))
      BY TextBegins
    <3>3. Scanned(ev, << >>, n - 1)
      BY NothingScanned
    <3>4. BeforeTag(ev, n, from)
      <4> HIDE DEF n, from
      <4> QED BY <3>2 DEF BeforeTag
    <3> HIDE DEF n
    <3> QED BY <3>1, <3>2, <3>3, <3>4 DEF InTags
  <2>3. tag' \in Seq(Readings) /\ tags' \in Seq(Seq(Readings))
    BY <2>1
  <2> QED BY <1>2, <2>1, <2>2, <2>3 DEF ParserInv
<1> QED BY <1>1, <1>2 DEF ParseEvent

LEMMA SkipBlankHolds ==
  ASSUME ParserInv, SkipBlank
  PROVE  ParserInv'
<1> DEFINE ev == checked
           token == TextOf(ev)[p]
<1>1. /\ phase \in {"tags", "elements"} /\ IsWritten(ev) /\ validate_event_tags(ev) /\ verdict = "none"
      /\ text = TextOf(ev) /\ tag \in Seq(Readings) /\ tags \in Seq(Seq(Readings))
      /\ token.is \in {"blank", "comma"}
  BY DEF ParserInv, SkipBlank
<1>2. phase = "tags" => InTags(ev, p + 1, tags)
  <2> SUFFICES ASSUME phase = "tags" PROVE InTags(ev, p + 1, tags)
    OBVIOUS
  <2>1. InTags(ev, p, tags)
    BY DEF ParserInv
  <2> HIDE DEF ev
  <2> QED BY <1>1, <2>1, TagStep
<1>3. phase = "elements" => InElements(ev, p + 1, tags, tag)
  <2> SUFFICES ASSUME phase = "elements" PROVE InElements(ev, p + 1, tags, tag)
    OBVIOUS
  <2>1. InElements(ev, p, tags, tag)
    BY DEF ParserInv
  <2>2. \A raw \in Seq(STRING) : ParsedElement(raw) \in Readings
    BY DEF Readings
  <2> HIDE DEF ev
  <2> QED BY <1>1, <2>1, <2>2, ElementStep
<1> QED BY <1>1, <1>2, <1>3 DEF ParserInv, SkipBlank

LEMMA OpenTagHolds ==
  ASSUME ParserInv, OpenTag
  PROVE  ParserInv'
<1> DEFINE ev == checked
           is == TextOf(ev)[p].is
<1>1. /\ phase = "tags" /\ IsWritten(ev) /\ validate_event_tags(ev) /\ verdict = "none"
      /\ text = TextOf(ev) /\ tags \in Seq(Seq(Readings)) /\ InTags(ev, p, tags) /\ is = "["
  BY DEF ParserInv, OpenTag
<1>2. Len(tags) < MaxElements /\ InElements(ev, p + 1, tags, << >>)
  <2> HIDE DEF ev, is
  <2> QED BY <1>1, TagStep DEF is
<1>3. phase' = "elements" /\ p' = p + 1 /\ tag' = << >> /\ UNCHANGED <<checked, text, tags, verdict>>
  <2>1. Len(tags) \in Nat /\ MaxElements \in Nat
    BY <1>1, ParserLimits
  <2> QED BY <1>2, <2>1 DEF OpenTag
<1>4. tag' \in Seq(Readings)
  BY <1>3
<1> QED BY <1>1, <1>2, <1>3, <1>4 DEF ParserInv

LEMMA ReadElementHolds ==
  ASSUME ParserInv, ReadElement
  PROVE  ParserInv'
<1> DEFINE ev == checked
           token == TextOf(ev)[p]
           longer == Append(tag, ParsedElement(token.raw))
<1>1. /\ phase = "elements" /\ IsWritten(ev) /\ validate_event_tags(ev) /\ verdict = "none"
      /\ text = TextOf(ev) /\ tag \in Seq(Readings) /\ tags \in Seq(Seq(Readings))
      /\ InElements(ev, p, tags, tag) /\ token.is = "string"
  BY DEF ParserInv, ReadElement
<1>2. /\ Len(tag) < MaxElements /\ ParsedElement(token.raw) \in Readings
      /\ InElements(ev, p + 1, tags, longer)
  <2>1. \A raw \in Seq(STRING) : ParsedElement(raw) \in Readings
    BY DEF Readings
  <2> HIDE DEF ev, token
  <2> QED BY <1>1, <2>1, ElementStep DEF token
<1>3. phase' = "elements" /\ p' = p + 1 /\ tag' = longer /\ UNCHANGED <<checked, text, tags, verdict>>
  <2>1. Len(tag) \in Nat /\ MaxElements \in Nat
    BY <1>1, ParserLimits
  <2> QED BY <1>1, <1>2, <2>1 DEF ReadElement
<1>4. longer \in Seq(Readings)
  <2> HIDE DEF token
  <2> QED BY <1>1, <1>2
<1> QED BY <1>1, <1>2, <1>3, <1>4 DEF ParserInv

LEMMA CloseTagHolds ==
  ASSUME ParserInv, CloseTag
  PROVE  ParserInv'
<1> DEFINE ev == checked
           token == TextOf(ev)[p]
           all == IF tag # << >> THEN Append(tags, tag) ELSE tags
<1>1. /\ phase = "elements" /\ IsWritten(ev) /\ validate_event_tags(ev) /\ verdict = "none"
      /\ text = TextOf(ev) /\ tag \in Seq(Readings) /\ tags \in Seq(Seq(Readings))
      /\ InElements(ev, p, tags, tag) /\ token.is = "]"
  BY DEF ParserInv, CloseTag
<1>2. InTags(ev, p + 1, all)
  <2>1. \A raw \in Seq(STRING) : ParsedElement(raw) \in Readings
    BY DEF Readings
  <2> HIDE DEF ev, token
  <2> QED BY <1>1, <2>1, ElementStep DEF token
<1>3. phase' = "tags" /\ p' = p + 1 /\ tag' = << >> /\ tags' = all /\ UNCHANGED <<checked, text, verdict>>
  BY DEF CloseTag
<1>4. all \in Seq(Seq(Readings)) /\ tag' \in Seq(Readings)
  <2> DEFINE Read == Seq(Readings)
  <2>1. tag \in Read /\ tags \in Seq(Read)
    BY <1>1
  <2> HIDE DEF Read
  <2>2. all \in Seq(Read)
    BY <2>1
  <2> QED BY <1>3, <2>2 DEF Read
<1> HIDE DEF all
<1> QED BY <1>1, <1>2, <1>3, <1>4 DEF ParserInv

LEMMA TagsParsedHolds ==
  ASSUME ParserInv, TagsParsed
  PROVE  ParserInv'
<1> DEFINE ev == checked
           is == TextOf(ev)[p].is
<1>1. /\ phase = "tags" /\ IsWritten(ev) /\ validate_event_tags(ev) /\ verdict = "none"
      /\ text = TextOf(ev) /\ tags \in Seq(Seq(Readings)) /\ InTags(ev, p, tags) /\ is = "]"
      /\ tag \in Seq(Readings) /\ tag = << >>
  BY DEF ParserInv, TagsParsed
<1>2. InVerify(ev, tags, 1)
  <2> HIDE DEF ev, is
  <2> QED BY <1>1, TagStep DEF is
<1> QED BY <1>1, <1>2 DEF ParserInv, TagsParsed

LEMMA VerifyTagHolds ==
  ASSUME ParserInv, VerifyTag
  PROVE  ParserInv'
<1>1. CASE Settle("undelegated")
  BY <1>1, SettlingHolds
<1>2. CASE /\ next' = next + 1 /\ UNCHANGED <<phase, checked, text, p, tag, tags, verdict>>
           /\ IsToken(tags[next]) =>
                nip26_check_delegation(checked, tags[next][2], tags[next][3], tags[next][4])
  <2>1. /\ phase = "verify" /\ next <= Len(tags) /\ tags \in Seq(Seq(Readings))
        /\ Scanned(checked, tags, Len(checked.tags)) /\ next \in 1..Len(tags) + 1
        /\ Verified(checked, tags, next)
    BY DEF ParserInv, VerifyTag, InVerify
  <2>2. next + 1 \in 1..Len(tags) + 1
    <3>1. Len(tags) \in Nat
      BY <2>1
    <3> QED BY <2>1, <3>1
  <2>3. Verified(checked, tags, next + 1)
    <3>1. \A i \in 1..(next + 1) - 1 : i \in 1..next - 1 \/ i = next
      BY <2>1
    <3> QED BY <1>2, <2>1, <3>1 DEF Verified
  <2>4. InVerify(checked, tags, next + 1)
    BY <2>1, <2>2, <2>3 DEF InVerify
  <2> QED BY <1>2, <2>1, <2>4 DEF ParserInv
<1> QED BY <1>1, <1>2, Zenon DEF VerifyTag

(* When all that was scanned is verified, every token of the event is. *)
LEMMA VerifiedIsTrusted ==
  ASSUME NEW ev, IsWritten(ev), NEW S, NEW list \in Seq(S),
         InVerify(ev, list, Len(list) + 1)
  PROVE  Trusted(ev)
<1> SUFFICES ASSUME IsPlain(ev), NEW t \in Range(ev.tags), IsToken(t)
             PROVE  nip26_check_delegation(ev, t[2], t[3], t[4])
  BY DEF Trusted
<1> DEFINE T == ev.tags
           N == Len(T)
<1>1. DOMAIN T = 1..N /\ N \in Nat
  BY DEF IsWritten
<1>2. PICK at \in [DOMAIN list -> DOMAIN T] :
        /\ Range(at) = {i \in DOMAIN T : i <= N /\ T[i] # << >>}
        /\ \A i \in DOMAIN list : SameTag(ev, list[i], at[i])
  BY Zenon DEF InVerify, Scanned
<1>3. PICK k \in DOMAIN T : T[k] = t
  BY DEF Range
<1>4. t # << >>
  BY DEF IsToken
<1>5. k \in Range(at)
  <2> HIDE DEF T, N
  <2> QED BY <1>1, <1>2, <1>3, <1>4
<1>6. PICK i \in DOMAIN list : at[i] = k
  BY <1>5 DEF Range
<1>7. list[i] = t
  BY <1>2, <1>3, <1>6 DEF SameTag
<1>8. i \in 1..(Len(list) + 1) - 1
  OBVIOUS
<1>9. Verified(ev, list, Len(list) + 1)
  BY DEF InVerify
<1> QED BY <1>7, <1>8, <1>9 DEF Verified

LEMMA AllVerifiedHolds ==
  ASSUME ParserInv, AllVerified
  PROVE  ParserInv'
<1>1. /\ IsWritten(checked) /\ tags \in Seq(Seq(Readings)) /\ InVerify(checked, tags, next)
      /\ next > Len(tags)
  BY DEF ParserInv, AllVerified
<1>2. next = Len(tags) + 1
  <2>1. Len(tags) \in Nat
    BY <1>1
  <2> QED BY <1>1, <2>1 DEF InVerify
<1>3. Trusted(checked)
  BY <1>1, <1>2, VerifiedIsTrusted
<1> QED BY <1>3 DEF AllVerified, Settle, ParserInv

(* Every step of the parser keeps the invariant. *)
LEMMA CheckingKeepsParser ==
  ASSUME ParserInv, Checking
  PROVE  ParserInv'
BY SkipBlankHolds, OpenTagHolds, ReadElementHolds, CloseTagHolds, TagsParsedHolds,
   VerifyTagHolds, AllVerifiedHolds DEF Checking

LEMMA ForgettingHolds ==
  ASSUME ParserInv, phase = "rest", Forget
  PROVE  ParserInv'
BY DEF Forget, ParserInv

LEMMA ParserStands ==
  ASSUME ParserInv, UNCHANGED parserVars
  PROVE  ParserInv'
BY DEF parserVars, ParserInv

-----------------------------------------------------------------------------
(***************************************************************************)
(* What the second parser holds: it reads within its text, and has no more *)
(* tags and elements than the gate lets through.                           *)
(***************************************************************************)
LEMMA TextIsList ==
  ASSUME NEW ev, IsWritten(ev)
  PROVE  DOMAIN TextOf(ev) = 1..Len(TextOf(ev)) /\ Len(TextOf(ev)) \in Nat
<1> DEFINE plain == PlainText(ev)
           g == ev.gap
           b == Sign(ev.blank)
           S == Lexeme \cup {b}
           L == Len(plain)
           front == SubSeq(plain, 1, g - 1)
           one == <<b>>
           back == SubSeq(plain, g, L)
           half == front \o one
<1>1. plain \in Seq(Lexeme)
  BY PlainTextIs
<1>2. plain \in Seq(S) /\ b \in S /\ L \in Nat
  <2>1. Lexeme \subseteq S /\ b \in S
    OBVIOUS
  <2> HIDE DEF S, b, plain
  <2> QED BY <1>1, <2>1, SeqMonotonic
<1>3. CASE HasGap(ev)
  <2>1. g \in 2..L
    BY <1>3 DEF HasGap
  <2>2. TextOf(ev) = half \o back
    BY <2>1 DEF TextOf, PlainText
  <2>3. front \in Seq(S) /\ back \in Seq(S) /\ one \in Seq(S)
    <3> HIDE DEF plain, S, b, g
    <3> QED BY <1>2, <2>1
  <2>4. half \o back \in Seq(S)
    <3> HIDE DEF front, back, one, S
    <3>1. half \in Seq(S)
      BY <2>3, ConcatProperties
    <3> HIDE DEF half
    <3> QED BY <2>3, <3>1, ConcatProperties
  <2> HIDE DEF half, back, S
  <2> QED BY <2>2, <2>4
<1>4. CASE ~HasGap(ev)
  <2>1. TextOf(ev) = plain
    BY <1>4 DEF TextOf, PlainText, HasGap
  <2> HIDE DEF plain
  <2> QED BY <1>1, <2>1
<1> QED BY <1>3, <1>4

LEMMA ReadingIsBounded ==
  ASSUME ParserInv
  PROVE  /\ phase \in {"tags", "elements"} => p \in DOMAIN text
         /\ Len(tags) <= MaxTags /\ Len(tag) <= MaxElements
<1> DEFINE N == Len(checked.tags)
<1>1. /\ tag \in Seq(Readings) /\ tags \in Seq(Seq(Readings))
      /\ phase \in {"rest", "tags", "elements", "verify"}
      /\ phase # "elements" => tag = << >>
      /\ phase = "rest" => tags = << >>
      /\ phase # "rest" => IsWritten(checked) /\ validate_event_tags(checked)
  BY DEF ParserInv
<1>2. MaxTags \in Nat /\ MaxElements \in Nat /\ Len(<< >>) = 0
  BY ParserLimits
<1>3. phase # "rest" => N \in Nat /\ N <= MaxTags
  BY <1>1, TagTextsAreTyped DEF validate_event_tags
<1>4. ASSUME NEW n \in 0..N, phase # "rest", Scanned(checked, tags, n)
      PROVE  Len(tags) <= MaxTags
  <2>1. n \in Nat /\ n <= MaxTags
    <3> HIDE DEF N
    <3> QED BY <1>2, <1>3, <1>4
  <2>2. Len(tags) <= n
    BY <1>1, <1>4, <2>1, ScannedLength
  <2>3. Len(tags) \in Nat
    BY <1>1
  <2> QED BY <1>2, <2>1, <2>2, <2>3
<1>5. CASE phase = "rest"
  BY <1>1, <1>2, <1>5
<1>6. CASE phase = "tags"
  <2>1. InTags(checked, p, tags) /\ text = TextOf(checked)
    BY <1>6 DEF ParserInv
  <2>2. p \in DOMAIN text
    <3>1. DOMAIN text = 1..Len(text) /\ p \in 2..Len(text)
      BY <1>1, <1>6, <2>1, TextIsList DEF InTags
    <3> QED BY <3>1
  <2>3. PICK n \in 1..N + 1 : Scanned(checked, tags, n - 1)
    BY <2>1, Zenon DEF InTags
  <2>4. n - 1 \in 0..N
    BY <1>3, <1>6
  <2>5. Len(tags) <= MaxTags
    BY <1>4, <1>6, <2>3, <2>4
  <2> QED BY <1>1, <1>2, <1>6, <2>2, <2>5
<1>7. CASE phase = "elements"
  <2>1. InElements(checked, p, tags, tag) /\ text = TextOf(checked)
    BY <1>7 DEF ParserInv
  <2>2. p \in DOMAIN text
    <3>1. DOMAIN text = 1..Len(text) /\ p \in 2..Len(text)
      BY <1>1, <1>7, <2>1, TextIsList DEF InElements
    <3> QED BY <3>1
  <2>3. PICK n \in 1..N : \E m \in 1..Len(checked.tags[n]) + 1 :
          Scanned(checked, tags, n - 1) /\ HasRead(checked, n, m, tag)
    BY <2>1, Zenon DEF InElements
  <2>4. n - 1 \in 0..N /\ n \in DOMAIN checked.tags /\ Len(checked.tags[n]) \in Nat
    <3>1. checked.tags \in Seq(Seq(Seq(STRING))) /\ n \in 1..Len(checked.tags) /\ N \in Nat
      BY <1>1, <1>3, <1>7, TagTextsAreTyped
    <3>2. DOMAIN checked.tags = 1..N
      BY <3>1
    <3>3. Len(checked.tags[n]) \in Nat
      BY <1>1, <1>7, TagTextsAreTyped
    <3> QED BY <3>1, <3>2, <3>3
  <2>5. Len(tags) <= MaxTags
    BY <1>4, <1>7, <2>3, <2>4
  <2>6. Len(checked.tags[n]) <= MaxElements
    BY <1>1, <1>7, <2>4 DEF validate_event_tags
  <2>7. Len(tag) <= MaxElements
    <3>1. PICK m \in 1..Len(checked.tags[n]) + 1 : HasRead(checked, n, m, tag)
      BY <2>3
    <3>2. Len(tag) = m - 1
      BY <3>1 DEF HasRead
    <3> QED BY <1>2, <2>4, <2>6, <3>2
  <2> QED BY <2>2, <2>5, <2>7
<1>8. CASE phase = "verify"
  <2>1. Scanned(checked, tags, N)
    BY <1>8 DEF ParserInv, InVerify
  <2>2. N \in 0..N
    BY <1>3, <1>8
  <2>3. Len(tags) <= MaxTags
    BY <1>4, <1>8, <2>1, <2>2
  <2> QED BY <1>1, <1>2, <1>8, <2>3
<1> QED BY <1>1, <1>5, <1>6, <1>7, <1>8

-----------------------------------------------------------------------------
State == [ok : BOOLEAN, has_kind : BOOLEAN, kind_matched : BOOLEAN]

NamesKind(part)  == HasKey(part, "kind") /\ Operator(part) = "="
BoundsTime(part) == HasKey(part, "created_at")
Within(part, ev) ==
  /\ Operator(part) = "<" => ev.created_at < Timestamp(part)
  /\ Operator(part) = ">" => ev.created_at > Timestamp(part)

(* What one turn of the loop learns from a part. *)
LEMMA PartChecked ==
  ASSUME NEW state \in State, NEW part, NEW ev, NEW then, then = CheckPart(state, part, ev)
  PROVE  /\ then \in State
         /\ state.has_kind \/ NamesKind(part) => then.has_kind
         /\ then.kind_matched => state.kind_matched \/ (NamesKind(part) /\ IsKind(part, ev.kind))
         /\ then.ok => state.ok /\ (BoundsTime(part) => Within(part, ev))
<1> DEFINE match == state.kind_matched \/ IsKind(part, ev.kind)
           inside == state.ok /\ Within(part, ev)
<1>1. match \in BOOLEAN /\ inside \in BOOLEAN /\ ~(NamesKind(part) /\ BoundsTime(part))
  BY DEF IsKind, Within, BoundsTime, NamesKind, HasKey
<1>2. CASE NamesKind(part)
  <2>1. then = [state EXCEPT !.has_kind = TRUE, !.kind_matched = match]
    BY <1>2, Zenon DEF CheckPart, NamesKind
  <2>2. then \in State /\ then.has_kind /\ then.kind_matched = match /\ then.ok = state.ok
    <3> HIDE DEF match
    <3> QED BY <1>1, <2>1 DEF State
  <2> QED BY <1>1, <1>2, <2>2
<1>3. CASE ~NamesKind(part) /\ BoundsTime(part)
  <2>1. then = [state EXCEPT !.ok = inside]
    BY <1>3, Zenon DEF CheckPart, NamesKind, BoundsTime, Within
  <2>2. /\ then \in State /\ then.has_kind = state.has_kind
        /\ then.kind_matched = state.kind_matched /\ then.ok = inside
    <3> HIDE DEF inside
    <3> QED BY <1>1, <2>1 DEF State
  <2> QED BY <1>3, <2>2
<1>4. CASE ~NamesKind(part) /\ ~BoundsTime(part)
  <2>1. then = state
    BY <1>4, Zenon DEF CheckPart, NamesKind, BoundsTime
  <2> QED BY <1>4, <2>1
<1> QED BY <1>2, <1>3, <1>4

(* After n parts. *)
Checked(state, parts, n, ev) ==
  /\ state \in State
  /\ \A i \in 1..n : NamesKind(parts[i]) => state.has_kind
  /\ state.kind_matched => \E i \in 1..n : NamesKind(parts[i]) /\ IsKind(parts[i], ev.kind)
  /\ state.ok => \A i \in 1..n : BoundsTime(parts[i]) => Within(parts[i], ev)

(* What holds after the last turn. *)
LEMMA ConditionsAreChecked ==
  ASSUME NEW ev, NEW c, NEW S, PartsOf[c] \in Seq(S), ConditionsHold(ev, c)
  PROVE  /\ \A part \in Range(PartsOf[c]) : BoundsTime(part) => Within(part, ev)
         /\ (\E part \in Range(PartsOf[c]) : NamesKind(part)) =>
              \E part \in Range(PartsOf[c]) : NamesKind(part) /\ IsKind(part, ev.kind)
<1> DEFINE parts == PartsOf[c]
           N == Len(parts)
           start == [ok |-> TRUE, has_kind |-> FALSE, kind_matched |-> FALSE]
           Next_(i, s) == CheckPart(s, parts[i], ev)
           Step(f) == [n \in 0..Len(parts) |-> IF n = 0 THEN start ELSE Next_(n, f[n - 1])]
           after == CHOOSE f : f = Step(f)
           G == [i \in 1..N |-> [s \in State |-> Next_(i, s)]]
<1>1. N \in Nat /\ Range(parts) = {parts[i] : i \in 1..N}
  BY DEF Range
<1>2. ASSUME NEW i \in 1..N, NEW s \in State PROVE Next_(i, s) \in State
  BY PartChecked
<1>3. ASSUME NEW f, NEW n \in 0..N
      PROVE  Step(f)[n] = IF n = 0 THEN start ELSE Next_(n, f[n - 1])
  BY Zenon
<1>4. after = Step(after)
  <2>1. start \in State
    BY DEF State
  <2>2. G \in [1..N -> [State -> State]]
    <3> HIDE DEF N, Next_
    <3> QED BY <1>2
  <2>3. PICK f : GoesUp(f, N, State, start, G)
    <3> HIDE DEF N, G, start
    <3> QED BY <1>1, <2>1, <2>2, UpwardRecursion
  <2>4. f \in [0..N -> State] /\ f[0] = start /\ \A i \in 1..N : f[i] = G[i][f[i - 1]]
    <3> HIDE DEF N, G, start
    <3> QED BY <2>3 DEF GoesUp
  <2>5. ASSUME NEW n \in 0..N PROVE f[n] = Step(f)[n]
    <3>1. n # 0 => n \in 1..N /\ n - 1 \in 0..N
      <4> HIDE DEF N
      <4> QED BY <1>1
    <3>2. n # 0 => f[n - 1] \in State /\ f[n] = G[n][f[n - 1]]
      <4> HIDE DEF N, G, start
      <4> QED BY <2>4, <3>1
    <3>3. \A i \in 1..N, s \in State : G[i][s] = Next_(i, s)
      <4> HIDE DEF N, Next_
      <4> QED OBVIOUS
    <3>4. n # 0 => f[n] = Next_(n, f[n - 1])
      <4> HIDE DEF N, G, Next_
      <4> QED BY <3>1, <3>2, <3>3
    <3>5. f[0] = start
      BY <2>4
    <3> HIDE DEF Step, N, G, Next_, start
    <3> QED BY <1>3, <3>4, <3>5
  <2>6. Step(f) = [n \in 0..N |-> Step(f)[n]]
    BY Zenon
  <2>7. f = Step(f)
    <3> HIDE DEF Step, N
    <3> QED BY <2>4, <2>5, <2>6
  <2>8. \E g : g = Step(g)
    <3> HIDE DEF Step
    <3> QED BY <2>7
  <2> HIDE DEF Step
  <2> QED BY <2>8, Zenon
<1>5. ASSUME NEW n \in 0..N
      PROVE  after[n] = IF n = 0 THEN start ELSE Next_(n, after[n - 1])
  <2> HIDE DEF after, Step, N, Next_, start
  <2> QED BY <1>3, <1>4
<1>6. ConditionsHold(ev, c) <=> after[N].ok /\ (after[N].has_kind => after[N].kind_matched)
  BY Zenon DEF ConditionsHold
<1> HIDE DEF after, Step
<1> DEFINE Good == {n \in 0..N : Checked(after[n], parts, n, ev)}
<1>7. 0 \in Good
  <2>1. after[0] = start
    <3>1. 0 \in 0..N
      <4> HIDE DEF N
      <4> QED BY <1>1
    <3> HIDE DEF N, Next_, start
    <3> QED BY <1>5, <3>1
  <2>2. start \in State /\ start.kind_matched = FALSE
    BY DEF State
  <2>3. Checked(start, parts, 0, ev)
    <3> HIDE DEF start
    <3> QED BY <2>2 DEF Checked
  <2>4. 0 \in 0..N
    <3> HIDE DEF N
    <3> QED BY <1>1
  <2> HIDE DEF N, start
  <2> QED BY <2>1, <2>3, <2>4
<1>8. ASSUME NEW n \in 1..N, n - 1 \in Good PROVE n \in Good
  <2> DEFINE state == after[n - 1]
             part == parts[n]
             then == after[n]
  <2>1. then = CheckPart(state, part, ev) /\ n \in 0..N
    <3>1. n \in 0..N /\ n # 0
      <4> HIDE DEF N
      <4> QED BY <1>1
    <3> HIDE DEF N
    <3> QED BY <1>5, <3>1
  <2>2. Checked(state, parts, n - 1, ev)
    BY <1>8
  <2> HIDE DEF state, part, then, N
  <2>3. state \in State
    BY <2>2 DEF Checked
  <2>4. /\ then \in State
        /\ state.has_kind \/ NamesKind(part) => then.has_kind
        /\ then.kind_matched => state.kind_matched \/ (NamesKind(part) /\ IsKind(part, ev.kind))
        /\ then.ok => state.ok /\ (BoundsTime(part) => Within(part, ev))
    BY <2>1, <2>3, PartChecked
  <2>5. \A i \in 1..n : i = n \/ i \in 1..n - 1
    BY <1>1
  <2>6. \A i \in 1..n - 1 : i \in 1..n
    BY <1>1
  <2>7. n \in 1..n /\ parts[n] = part
    BY <1>1 DEF part
  <2> HIDE DEF parts
  <2>8. \A i \in 1..n : NamesKind(parts[i]) => then.has_kind
    BY <2>2, <2>4, <2>5, <2>7 DEF Checked
  <2>9. then.kind_matched => \E i \in 1..n : NamesKind(parts[i]) /\ IsKind(parts[i], ev.kind)
    BY <2>2, <2>4, <2>6, <2>7 DEF Checked
  <2>10. then.ok => \A i \in 1..n : BoundsTime(parts[i]) => Within(parts[i], ev)
    BY <2>2, <2>4, <2>5, <2>7 DEF Checked
  <2>11. Checked(then, parts, n, ev)
    BY <2>4, <2>8, <2>9, <2>10 DEF Checked
  <2> QED BY <2>1, <2>11 DEF then
<1>9. Checked(after[N], parts, N, ev)
  <2>1. 0..N \subseteq Good /\ N \in 0..N
    <3>1. 0..N \subseteq Good
      <4> HIDE DEF Good, N
      <4> QED BY <1>1, <1>7, <1>8, UpwardInduction
    <3>2. N \in 0..N
      <4> HIDE DEF N
      <4> QED BY <1>1
    <3> QED BY <3>1, <3>2
  <2> HIDE DEF N
  <2> QED BY <2>1
<1> HIDE DEF parts, N
<1>10. \A part \in Range(parts) : BoundsTime(part) => Within(part, ev)
  BY <1>1, <1>6, <1>9 DEF Checked
<1>11. (\E part \in Range(parts) : NamesKind(part)) =>
         \E part \in Range(parts) : NamesKind(part) /\ IsKind(part, ev.kind)
  BY <1>1, <1>6, <1>9 DEF Checked
<1> QED BY <1>10, <1>11 DEF parts

(***************************************************************************)
(* What the loop lets pass is what the conditions allow (nip26.h:27-33).   *)
(***************************************************************************)
LEMMA HoldsIsAllowed ==
  ASSUME NEW ev, NEW c, PartsOf[c] \in Seq(Part), ConditionsHold(ev, c)
  PROVE  Allows(c, ev)
<1> DEFINE All == Range(PartsOf[c])
<1>1. /\ \A part \in All : BoundsTime(part) => Within(part, ev)
      /\ (\E part \in All : NamesKind(part)) =>
           \E part \in All : NamesKind(part) /\ IsKind(part, ev.kind)
  BY ConditionsAreChecked
<1>2. All \subseteq Part
  BY DEF Range
<1>3. ASSUME NEW part \in Part, part.ops = <<"<">> \/ part.ops = <<">">> \/ part.ops = <<"=">>
      PROVE  Operator(part) = part.ops[1] /\ Len(part.ops) = 1 /\ part.ops # << >>
  <2> DEFINE ops == part.ops
  <2>0. PICK sign \in {"<", ">", "="} : ops = <<sign>>
    BY <1>3
  <2> HIDE DEF ops
  <2>1. Len(ops) = 1 /\ ops # << >> /\ DOMAIN ops = 1..1
    BY <2>0
  <2>2. \A i \in DOMAIN ops : ops[i] = ops[1]
    BY <2>1
  <2>3. ops[1] \in {"<", ">", "="}
    BY <2>0
  <2>4. 1 \in DOMAIN ops
    BY <2>1
  <2> QED BY <2>1, <2>2, <2>3, <2>4 DEF Operator, ops
<1>4. ASSUME NEW part \in All, part.key = "created_at"
      PROVE  /\ part.ops = <<"<">> => ev.created_at < part.value
             /\ part.ops = <<">">> => ev.created_at > part.value
  <2>1. part \in Part
    BY <1>2
  <2>2. part.ops = <<"<">> => BoundsTime(part) /\ Operator(part) = "<" /\ Timestamp(part) = part.value
    BY <1>3, <1>4, <2>1 DEF BoundsTime, HasKey, Timestamp
  <2>3. part.ops = <<">">> => BoundsTime(part) /\ Operator(part) = ">" /\ Timestamp(part) = part.value
    BY <1>3, <1>4, <2>1 DEF BoundsTime, HasKey, Timestamp
  <2> QED BY <1>1, <2>2, <2>3 DEF Within
<1>5. ASSUME Kinds(c) # {} PROVE ev.kind \in Kinds(c)
  <2>1. PICK part \in All : part.key = "kind" /\ part.ops = <<"=">>
    BY <1>5 DEF Kinds
  <2>2. NamesKind(part)
    BY <1>2, <1>3, <2>1 DEF NamesKind, HasKey
  <2>3. PICK other \in All : NamesKind(other) /\ IsKind(other, ev.kind)
    BY <1>1, <2>2
  <2>4. other.key = "kind" /\ other.ops = <<"=">> /\ other.value = ev.kind
    <3>1. other.key = "kind" /\ other.ops[1] = "=" /\ Len(other.ops) = 1 /\ other.value = ev.kind
      BY <2>3 DEF NamesKind, HasKey, IsKind
    <3>2. other.ops \in Seq({"=", "<", ">"})
      BY <1>2 DEF Part
    <3> QED BY <3>1, <3>2
  <2> QED BY <2>4 DEF Kinds
<1> QED BY <1>4, <1>5 DEF Allows
==============================================================================
