----------------------------- MODULE FilterProofs -----------------------------
(***************************************************************************)
(* Every filter that is read fits the arrays of one and says what its      *)
(* object says, and of the objects of a message none is lost before the    *)
(* last that is collected.                                                 *)
(***************************************************************************)
EXTENDS FilterParser, Recursion, SequenceTheorems, FiniteSetTheorems

-----------------------------------------------------------------------------
(***************************************************************************)
(* A filter is what its fields make of it, one after the other.            *)
(***************************************************************************)
ReadsAs(read, fields) ==
  /\ read[0] = Unfiltered
  /\ \A n \in 1..Len(fields) : read[n] = WithField(read[n - 1], fields[n])

LEMMA FilterEquation ==
  ASSUME NEW object, Len(object.fields) \in Nat
  PROVE  \E read : ReadsAs(read, object.fields) /\ json_parse_filter(object) = read[Len(object.fields)]
<1> DEFINE fields == object.fields
           N == Len(fields)
           Then(n, f) == WithField(f, fields[n])
           Step(f) == [n \in 0..N |-> IF n = 0 THEN Unfiltered ELSE Then(n, f[n - 1])]
           read == CHOOSE f : f = Step(f)
           IsUpto(f, k) == f[0] = Unfiltered /\ \A n \in 1..k : f[n] = Then(n, f[n - 1])
           Reached == {k \in 0..N : \E f : IsUpto(f, k)}
<1>1. N \in Nat
  OBVIOUS
<1>2. ASSUME NEW f, NEW n \in 0..N
      PROVE  Step(f)[n] = IF n = 0 THEN Unfiltered ELSE Then(n, f[n - 1])
  BY Zenon
<1> HIDE DEF N, Then
<1>3. 0 \in Reached
  <2>1. IsUpto([n \in {0} |-> Unfiltered], 0)
    OBVIOUS
  <2>2. 0 \in 0..N
    BY <1>1
  <2> HIDE DEF IsUpto
  <2> QED BY <2>1, <2>2
<1>4. ASSUME NEW k \in 1..N, k - 1 \in Reached PROVE k \in Reached
  <2>1. PICK f : IsUpto(f, k - 1)
    BY <1>4
  <2> DEFINE g == [n \in 0..k |-> IF n = k THEN Then(k, f[k - 1]) ELSE f[n]]
  <2>2. 0 \in 0..k /\ k # 0 /\ k \in 0..k /\ \A n \in 1..k : n \in 0..k /\ n - 1 \in 0..k /\ n - 1 # k
    BY <1>1
  <2>3. \A n \in 1..k : n # k => n \in 1..k - 1
    BY <1>1
  <2>4. g[0] = f[0] /\ g[k] = Then(k, f[k - 1]) /\ \A n \in 1..k : g[n - 1] = f[n - 1]
    BY <2>2
  <2>5. \A n \in 1..k : n # k => g[n] = f[n]
    BY <2>2
  <2> HIDE DEF g
  <2>6. IsUpto(g, k)
    BY <2>1, <2>2, <2>3, <2>4, <2>5
  <2>7. k \in 0..N
    BY <1>1
  <2> HIDE DEF IsUpto
  <2> QED BY <2>6, <2>7
<1>5. \E f : IsUpto(f, N)
  <2>1. 0..N \subseteq Reached
    <3> HIDE DEF Reached
    <3> QED BY <1>1, <1>3, <1>4, UpwardInduction
  <2>2. N \in 0..N
    BY <1>1
  <2> HIDE DEF IsUpto
  <2> QED BY <2>1, <2>2
<1>6. PICK f : IsUpto(f, N)
  <2> HIDE DEF IsUpto
  <2> QED BY <1>5
<1> DEFINE g == [n \in 0..N |-> f[n]]
<1>7. g = Step(g)
  <2>1. ASSUME NEW n \in 0..N PROVE g[n] = Step(g)[n]
    <3>1. n # 0 => n \in 1..N /\ n - 1 \in 0..N
      BY <1>1
    <3>2. n # 0 => g[n] = f[n] /\ g[n - 1] = f[n - 1]
      BY <3>1
    <3>3. g[0] = Unfiltered
      BY <1>1, <1>6
    <3> HIDE DEF g, Step
    <3> QED BY <1>2, <1>6, <3>1, <3>2, <3>3
  <2>2. Step(g) = [n \in 0..N |-> Step(g)[n]]
    <3>1. ASSUME NEW h PROVE Step(h) = [n \in 0..N |-> Step(h)[n]]
      BY Zenon
    <3> HIDE DEF Step, g
    <3> QED BY <3>1
  <2>3. g = [n \in 0..N |-> g[n]]
    BY Zenon
  <2> HIDE DEF g, Step
  <2> QED BY <2>1, <2>2, <2>3
<1>8. read = Step(read)
  <2>1. \E h : h = Step(h)
    <3> HIDE DEF Step, g
    <3> QED BY <1>7
  <2> HIDE DEF Step
  <2> QED BY <2>1, Zenon
<1>9. json_parse_filter(object) = read[Len(object.fields)]
  BY Zenon DEF json_parse_filter, N, Then
<1> HIDE DEF read
<1>10. ASSUME NEW n \in 0..N
       PROVE  read[n] = IF n = 0 THEN Unfiltered ELSE Then(n, read[n - 1])
  <2> HIDE DEF Step
  <2> QED BY <1>2, <1>8
<1>11. read[0] = Unfiltered /\ \A n \in 1..N : read[n] = Then(n, read[n - 1])
  <2>1. 0 \in 0..N /\ \A n \in 1..N : n \in 0..N /\ n # 0
    BY <1>1
  <2> HIDE DEF Step
  <2> QED BY <1>10, <2>1
<1>12. ReadsAs(read, fields)
  BY <1>11 DEF ReadsAs, N, Then
<1> QED BY <1>9, <1>12

(* A filter has the fields of one, and only those. *)
IsFilter(f) ==
  f = [ids |-> f.ids, authors |-> f.authors, kinds |-> f.kinds, tags |-> f.tags,
       since |-> f.since, until |-> f.until, limit |-> f.limit, search |-> f.search]

(* What a field changes in a filter. *)
Follows(then, f, field) ==
  /\ IsFilter(then)
  /\ \A name \in {"ids", "authors", "kinds"} :
       then[name] = IF field.name = name THEN Values(Walked(field)) ELSE f[name]
  /\ then.tags = IF IsTag(field) THEN f.tags \cup {<<field.name, Values(field)>>} ELSE f.tags
  /\ \A name \in {"since", "until"} :
       then[name] = IF field.name = name THEN field.items[1].of ELSE f[name]
  /\ then.limit = IF field.name # "limit" THEN f.limit
                  ELSE IF field.items[1].of > MaxRows THEN MaxRows ELSE field.items[1].of

(* No name of a tag is the name of another field. *)
LEMMA TagFieldsApart ==
  ASSUME NEW field, IsTag(field)
  PROVE  field.name \notin {"ids", "authors", "kinds", "since", "until", "limit", "search"}
BY TagFieldsAreTheirs DEF IsTag

(* Reading a field changes what the field is about, and nothing else. *)
LEMMA FieldFollows ==
  ASSUME NEW f, IsFilter(f), NEW field
  PROVE  Follows(WithField(f, field), f, field)
<1> DEFINE then == WithField(f, field)
           name == field.name
           list == Values(Walked(field))
           value == field.items[1].of
           most == IF value > MaxRows THEN MaxRows ELSE value
           pair == <<name, Values(field)>>
<1>0. f = [ids |-> f.ids, authors |-> f.authors, kinds |-> f.kinds, tags |-> f.tags,
           since |-> f.since, until |-> f.until, limit |-> f.limit, search |-> f.search]
  BY DEF IsFilter
<1>1. CASE name = "limit"
  <2>1. then = [f EXCEPT !.limit = most]
    <3>1. then = WithLimit(f, field)
      BY <1>1, TagFieldsApart DEF WithField, IsList, IsSearch
    <3> QED BY <3>1, Zenon DEF WithLimit
  <2>2. ~IsTag(field)
    BY <1>1, TagFieldsApart
  <2> HIDE DEF then, most, list, pair
  <2>3. /\ IsFilter(then) /\ then.ids = f.ids /\ then.authors = f.authors /\ then.kinds = f.kinds
        /\ then.tags = f.tags /\ then.since = f.since /\ then.until = f.until /\ then.limit = most
    BY <1>0, <2>1 DEF IsFilter
  <2> QED BY <1>1, <2>2, <2>3 DEF Follows, then, most
<1>2. CASE name = "since"
  <2>1. then = [f EXCEPT !.since = value]
    <3>1. then = WithValue(f, field)
      BY <1>2, TagFieldsApart DEF WithField, IsList, IsSearch
    <3>2. WithValue(f, field) = [f EXCEPT ![name] = value]
      BY Zenon DEF WithValue
    <3> HIDE DEF then, value
    <3> QED BY <1>2, <3>1, <3>2, Zenon
  <2>2. ~IsTag(field)
    BY <1>2, TagFieldsApart
  <2> HIDE DEF then, value, list, pair
  <2>3. /\ IsFilter(then) /\ then.ids = f.ids /\ then.authors = f.authors /\ then.kinds = f.kinds
        /\ then.tags = f.tags /\ then.since = value /\ then.until = f.until /\ then.limit = f.limit
    BY <1>0, <2>1 DEF IsFilter
  <2> QED BY <1>2, <2>2, <2>3 DEF Follows, then, value
<1>3. CASE name = "until"
  <2>1. then = [f EXCEPT !.until = value]
    <3>1. then = WithValue(f, field)
      BY <1>3, TagFieldsApart DEF WithField, IsList, IsSearch
    <3>2. WithValue(f, field) = [f EXCEPT ![name] = value]
      BY Zenon DEF WithValue
    <3> HIDE DEF then, value
    <3> QED BY <1>3, <3>1, <3>2, Zenon
  <2>2. ~IsTag(field)
    BY <1>3, TagFieldsApart
  <2> HIDE DEF then, value, list, pair
  <2>3. /\ IsFilter(then) /\ then.ids = f.ids /\ then.authors = f.authors /\ then.kinds = f.kinds
        /\ then.tags = f.tags /\ then.since = f.since /\ then.until = value /\ then.limit = f.limit
    BY <1>0, <2>1 DEF IsFilter
  <2> QED BY <1>3, <2>2, <2>3 DEF Follows, then, value
<1>4. CASE IsList(field)
  <2>1. name \in {"ids", "authors", "kinds"} /\ ~IsTag(field)
    BY <1>4, TagFieldsApart DEF IsList
  <2>2. then = [f EXCEPT ![name] = list]
    <3>1. then = WithList(f, field)
      <4>1. ~(name = "limit")
        BY <2>1
      <4> HIDE DEF list, value, most, pair
      <4> QED BY <1>4, <2>1, <4>1 DEF WithField, IsList, IsTag, IsSearch
    <3> QED BY <3>1, Zenon DEF WithList
  <2> HIDE DEF then, list, value, most, pair
  <2>3. IsFilter(then)
    BY <1>0, <2>1, <2>2 DEF IsFilter
  <2>4. /\ then.tags = f.tags /\ then.since = f.since /\ then.until = f.until /\ then.limit = f.limit
    BY <1>0, <2>1, <2>2
  <2>5. \A k \in {"ids", "authors", "kinds"} : then[k] = IF name = k THEN list ELSE f[k]
    BY <1>0, <2>1, <2>2
  <2> QED BY <2>1, <2>3, <2>4, <2>5 DEF Follows, then, list
<1>5. CASE IsTag(field)
  <2>1. /\ name \notin {"ids", "authors", "kinds", "since", "until", "limit", "search"}
        /\ ~IsList(field)
    BY <1>5, TagFieldsApart DEF IsList
  <2>2. then = [f EXCEPT !.tags = @ \cup {pair}]
    <3>1. then = WithTag(f, field)
      <4>1. ~(name = "limit")
        BY <2>1
      <4> HIDE DEF list, value, most, pair
      <4> QED BY <1>5, <2>1, <4>1 DEF WithField, IsList, IsTag, IsSearch
    <3> QED BY <3>1, Zenon DEF WithTag
  <2> HIDE DEF then, list, value, most, pair
  <2>3. /\ IsFilter(then) /\ then.ids = f.ids /\ then.authors = f.authors /\ then.kinds = f.kinds
        /\ then.tags = f.tags \cup {pair}
        /\ then.since = f.since /\ then.until = f.until /\ then.limit = f.limit
    BY <1>0, <2>2 DEF IsFilter
  <2> QED BY <1>5, <2>1, <2>3 DEF Follows, then, pair
<1>6. CASE name = "search"
  <2>1. then = [f EXCEPT !.search = value]
    <3>1. then = WithValue(f, field)
      BY <1>6, TagFieldsApart DEF WithField, IsList, IsSearch
    <3>2. WithValue(f, field) = [f EXCEPT ![name] = value]
      BY Zenon DEF WithValue
    <3> HIDE DEF then, value
    <3> QED BY <1>6, <3>1, <3>2, Zenon
  <2>2. ~IsTag(field)
    BY <1>6, TagFieldsApart
  <2> HIDE DEF then, value, list, pair
  <2>3. /\ IsFilter(then) /\ then.ids = f.ids /\ then.authors = f.authors /\ then.kinds = f.kinds
        /\ then.tags = f.tags /\ then.since = f.since /\ then.until = f.until /\ then.limit = f.limit
    BY <1>0, <2>1 DEF IsFilter
  <2> QED BY <1>6, <2>2, <2>3 DEF Follows, then
<1>7. CASE name \notin {"limit", "since", "until", "search"} /\ ~IsList(field) /\ ~IsTag(field)
  <2>1. then = f
    BY <1>7, Zenon DEF WithField, IsSearch
  <2> HIDE DEF then
  <2> QED BY <1>7, <2>1 DEF Follows, IsList, then
<1> QED BY <1>1, <1>2, <1>3, <1>4, <1>5, <1>6, <1>7

-----------------------------------------------------------------------------
(* A field has no more values than items. *)
LEMMA ValuesFit ==
  ASSUME NEW field, IsSequence(field.items)
  PROVE  IsFiniteSet(Values(field)) /\ Cardinality(Values(field)) <= Len(field.items)
<1> DEFINE items == field.items
           N == Len(items)
           S == 1..N
           T == Values(field)
           f == [i \in S |-> items[i].of]
<1>1. N \in Nat /\ DOMAIN items = S
  <2>1. items \in Seq(Range(items))
    BY DEF IsSequence
  <2> QED BY <2>1
<1>2. T = {items[i].of : i \in S}
  BY <1>1 DEF Values, Range
<1>3. f \in Surjection(S, T)
  BY <1>2 DEF Surjection
<1>4. IsFiniteSet(S) /\ Cardinality(S) = N
  <2>1. 1 \in Int /\ N \in Int /\ (IF 1 > N THEN 0 ELSE N - 1 + 1) = N
    BY <1>1
  <2> HIDE DEF N
  <2> QED BY <2>1, FS_Interval
<1> HIDE DEF S, T, f
<1> QED BY <1>3, <1>4, FS_Surjection DEF T

(* A number that is accepted is one.  *)
LEMMA AcceptedNumber ==
  ASSUME NEW field, IsField(field), Accepts(field), IsNumber(field)
  PROVE  field.items[1].of \in Int /\ (field.name = "limit" => field.items[1].of >= 0)
<1> DEFINE items == field.items
<1>1. NumberIsAccepted(field)
  BY DEF Accepts
<1>2. items \in Seq(Range(items)) /\ Len(items) = 1
  BY <1>1 DEF IsField, IsSequence, NumberIsAccepted
<1>3. items[1] \in Range(items)
  BY <1>2 DEF Range
<1>4. items[1].is \in {"int", "long"}
  BY <1>1, <1>3 DEF NumberIsAccepted, AllAre
<1>5. items[1].of \in Int
  BY <1>3, <1>4 DEF IsField
<1> QED BY <1>1, <1>5 DEF NumberIsAccepted

(* The lists of an accepted field fit, and so does the filter it is read into. *)
LEMMA AcceptedFits ==
  ASSUME NEW f, IsFilter(f), FilterFits(f), NEW field, IsField(field), Accepts(field),
         NEW then, Follows(then, f, field)
  PROVE  IsFilter(then) /\ FilterFits(then)
<1> DEFINE walked == Walked(field)
           listed == Cardinality(Values(walked))
           tagged == Cardinality(Values(field))
           value == field.items[1].of
<1>1. IsSequence(field.items)
  BY DEF IsField
<1>2. ASSUME IsList(field) PROVE listed <= MaxItems
  <2>1. Len(walked.items) <= MaxItems
    BY <1>2 DEF Accepts, ListIsAccepted
  <2>2. IsSequence(walked.items)
    <3>1. CASE field.shape = "scalar"
      <4>1. walked.items \in {<< >>, field.items}
        BY <3>1 DEF Walked
      <4>2. IsSequence(<< >>)
        BY DEF IsSequence
      <4> QED BY <1>1, <4>1, <4>2
    <3>2. CASE field.shape # "scalar"
      <4>1. walked = field
        BY <3>2 DEF Walked
      <4> QED BY <1>1, <4>1
    <3> QED BY <3>1, <3>2
  <2>3. IsFiniteSet(Values(walked)) /\ listed <= Len(walked.items)
    <3> HIDE DEF walked
    <3> QED BY <2>2, ValuesFit
  <2>4. listed \in Nat /\ Len(walked.items) \in Nat /\ MaxItems \in Nat
    <3>1. listed \in Nat
      BY <2>3, FS_CardinalityType
    <3> HIDE DEF walked, listed
    <3> QED BY <2>2, <3>1, FilterLimits DEF IsSequence
  <2> HIDE DEF walked, listed
  <2> QED BY <2>1, <2>3, <2>4
<1>3. ASSUME IsTag(field) PROVE tagged + 1 <= MaxItems
  <2>1. Walked(field) = field
    BY <1>3 DEF Accepts, TagIsAccepted, Walked
  <2>2. Len(field.items) \in 1..MaxItems - 1
    BY <1>3, <2>1 DEF Accepts, TagIsAccepted
  <2>3. tagged \in Nat /\ tagged <= Len(field.items)
    BY <1>1, ValuesFit, FS_CardinalityType
  <2> HIDE DEF tagged
  <2> QED BY <2>2, <2>3, FilterLimits
<1>4. then.limit \in 0..MaxRows
  <2>1. CASE field.name = "limit"
    <3>1. value \in Int /\ value >= 0
      BY <2>1, AcceptedNumber DEF IsNumber
    <3>2. then.limit = IF value > MaxRows THEN MaxRows ELSE value
      BY <2>1 DEF Follows
    <3> HIDE DEF value
    <3> QED BY <3>1, <3>2, FilterLimits
  <2>2. CASE field.name # "limit"
    BY <2>2 DEF Follows, FilterFits
  <2> QED BY <2>1, <2>2
<1>5. ASSUME NEW name \in {"ids", "authors", "kinds"} PROVE Cardinality(then[name]) <= MaxItems
  <2>1. then[name] = IF field.name = name THEN Values(walked) ELSE f[name]
    BY Zenon DEF Follows
  <2>2. CASE field.name = name
    BY <1>2, <2>1, <2>2 DEF IsList
  <2>3. CASE field.name # name
    BY <2>1, <2>3 DEF FilterFits
  <2> QED BY <2>2, <2>3
<1>6. ASSUME NEW t \in then.tags PROVE Cardinality(t[2]) + 1 <= MaxItems
  <2>1. CASE t \in f.tags
    BY <2>1 DEF FilterFits
  <2>2. CASE t \notin f.tags
    <3>1. IsTag(field) /\ t = <<field.name, Values(field)>>
      BY <2>2 DEF Follows
    <3> QED BY <1>3, <3>1
  <2> QED BY <2>1, <2>2
<1>7. IsFilter(then)
  BY DEF Follows
<1> QED BY <1>4, <1>5, <1>6, <1>7 DEF FilterFits

-----------------------------------------------------------------------------
LEMMA FieldsOfValue ==
  ASSUME NEW object, IsValue(object)
  PROVE  /\ object.fields \in Seq(Range(object.fields)) /\ Len(object.fields) \in Nat
         /\ Range(object.fields) = {object.fields[n] : n \in 1..Len(object.fields)}
         /\ \A n \in 1..Len(object.fields) : object.fields[n] \in Range(object.fields)
<1> DEFINE fields == object.fields
<1>1. fields \in Seq(Range(fields))
  BY DEF IsValue, IsSequence
<1>2. Len(fields) \in Nat /\ DOMAIN fields = 1..Len(fields)
  BY <1>1
<1>3. Range(fields) = {fields[n] : n \in 1..Len(fields)}
  BY <1>2 DEF Range
<1> HIDE DEF fields
<1>4. \A n \in 1..Len(fields) : fields[n] \in Range(fields)
  BY <1>3
<1> QED BY <1>1, <1>2, <1>3, <1>4 DEF fields

LEMMA UnfilteredFits == IsFilter(Unfiltered) /\ FilterFits(Unfiltered)
<1>1. IsFilter(Unfiltered)
  BY DEF IsFilter, Unfiltered
<1>2. \A name \in {"ids", "authors", "kinds"} : Unfiltered[name] = {}
  <2>1. Unfiltered.ids = {} /\ Unfiltered.authors = {} /\ Unfiltered.kinds = {}
    BY DEF Unfiltered
  <2> QED BY <2>1
<1>3. Unfiltered.tags = {} /\ Unfiltered.limit = MaxRows
  BY DEF Unfiltered
<1>4. Cardinality({}) = 0
  BY FS_EmptySet
<1> QED BY <1>1, <1>2, <1>3, <1>4, FilterLimits DEF FilterFits

(* Every filter that is read fits. *)
LEMMA ObjectFits ==
  ASSUME NEW object, IsValue(object), json_parse_filter_ok(object)
  PROVE  FilterFits(json_parse_filter(object))
<1> DEFINE fields == object.fields
           N == Len(fields)
<1>1. N \in Nat /\ \A n \in 1..N : fields[n] \in Range(fields)
  BY FieldsOfValue
<1>2. PICK read : ReadsAs(read, fields) /\ json_parse_filter(object) = read[N]
  BY <1>1, FilterEquation
<1> DEFINE Fitting == {n \in 0..N : IsFilter(read[n]) /\ FilterFits(read[n])}
<1>3. 0 \in Fitting
  BY <1>1, <1>2, UnfilteredFits DEF ReadsAs
<1>4. ASSUME NEW n \in 1..N, n - 1 \in Fitting PROVE n \in Fitting
  <2>1. fields[n] \in Range(fields)
    BY <1>1
  <2>2. IsField(fields[n]) /\ Accepts(fields[n])
    BY <2>1 DEF IsValue, json_parse_filter_ok
  <2>3. read[n] = WithField(read[n - 1], fields[n])
    BY <1>2 DEF ReadsAs
  <2>4. IsFilter(read[n - 1]) /\ FilterFits(read[n - 1])
    BY <1>4
  <2>5. Follows(read[n], read[n - 1], fields[n])
    BY <2>3, <2>4, FieldFollows
  <2>6. IsFilter(read[n]) /\ FilterFits(read[n])
    BY <2>2, <2>4, <2>5, AcceptedFits
  <2>7. n \in 0..N
    BY <1>1
  <2> HIDE DEF fields, N
  <2> QED BY <2>6, <2>7
<1>5. 0..N \subseteq Fitting
  <2> HIDE DEF N, Fitting
  <2> QED BY <1>1, <1>3, <1>4, UpwardInduction
<1>6. N \in 0..N
  BY <1>1
<1> QED BY <1>2, <1>5, <1>6

(* What a filter says after n fields of an object. *)
Lists == {"ids", "authors", "kinds"}
Times == {"since", "until"}

Says(f, fields, n) ==
  /\ IsFilter(f)
  /\ \A name \in Lists :
       /\ \A m \in 1..n : fields[m].name = name => f[name] = Values(fields[m])
       /\ (\A m \in 1..n : fields[m].name # name) => f[name] = {}
  /\ \A t : t \in f.tags <=>
       \E m \in 1..n : IsTag(fields[m]) /\ t = <<fields[m].name, Values(fields[m])>>
  /\ \A name \in Times :
       /\ \A m \in 1..n : fields[m].name = name => f[name] = fields[m].items[1].of
       /\ (\A m \in 1..n : fields[m].name # name) => f[name] = 0
  /\ \A m \in 1..n : fields[m].name = "limit" => f.limit <= fields[m].items[1].of

Distinct(fields) == \A i, j \in 1..Len(fields) : fields[i].name = fields[j].name => i = j

(* One field more is said as well, and none of those before it is lost. *)
LEMMA FieldSays ==
  ASSUME NEW fields, Len(fields) \in Nat, Distinct(fields), NEW n \in 1..Len(fields),
         NEW f, Says(f, fields, n - 1), NEW then, Follows(then, f, fields[n]),
         IsList(fields[n]) => Walked(fields[n]) = fields[n],
         fields[n].name = "limit" => fields[n].items[1].of \in Int
  PROVE  Says(then, fields, n)
<1> DEFINE field == fields[n]
           value == field.items[1].of
<1>1. IsFilter(then)
  BY DEF Follows
<1>2. \A m \in 1..n : m = n \/ m \in 1..n - 1
  OBVIOUS
<1>3. n \in 1..n /\ \A m \in 1..n - 1 : m \in 1..n /\ m # n /\ fields[m].name # field.name
  BY DEF Distinct
<1>4. ASSUME NEW name \in Lists
      PROVE  /\ \A m \in 1..n : fields[m].name = name => then[name] = Values(fields[m])
             /\ (\A m \in 1..n : fields[m].name # name) => then[name] = {}
  <2>1. then[name] = IF field.name = name THEN Values(Walked(field)) ELSE f[name]
    BY <1>4, Zenon DEF Follows, Lists
  <2>2. CASE field.name = name
    <3>1. then[name] = Values(field)
      BY <2>1, <2>2 DEF IsList, Lists
    <3> HIDE DEF field
    <3> QED BY <1>2, <1>3, <2>2, <3>1 DEF field
  <2>3. CASE field.name # name
    <3>1. then[name] = f[name]
      BY <2>1, <2>3
    <3> QED BY <1>2, <1>3, <2>3, <3>1 DEF Says
  <2> QED BY <2>2, <2>3
<1>5. ASSUME NEW name \in Times
      PROVE  /\ \A m \in 1..n : fields[m].name = name => then[name] = fields[m].items[1].of
             /\ (\A m \in 1..n : fields[m].name # name) => then[name] = 0
  <2>1. then[name] = IF field.name = name THEN value ELSE f[name]
    BY <1>5, Zenon DEF Follows, Times
  <2>2. CASE field.name = name
    BY <1>2, <1>3, <2>1, <2>2
  <2>3. CASE field.name # name
    <3>1. then[name] = f[name]
      BY <2>1, <2>3
    <3> QED BY <1>2, <1>3, <2>3, <3>1 DEF Says
  <2> QED BY <2>2, <2>3
<1>6. ASSUME NEW t
      PROVE  t \in then.tags <=>
               \E m \in 1..n : IsTag(fields[m]) /\ t = <<fields[m].name, Values(fields[m])>>
  <2> DEFINE pair(m) == <<fields[m].name, Values(fields[m])>>
  <2>1. t \in f.tags <=> \E m \in 1..n - 1 : IsTag(fields[m]) /\ t = pair(m)
    BY Zenon DEF Says
  <2>2. then.tags = IF IsTag(field) THEN f.tags \cup {pair(n)} ELSE f.tags
    BY Zenon DEF Follows
  <2> HIDE DEF pair, field
  <2>3. t \in then.tags <=> \E m \in 1..n : IsTag(fields[m]) /\ t = pair(m)
    BY <1>2, <1>3, <2>1, <2>2 DEF field
  <2> QED BY <2>3 DEF pair
<1>7. ASSUME NEW m \in 1..n, fields[m].name = "limit" PROVE then.limit <= fields[m].items[1].of
  <2>1. CASE m = n
    <3>1. then.limit = IF value > MaxRows THEN MaxRows ELSE value
      BY <1>7, <2>1 DEF Follows
    <3>2. value \in Int
      BY <1>7, <2>1
    <3> HIDE DEF value
    <3>3. then.limit <= value
      BY <3>1, <3>2, FilterLimits
    <3> QED BY <2>1, <3>3 DEF value
  <2>2. CASE m # n
    <3>1. m \in 1..n - 1 /\ field.name # "limit"
      BY <1>3, <1>7, <2>2
    <3>2. then.limit = f.limit
      BY <3>1 DEF Follows
    <3> QED BY <1>7, <3>1, <3>2 DEF Says
  <2> QED BY <2>1, <2>2
<1> QED BY <1>1, <1>4, <1>5, <1>6, <1>7, Zenon DEF Says

-----------------------------------------------------------------------------
(* What the object of proper fields says, the filter does. *)
LEMMA ObjectSays ==
  ASSUME NEW object, IsValue(object), json_parse_filter_ok(object), IsProper(object)
  PROVE  SaysAsMuch(json_parse_filter(object), object)
<1> DEFINE fields == object.fields
           N == Len(fields)
           filter == json_parse_filter(object)
<1>1. N \in Nat /\ \A n \in 1..N : fields[n] \in Range(fields)
  BY FieldsOfValue
<1>2. PICK read : ReadsAs(read, fields) /\ filter = read[N]
  BY <1>1, FilterEquation
<1>3. Distinct(fields)
  <2>1. DOMAIN fields = 1..N
    BY FieldsOfValue
  <2> QED BY <2>1 DEF IsValue, Distinct
<1>4. ASSUME NEW n \in 1..N
      PROVE  /\ IsList(fields[n]) => Walked(fields[n]) = fields[n]
             /\ fields[n].name = "limit" => fields[n].items[1].of \in Int
  <2>1. fields[n] \in Range(fields)
    BY <1>1
  <2>2. IsField(fields[n]) /\ Accepts(fields[n])
    BY <2>1 DEF IsValue, json_parse_filter_ok
  <2>3. IsList(fields[n]) => fields[n].shape = "list"
    BY <2>1 DEF IsProper
  <2> HIDE DEF fields
  <2>4. IsList(fields[n]) => Walked(fields[n]) = fields[n]
    BY <2>3 DEF Walked
  <2>5. fields[n].name = "limit" => fields[n].items[1].of \in Int
    BY <2>2, AcceptedNumber DEF IsNumber
  <2> QED BY <2>4, <2>5
<1> DEFINE Saying == {n \in 0..N : Says(read[n], fields, n)}
<1>5. 0 \in Saying
  <2>1. IsFilter(Unfiltered)
    BY UnfilteredFits
  <2>2. \A m \in 1..0 : FALSE
    OBVIOUS
  <2>3. \A name \in Lists : Unfiltered[name] = {}
    <3>1. Unfiltered.ids = {} /\ Unfiltered.authors = {} /\ Unfiltered.kinds = {}
      BY DEF Unfiltered
    <3> QED BY <3>1 DEF Lists
  <2>4. \A name \in Times : Unfiltered[name] = 0
    <3>1. Unfiltered.since = 0 /\ Unfiltered.until = 0
      BY DEF Unfiltered
    <3> QED BY <3>1 DEF Times
  <2>5. Unfiltered.tags = {}
    BY DEF Unfiltered
  <2> HIDE DEF fields, N
  <2>6. Says(Unfiltered, fields, 0)
    BY <2>1, <2>2, <2>3, <2>4, <2>5, Zenon DEF Says
  <2>7. 0 \in 0..N /\ read[0] = Unfiltered
    BY <1>1, <1>2 DEF ReadsAs
  <2> QED BY <2>6, <2>7
<1>6. ASSUME NEW n \in 1..N, n - 1 \in Saying PROVE n \in Saying
  <2>1. read[n] = WithField(read[n - 1], fields[n])
    BY <1>2 DEF ReadsAs
  <2>2. Says(read[n - 1], fields, n - 1)
    BY <1>6
  <2>3. Follows(read[n], read[n - 1], fields[n])
    BY <2>1, <2>2, FieldFollows DEF Says
  <2>4. Says(read[n], fields, n)
    <3> HIDE DEF fields
    <3> QED BY <1>1, <1>3, <1>4, <2>2, <2>3, FieldSays DEF N
  <2>5. n \in 0..N
    BY <1>1
  <2> HIDE DEF fields, N
  <2> QED BY <2>4, <2>5
<1>7. Says(filter, fields, N)
  <2>1. 0..N \subseteq Saying
    <3> HIDE DEF N, Saying
    <3> QED BY <1>1, <1>5, <1>6, UpwardInduction
  <2>2. N \in 0..N
    BY <1>1
  <2> HIDE DEF N, fields, filter
  <2> QED BY <1>2, <2>1, <2>2
<1> DEFINE Has(name)   == \E field \in Range(fields) : field.name = name
           Field(name) == CHOOSE field \in Range(fields) : field.name = name
<1>8. ASSUME NEW name, Has(name)
      PROVE  \E m \in 1..N : fields[m].name = name /\ Field(name) = fields[m]
  <2>1. Field(name) \in Range(fields) /\ Field(name).name = name
    BY <1>8, Zenon
  <2>2. Range(fields) = {fields[n] : n \in 1..N}
    BY FieldsOfValue
  <2> HIDE DEF Field, fields, N
  <2> QED BY <2>1, <2>2
<1>9. ASSUME NEW m \in 1..N, NEW name, fields[m].name = name
      PROVE  Has(name) /\ Field(name) = fields[m]
  <2>1. Has(name)
    BY <1>1, <1>9
  <2>2. PICK k \in 1..N : fields[k].name = name /\ Field(name) = fields[k]
    <3> HIDE DEF Has, Field, fields, N
    <3> QED BY <1>8, <2>1
  <2>3. k = m
    <3> HIDE DEF Has, Field, fields
    <3> QED BY <1>3, <1>9, <2>2 DEF Distinct, N
  <2> HIDE DEF Has, Field, fields, N
  <2> QED BY <2>1, <2>2, <2>3
<1> HIDE DEF Has, Field, fields, N, filter
<1>10. ASSUME NEW name \in Lists
       PROVE  filter[name] = IF Has(name) THEN Values(Field(name)) ELSE {}
  <2>1. CASE Has(name)
    <3>1. PICK m \in 1..N : fields[m].name = name /\ Field(name) = fields[m]
      BY <1>8, <2>1
    <3>2. filter[name] = Values(fields[m])
      BY <1>7, <3>1 DEF Says
    <3> QED BY <2>1, <3>1, <3>2
  <2>2. CASE ~Has(name)
    <3>1. \A m \in 1..N : fields[m].name # name
      BY <1>9, <2>2
    <3>2. filter[name] = {}
      BY <1>7, <3>1 DEF Says
    <3> QED BY <2>2, <3>2
  <2> QED BY <2>1, <2>2
<1>11. ASSUME NEW name \in Times
       PROVE  filter[name] = IF Has(name) THEN Field(name).items[1].of ELSE 0
  <2>1. CASE Has(name)
    <3>1. PICK m \in 1..N : fields[m].name = name /\ Field(name) = fields[m]
      BY <1>8, <2>1
    <3>2. filter[name] = fields[m].items[1].of
      BY <1>7, <3>1 DEF Says
    <3> QED BY <2>1, <3>1, <3>2
  <2>2. CASE ~Has(name)
    <3>1. \A m \in 1..N : fields[m].name # name
      BY <1>9, <2>2
    <3>2. filter[name] = 0
      BY <1>7, <3>1 DEF Says
    <3> QED BY <2>2, <3>2
  <2> QED BY <2>1, <2>2
<1>12. filter.tags = {<<name, Values(Field(name))>> : name \in {n \in TagField : Has(n)}}
  <2> DEFINE Pair(name) == <<name, Values(Field(name))>>
             Tagging == {n \in TagField : Has(n)}
  <2>1. ASSUME NEW t \in filter.tags PROVE \E name \in Tagging : t = Pair(name)
    <3>1. PICK m \in 1..N : IsTag(fields[m]) /\ t = <<fields[m].name, Values(fields[m])>>
      BY <1>7, <2>1 DEF Says
    <3> DEFINE name == fields[m].name
    <3>2. Has(name) /\ Field(name) = fields[m]
      BY <1>9
    <3>3. name \in Tagging
      BY <3>1, <3>2 DEF IsTag
    <3>4. t = Pair(name)
      BY <3>1, <3>2
    <3> HIDE DEF Tagging, Pair, name
    <3> QED BY <3>3, <3>4
  <2>2. ASSUME NEW name \in Tagging PROVE Pair(name) \in filter.tags
    <3>1. PICK m \in 1..N : fields[m].name = name /\ Field(name) = fields[m]
      BY <1>8, <2>2
    <3>2. IsTag(fields[m])
      BY <2>2, <3>1 DEF IsTag
    <3>3. Pair(name) = <<fields[m].name, Values(fields[m])>>
      BY <3>1
    <3> HIDE DEF Pair, Tagging
    <3> QED BY <1>7, <3>2, <3>3 DEF Says
  <2> HIDE DEF Pair, Tagging
  <2>3. filter.tags = {Pair(name) : name \in Tagging}
    BY <2>1, <2>2
  <2> QED BY <2>3 DEF Pair, Tagging
<1>13. filter.limit \in 0..MaxRows
  BY ObjectFits DEF FilterFits, filter
<1>14. ASSUME Has("limit") PROVE filter.limit <= Field("limit").items[1].of
  <2>1. PICK m \in 1..N : fields[m].name = "limit" /\ Field("limit") = fields[m]
    BY <1>8, <1>14
  <2> QED BY <1>7, <2>1 DEF Says
<1> QED BY <1>10, <1>11, <1>12, <1>13, <1>14, Zenon DEF SaysAsMuch, Lists, Times, Has, Field, fields, filter

-----------------------------------------------------------------------------
(* What a message asks for is a list of what mongoose finds in it. *)
LEMMA CandidatesAreValues ==
  ASSUME NEW message, IsMessage(message)
  PROVE  /\ IsSequence(Candidates(message))
         /\ \A value \in Range(Candidates(message)) : IsValue(value)
<1> DEFINE values == message.values
           S == Range(values)
           room == IF message.wrapped THEN MaxValues ELSE MaxValues - 2
           last == IF Len(values) < room THEN Len(values) ELSE room
           kept == FirstOf(values, room)
           objects == Candidates(message)
<1>1. values \in Seq(S) /\ Len(values) \in Nat /\ \A i \in 1..Len(values) : values[i] \in S
  <2>1. values \in Seq(S)
    BY DEF IsMessage, IsSequence
  <2> HIDE DEF values
  <2>2. DOMAIN values = 1..Len(values) /\ Len(values) \in Nat
    BY <2>1
  <2> QED BY <2>1, <2>2 DEF Range
<1>2. last \in Int /\ last <= Len(values)
  <2>1. room \in Int
    BY FilterLimits
  <2> HIDE DEF room, values
  <2> QED BY <1>1, <2>1
<1>3. kept = SubSeq(values, 1, last)
  BY Zenon DEF FirstOf
<1>4. kept \in Seq(S)
  <2>1. \A i \in 1..last : values[i] \in S
    <3> HIDE DEF last, values, S
    <3> QED BY <1>1, <1>2
  <2>2. 1 \in Int
    OBVIOUS
  <2> HIDE DEF last, values, S, kept
  <2> QED BY <1>2, <1>3, <2>1, <2>2, SubSeqProperties
<1>5. objects = << >> \/ objects = kept
  BY Zenon DEF Candidates, json_array_parse
<1>6. objects \in Seq(S)
  <2>1. << >> \in Seq(S)
    OBVIOUS
  <2> HIDE DEF S, objects, kept
  <2> QED BY <1>4, <1>5, <2>1
<1>7. Range(objects) \subseteq S /\ objects \in Seq(Range(objects))
  <2> HIDE DEF S, objects
  <2> QED BY <1>6 DEF Range
<1> QED BY <1>7 DEF IsMessage, IsSequence

-----------------------------------------------------------------------------
(***************************************************************************)
(* collect_filters, after k of the objects: got are the filters read from  *)
(* the accepted ones among them, at says from which, and left is the rest. *)
(***************************************************************************)
AcceptedOf(objects) == {n \in DOMAIN objects : json_parse_filter_ok(objects[n])}

Collected(objects, k, at, left, got) ==
  /\ k \in 0..Len(objects)
  /\ IsSequence(left) /\ Len(left) = Len(objects) - k
  /\ \A i \in 1..Len(left) : left[i] = objects[k + i]
  /\ IsSequence(got) /\ Len(got) <= MaxFilters
  /\ at \in [DOMAIN got -> AcceptedOf(objects)]
  /\ \A i, j \in DOMAIN got : i < j => at[i] < at[j]
  /\ \A i \in DOMAIN got : at[i] <= k
  /\ \A n \in AcceptedOf(objects) : n <= k => n \in Range(at)
  /\ \A i \in DOMAIN got :
       /\ FilterFits(got[i])
       /\ IsProper(objects[at[i]]) => SaysAsMuch(got[i], objects[at[i]])

LEMMA NothingCollected ==
  ASSUME NEW objects, IsSequence(objects)
  PROVE  \E at : Collected(objects, 0, at, objects, << >>)
<1> DEFINE at == [i \in {} |-> 1]
           N == Len(objects)
<1>1. N \in Nat /\ DOMAIN objects = 1..N
  BY DEF IsSequence
<1>2. 0 \in 0..N /\ N = N - 0 /\ \A i \in 1..N : objects[i] = objects[0 + i]
  BY <1>1
<1>3. IsSequence(<< >>) /\ Len(<< >>) = 0 /\ DOMAIN << >> = {} /\ 0 <= MaxFilters
  BY FilterLimits DEF IsSequence
<1>4. at \in [{} -> AcceptedOf(objects)]
  OBVIOUS
<1>5. \A n \in AcceptedOf(objects) : ~(n <= 0)
  BY <1>1 DEF AcceptedOf
<1> HIDE DEF at, N
<1>6. Collected(objects, 0, at, objects, << >>)
  BY <1>1, <1>2, <1>3, <1>4, <1>5 DEF Collected, N
<1> QED BY <1>6

(* One object more is kept if it is accepted, and passed over if not. *)
LEMMA OneMoreCollected ==
  ASSUME NEW objects, IsSequence(objects), \A value \in Range(objects) : IsValue(value),
         NEW k, NEW at, NEW left, NEW got, Collected(objects, k, at, left, got),
         left # << >>, Len(got) < MaxFilters,
         NEW then, then = IF json_parse_filter_ok(Head(left))
                          THEN Append(got, json_parse_filter(Head(left))) ELSE got
  PROVE  \E l, a : Collected(objects, l, a, Tail(left), then)
<1> DEFINE N == Len(objects)
           n == k + 1
           object == objects[n]
           rest == Tail(left)
           A == AcceptedOf(objects)
<1>1. N \in Nat /\ DOMAIN objects = 1..N /\ k \in 0..N
  BY DEF IsSequence, Collected
<1>2. left \in Seq(Range(left)) /\ Len(left) \in Nat /\ Len(left) # 0
  <2>1. left \in Seq(Range(left))
    BY DEF Collected, IsSequence
  <2> QED BY <2>1
<1>3. n \in 1..N /\ k < n /\ Len(left) = N - k
  <2>1. Len(left) = N - k
    BY DEF Collected
  <2> HIDE DEF N
  <2> QED BY <1>1, <1>2, <2>1
<1>4. Head(left) = object
  <2>1. Head(left) = left[1] /\ 1 \in 1..Len(left)
    BY <1>2
  <2>2. left[1] = objects[k + 1]
    BY <2>1 DEF Collected
  <2> QED BY <2>1, <2>2
<1>5. /\ rest \in Seq(Range(left)) /\ Len(rest) = Len(left) - 1
      /\ \A i \in 1..Len(rest) : rest[i] = left[i + 1]
  BY <1>2, HeadTailProperties
<1>6. IsSequence(rest)
  <2> HIDE DEF rest
  <2> QED BY <1>5 DEF IsSequence, Range
<1>7. Len(rest) = N - n /\ \A i \in 1..Len(rest) : rest[i] = objects[n + i]
  <2>1. Len(rest) = N - n
    <3> HIDE DEF rest, N
    <3> QED BY <1>1, <1>3, <1>5
  <2>2. ASSUME NEW i \in 1..Len(rest) PROVE rest[i] = objects[n + i]
    <3>1. i + 1 \in 1..Len(left) /\ k + (i + 1) = n + i
      <4> HIDE DEF rest, N
      <4> QED BY <1>1, <1>2, <1>5
    <3>2. left[i + 1] = objects[k + (i + 1)]
      BY <3>1 DEF Collected
    <3> QED BY <1>5, <3>1, <3>2
  <2> QED BY <2>1, <2>2
<1>8. IsValue(object)
  BY <1>1, <1>3 DEF Range
<1>9. /\ IsSequence(got) /\ Len(got) <= MaxFilters /\ at \in [DOMAIN got -> A]
      /\ \A i, j \in DOMAIN got : i < j => at[i] < at[j]
      /\ \A i \in DOMAIN got : at[i] <= k
      /\ \A m \in A : m <= k => m \in Range(at)
  BY DEF Collected
<1>10. \A m \in A : m \in 1..N /\ (m <= n => m <= k \/ m = n)
  BY <1>1 DEF AcceptedOf
<1>11. n \in 0..N /\ k <= n
  BY <1>1, <1>3
<1>12. CASE json_parse_filter_ok(object)
  <2> DEFINE filter == json_parse_filter(object)
             M == Len(got)
             last == M + 1
             a == [i \in 1..last |-> IF i = last THEN n ELSE at[i]]
             S == Range(got) \cup {filter}
  <2>1. then = Append(got, filter)
    BY <1>4, <1>12
  <2>2. FilterFits(filter) /\ (IsProper(object) => SaysAsMuch(filter, object))
    BY <1>8, <1>12, ObjectFits, ObjectSays
  <2>3. M \in Nat /\ DOMAIN got = 1..M /\ got \in Seq(Range(got))
    BY <1>9 DEF IsSequence
  <2>4. got \in Seq(S) /\ filter \in S
    <3>1. Range(got) \subseteq S /\ filter \in S
      OBVIOUS
    <3> HIDE DEF S
    <3> QED BY <2>3, <3>1, SeqMonotonic
  <2>5. /\ then \in Seq(S) /\ Len(then) = last
        /\ \A i \in 1..M : then[i] = got[i] 
        /\ then[last] = filter
    <3> HIDE DEF S, filter
    <3> QED BY <2>1, <2>4, AppendProperties
  <2> HIDE DEF filter, S
  <2>6. IsSequence(then) /\ DOMAIN then = 1..last
    BY <2>5 DEF IsSequence, Range
  <2>7. last <= MaxFilters /\ last \in 1..last /\ last \notin 1..M
    BY <2>3, FilterLimits
  <2>8. n \in A
    BY <1>1, <1>3, <1>12 DEF AcceptedOf
  <2>9. \A i \in 1..last : i = last \/ (i # last /\ i \in 1..M)
    BY <2>3
  <2>10. \A i \in 1..M : at[i] \in A /\ at[i] <= k /\ i \in 1..last
    BY <1>9, <2>3
  <2>11. a \in [1..last -> A]
    BY <2>8, <2>9, <2>10
  <2>12. a[last] = n /\ \A i \in 1..M : a[i] = at[i]
    BY <2>7, <2>10
  <2> HIDE DEF a
  <2>13. \A i \in 1..last : a[i] <= n
    <3>1. \A i \in 1..M : at[i] <= n
      BY <1>1, <1>10, <1>11, <2>10
    <3> HIDE DEF last, M
    <3> QED BY <1>1, <2>9, <2>12, <3>1
  <2>14. ASSUME NEW i \in 1..last, NEW j \in 1..last, i < j PROVE a[i] < a[j]
    <3>1. i \in 1..M
      BY <2>3, <2>14
    <3>2. CASE j = last
      <4>1. a[i] \in Int /\ a[i] <= k /\ a[j] = k + 1
        BY <1>10, <2>10, <2>12, <3>1, <3>2
      <4> HIDE DEF n
      <4> QED BY <1>1, <4>1
    <3>3. CASE j # last
      <4>1. j \in 1..M
        BY <2>9, <3>3
      <4> QED BY <1>9, <2>3, <2>12, <2>14, <3>1, <4>1
    <3> QED BY <3>2, <3>3
  <2>15. ASSUME NEW m \in A, m <= n PROVE m \in Range(a)
    <3>1. DOMAIN a = 1..last
      BY <2>11
    <3>2. CASE m = n
      BY <2>7, <2>12, <3>1, <3>2 DEF Range
    <3>3. CASE m # n
      <4>1. m \in Range(at) /\ DOMAIN at = 1..M
        BY <1>9, <1>10, <2>3, <2>15, <3>3
      <4>2. PICK i \in 1..M : m = at[i]
        BY <4>1 DEF Range
      <4>3. i \in 1..last /\ a[i] = m
        BY <2>10, <2>12, <4>2
      <4> QED BY <3>1, <4>3 DEF Range
    <3> QED BY <3>2, <3>3
  <2>16. ASSUME NEW i \in 1..last
         PROVE  /\ FilterFits(then[i])
                /\ IsProper(objects[a[i]]) => SaysAsMuch(then[i], objects[a[i]])
    <3>1. CASE i = last
      BY <2>2, <2>5, <2>12, <3>1
    <3>2. CASE i # last
      <4>1. i \in 1..M /\ then[i] = got[i] /\ a[i] = at[i]
        BY <2>5, <2>9, <2>12, <3>2
      <4> QED BY <2>3, <4>1 DEF Collected
    <3> QED BY <3>1, <3>2
  <2> HIDE DEF n, rest, last, object, N
  <2>17. Collected(objects, n, a, rest, then)
    BY <1>6, <1>7, <1>11, <2>5, <2>6, <2>7, <2>11, <2>13, <2>14, <2>15, <2>16 DEF Collected, N
  <2> QED BY <2>17 DEF rest
<1>13. CASE ~json_parse_filter_ok(object)
  <2>1. then = got
    BY <1>4, <1>13
  <2>2. n \notin A
    BY <1>13 DEF AcceptedOf
  <2>3. \A m \in A : m <= n => m \in Range(at)
    BY <1>9, <1>10, <2>2
  <2>4. \A i \in DOMAIN got : at[i] <= n
    BY <1>1, <1>9, <1>10, <1>11
  <2>5. \A i \in DOMAIN got : FilterFits(got[i]) /\ (IsProper(objects[at[i]]) => SaysAsMuch(got[i], objects[at[i]]))
    BY DEF Collected
  <2> HIDE DEF n, rest, N, object
  <2>6. Collected(objects, n, at, rest, then)
    BY <1>6, <1>7, <1>9, <1>11, <2>1, <2>3, <2>4, <2>5 DEF Collected, N
  <2> QED BY <2>6 DEF rest
<1> QED BY <1>12, <1>13
==============================================================================
