-------------------------------- MODULE Json --------------------------------
(***************************************************************************)
(* Variant::toJson and fromJson (variant.cpp) on the text functions of     *)
(* Additional (additional.cpp): a variant is written as JSON, its blanks   *)
(* may change on the way, and it is read and written again.  A text is a   *)
(* sequence of symbols, of which a word, a number and a colon are one      *)
(* each.                                                                   *)
(***************************************************************************)
EXTENDS Integers, Sequences, FiniteSets, SequencesExt

CONSTANTS JsonValue, \* the variants that are written
          MaxBlanks, \* bound: blanks put into the text or taken out
          MaxCycles  \* bound: times it is written

ASSUME JsonAssumption == MaxBlanks \in Nat /\ MaxCycles \in Nat

VARIABLES original, \* the variant first written
          current,  \* the variant there is now
          jsonText,
          jsonStage, \* "value", "text" or "start"
          blanks, cycles

jsonVars == <<original, current, jsonText, jsonStage, blanks, cycles>>

\* A variant: a number has one text, whatever its digits; the items of a map
\* are pairs of a key and a variant, in the order of their keys.
JsonString(text) == [type |-> "string", text |-> text, items |-> <<>>]
JsonNumber(type, number) == [type |-> type, text |-> <<number>>, items |-> <<>>]
JsonNull == [type |-> "none", text |-> <<>>, items |-> <<>>]
Container(type, items) == [type |-> type, text |-> <<>>, items |-> items]
Pair(key, value) == [key |-> key, value |-> value]

Quote == "quote"
Colon == ":"
Blank == " "
NumberWords == {"0", "1", "2"}
Fences == {"{", "[", "("}

InitJson ==
  /\ original = JsonNull
  /\ current = JsonNull
  /\ jsonText = <<>>
  /\ jsonStage = "start"
  /\ blanks = 0
  /\ cycles = 0

\* Variant::isNumber: numbers, and strings of nothing but digits.
IsNumber(v) ==
  v.type \in {"int", "double"}
    \/ (v.type = "string" /\ v.text # <<>> /\ ToSet(v.text) \subseteq NumberWords)

Separated(texts) ==
  IF texts = <<>> THEN <<>>
  ELSE FoldLeft(LAMBDA q, t : q \o <<",", Blank>> \o t, Head(texts), Tail(texts))

RECURSIVE toJson(_)
\* toJson, with containerToJson for both kinds of list.
toJson(v) ==
  CASE v.type = "map" ->
         <<"{">> \o Separated([i \in DOMAIN v.items |->
            <<Quote>> \o v.items[i].key \o <<Quote, Blank, Colon, Blank>>
              \o toJson(v.items[i].value)]) \o <<"}">>
    [] v.type \in {"list", "vector"} ->
         <<"[">> \o Separated([i \in DOMAIN v.items |-> toJson(v.items[i])]) \o <<"]">>
    [] IsNumber(v) -> v.text
    [] OTHER -> <<Quote>> \o v.text \o <<Quote>>

-----------------------------------------------------------------------------
reversedFence(c) == CASE c = "{" -> "}" [] c = "[" -> "]" [] c = "(" -> ")"

\* Where the fence that opens at "begin" (0 if none does) is closed, by the
\* fences of its kind from "first" on: 0 if it is not.
fenceEnd(text, first, begin) ==
  LET among(i, c) == Cardinality({j \in first .. i : text[j] = c})
      ends == {i \in begin .. Len(text) :
                 /\ text[i] = reversedFence(text[begin])
                 /\ among(i, text[begin]) = among(i, text[i])}
  IN IF begin = 0 \/ ends = {} THEN 0 ELSE Min(ends)

\* fencedArea of one kind of fence, the whole text if there is none.
fencedAreaOf(text, fence) ==
  LET begin == SelectInSeq(text, LAMBDA c : c = fence)
      end == fenceEnd(text, 1, begin)
  IN IF end = 0 THEN text ELSE SubSeq(text, begin, end)

RECURSIVE fencedAreas(_)
\* fencedAreas, and fencedArea of the fence that opens next, whatever its kind.
fencedAreas(text) ==
  LET begin == SelectInSeq(text, LAMBDA c : c \in Fences)
      end == fenceEnd(text, begin, begin)
  IN IF end = 0 THEN <<>>
     ELSE <<SubSeq(text, begin, end)>> \o fencedAreas(SubSeq(text, end + 1, Len(text)))

\* jsonRemoveSymbols: blanks go, but not after an odd number of quotes.
jsonRemoveSymbols(text) ==
  FoldLeft(LAMBDA q, c :
      LET inside == IF c = Quote THEN ~q.inside ELSE q.inside
      IN [inside |-> inside,
          kept |-> IF inside \/ c # Blank THEN Append(q.kept, c) ELSE q.kept],
    [inside |-> FALSE, kept |-> <<>>], text).kept

\* jsonTopLevelField: where its comma is, 0 for none: one outside the fence
\* that opened first; quotes do not count, and other fences in it neither.
fieldEnd(text) ==
  LET step(q, i) ==
        CASE q.end # 0 -> q
          [] q.fence = "none" /\ text[i] = "," -> [q EXCEPT !.end = i]
          [] q.fence = "none" /\ text[i] \in Fences ->
               [q EXCEPT !.fence = text[i], !.count = @ + 1]
          [] q.fence # "none" /\ text[i] = q.fence -> [q EXCEPT !.count = @ + 1]
          [] q.fence # "none" /\ text[i] = reversedFence(q.fence) ->
               IF q.count = 1 THEN [q EXCEPT !.count = 0, !.fence = "none"]
               ELSE [q EXCEPT !.count = @ - 1]
          [] OTHER -> q
  IN FoldLeft(step, [fence |-> "none", count |-> 0, end |-> 0],
              [i \in DOMAIN text |-> i]).end

RECURSIVE jsonTopLevelFields(_)
\* An empty field ends them.
jsonTopLevelFields(text) ==
  LET end == fieldEnd(text)
      field == IF end = 0 THEN text ELSE SubSeq(text, 1, end - 1)
  IN IF field = <<>> THEN <<>>
     ELSE <<field>> \o jsonTopLevelFields(
            IF end = 0 THEN <<>> ELSE SubSeq(text, end + 1, Len(text)))

\* Slip: a pair is what is on both sides of the last colon.
splitIntoPair_last(text) ==
  LET at == SelectLastInSeq(text, LAMBDA c : c = Colon)
  IN IF at = 0 THEN Pair(<<>>, <<>>)
     ELSE Pair(SubSeq(text, 1, at - 1), SubSeq(text, at + 1, Len(text)))

\* splitIntoPair, at the first colon.
splitIntoPair(text) ==
  LET at == SelectInSeq(text, LAMBDA c : c = Colon)
  IN IF at = 0 THEN Pair(<<>>, <<>>)
     ELSE Pair(SubSeq(text, 1, at - 1), SubSeq(text, at + 1, Len(text)))

Within(text) == SubSeq(text, 2, Len(text) - 1)
Between(text, first, last) == Head(text) = first /\ Last(text) = last

RECURSIVE fromJson(_)
\* A key that is there already has its variant replaced.
withPair(items, key, v) ==
  IF \E i \in DOMAIN items : items[i].key = key
    THEN [i \in DOMAIN items |-> IF items[i].key = key THEN Pair(key, v) ELSE items[i]]
    ELSE Append(items, Pair(key, v))

\* fromJson of a map's field: no pair, no entry.
withField(items, field) ==
  LET record == splitIntoPair(field)
  IN IF Len(record.key) > 1 /\ record.value # <<>> /\ Between(record.key, Quote, Quote)
       THEN withPair(items, Within(record.key), fromJson(record.value))
       ELSE items

\* fromJson: every number is a double, every container of values a list; what
\* no number starts, and nothing quotes, is a string as it is.
fromJson(text) ==
  LET trimed == jsonRemoveSymbols(text)
      parts == jsonTopLevelFields(Within(trimed))
  IN CASE trimed = <<>> -> JsonNull
       [] trimed # <<>> /\ Between(trimed, "{", "}") ->
            Container("map", FoldLeft(withField, <<>>, parts))
       [] trimed # <<>> /\ Between(trimed, "[", "]") ->
            Container("list", [i \in DOMAIN parts |-> fromJson(parts[i])])
       [] Len(trimed) > 1 /\ Between(trimed, Quote, Quote) -> JsonString(Within(trimed))
       [] OTHER -> IF Head(trimed) \in NumberWords THEN JsonNumber("double", Head(trimed))
                   ELSE JsonString(trimed)

-----------------------------------------------------------------------------
StartWith(v) ==
  /\ jsonStage = "start"
  /\ original' = v
  /\ current' = v
  /\ jsonStage' = "value"
  /\ UNCHANGED <<jsonText, blanks, cycles>>

WriteJson ==
  /\ jsonStage = "value"
  /\ cycles < MaxCycles
  /\ jsonText' = toJson(current)
  /\ jsonStage' = "text"
  /\ cycles' = cycles + 1
  /\ UNCHANGED <<original, current, blanks>>

ReadJson ==
  /\ jsonStage = "text"
  /\ current' = fromJson(jsonText)
  /\ jsonStage' = "value"
  /\ UNCHANGED <<original, jsonText, blanks, cycles>>

InQuotes(i) == Len(SelectSeq(SubSeq(jsonText, 1, i - 1), LAMBDA c : c = Quote)) % 2 = 1

\* Somebody lays the text out anew: a blank more before the i-th symbol, or
\* that symbol away, if it is one.
AddBlank(i) ==
  /\ jsonStage = "text"
  /\ blanks < MaxBlanks
  /\ ~InQuotes(i)
  /\ jsonText' = InsertAt(jsonText, i, Blank)
  /\ blanks' = blanks + 1
  /\ UNCHANGED <<original, current, jsonStage, cycles>>

DropBlank(i) ==
  /\ jsonStage = "text"
  /\ blanks < MaxBlanks
  /\ jsonText[i] = Blank
  /\ ~InQuotes(i)
  /\ jsonText' = RemoveAt(jsonText, i)
  /\ blanks' = blanks + 1
  /\ UNCHANGED <<original, current, jsonStage, cycles>>

NextJson ==
  \/ \E v \in JsonValue : StartWith(v)
  \/ WriteJson
  \/ ReadJson
  \/ \E i \in DOMAIN jsonText : AddBlank(i) \/ DropBlank(i)

-----------------------------------------------------------------------------
Marks == Fences \cup {"}", "]", ")", ",", Colon, Quote}

RECURSIVE Plain(_)
\* No key, and no string inside a container, has marks of JSON in it.
Plain(v) ==
  \A i \in DOMAIN v.items :
    LET inner == IF v.type = "map" THEN v.items[i].value ELSE v.items[i]
    IN /\ ToSet(inner.text) \cap Marks = {}
       /\ v.type = "map" => ToSet(v.items[i].key) \cap Marks = {}
       /\ Plain(inner)

RECURSIVE Normal(_)
\* What JSON tells of a variant.
Normal(v) ==
  CASE v.type = "map" -> [v EXCEPT !.items =
         [i \in DOMAIN v.items |-> [v.items[i] EXCEPT !.value = Normal(@)]]]
    [] v.type \in {"list", "vector"} ->
         Container("list", [i \in DOMAIN v.items |-> Normal(v.items[i])])
    [] IsNumber(v) -> JsonNumber("double", Head(v.text))
    [] OTHER -> JsonString(v.text)

\* The texts of the containers in a container, by themselves.
FencedItems(v) ==
  LET inner == [i \in DOMAIN v.items |->
                  IF v.type = "map" THEN v.items[i].value ELSE v.items[i]]
      containers == SelectSeq(inner, LAMBDA w : w.type \in {"map", "list", "vector"})
  IN [i \in DOMAIN containers |-> jsonRemoveSymbols(toJson(containers[i]))]

(***************************************************************************)
(* A variant that is written as JSON is read as itself, however the text   *)
(* is laid out and as often as it is done: maps and lists of every depth,  *)
(* blanks in strings; but numbers and strings of digits become doubles,    *)
(* vectors lists and null the empty string.  On the way the fences of      *)
(* the text are matched: the areas of a container's text that they enclose *)
(* are the containers in it, one by one.  This needs keys, and strings in  *)
(* containers, without the marks of JSON.                                  *)
(***************************************************************************)
JsonRoundTrip ==
  LET trimed == jsonRemoveSymbols(jsonText)
  IN Plain(original) =>
       /\ (jsonStage = "value" /\ cycles > 0) => current = Normal(original)
       /\ (jsonStage = "text" /\ current.type \in {"map", "list", "vector"}) =>
            /\ fencedAreas(Within(trimed)) = FencedItems(current)
            /\ fencedAreaOf(trimed, Head(trimed)) = trimed
=============================================================================
