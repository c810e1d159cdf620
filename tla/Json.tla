-------------------------------- MODULE Json --------------------------------
(***************************************************************************)
(* src/json.cpp: values, their printer and the parser of the JSON gateway. *)
(* A text is a sequence of tokens: punctuation, blanks, and the letters of *)
(* strings one by one; a literal, a number and the four digits after \u    *)
(* are one token each.  An operator that parses returns the value and the  *)
(* place after it.                                                         *)
(***************************************************************************)
EXTENDS Naturals, Sequences, SequencesExt

CONSTANTS
    Numbers,   \* the texts of numbers
    Rounded    \* how a number is printed: six digits, integers in full

Quote == "\""
Backslash == "\\"
Blank == {" ", "newline"}
Controls == {"newline", "bell"}   \* below 0x20: with and without a short escape

Null == [type |-> "null"]
Bool(b) == [type |-> "bool", bool |-> b]
Number(n) == [type |-> "number", number |-> n]
String(s) == [type |-> "string", string |-> s]
Array(a) == [type |-> "array", array |-> a]
Object(o) == [type |-> "object", object |-> o]   \* <<key, value>> pairs, in order

\* Value::asString and Value::find, with the values they return by default.
AsString(v) == IF v.type = "string" THEN v.string ELSE <<>>
Find(v, key) ==
    LET at == {i \in DOMAIN v.object : v.object[i][1] = key}
    IN  IF at = {} THEN Null ELSE v.object[CHOOSE i \in at : \A j \in at : i <= j][2]

----------------------------------------------------------------------------
(* Value::dump *)

\* Mutant: the backslash is printed as it is.
BareBackslash(c) ==
    CASE c = Quote -> <<Backslash, Quote>>
      [] c = "newline" -> <<Backslash, "n">>
      [] c = "bell" -> <<Backslash, "u", "0007">>
      [] OTHER -> <<c>>

\* One letter of escapeString.
Escape(c) ==
    CASE c \in {Quote, Backslash} -> <<Backslash, c>>
      [] c = "newline" -> <<Backslash, "n">>
      [] c = "bell" -> <<Backslash, "u", "0007">>
      [] OTHER -> <<c>>

DumpString(s) == <<Quote>> \o FlattenSeq([i \in DOMAIN s |-> Escape(s[i])]) \o <<Quote>>

\* Parts between brackets, on lines of their own when printed pretty.
Enclosed(open, parts, close, pretty, indent) ==
    LET line(k) == IF pretty THEN <<"newline">> \o [i \in 1..2 * k |-> " "] ELSE <<>>
        nth(i) == (IF i = 1 THEN <<>> ELSE <<",">>) \o line(indent + 1) \o parts[i]
    IN  IF parts = <<>> THEN <<open, close>>
        ELSE <<open>> \o FlattenSeq([i \in DOMAIN parts |-> nth(i)]) \o line(indent) \o <<close>>

RECURSIVE DumpValue(_, _, _)
DumpValue(v, pretty, indent) ==
    CASE v.type = "null" -> <<"null">>
      [] v.type = "bool" -> IF v.bool THEN <<"true">> ELSE <<"false">>
      [] v.type = "number" -> <<Rounded[v.number]>>
      [] v.type = "string" -> DumpString(v.string)
      [] v.type = "array" ->
           Enclosed("[", [i \in DOMAIN v.array |-> DumpValue(v.array[i], pretty, indent + 1)],
                    "]", pretty, indent)
      [] v.type = "object" ->
           Enclosed("{", [i \in DOMAIN v.object |->
                             DumpString(v.object[i][1]) \o <<":">>
                             \o (IF pretty THEN <<" ">> ELSE <<>>)
                             \o DumpValue(v.object[i][2], pretty, indent + 1)],
                    "}", pretty, indent)

Dump(v) == DumpValue(v, FALSE, 0)

----------------------------------------------------------------------------
(* Parser *)

At(text, i) == IF i \in DOMAIN text THEN text[i] ELSE "end"

RECURSIVE SkipWs(_, _)
SkipWs(text, i) == IF At(text, i) \in Blank THEN SkipWs(text, i + 1) ELSE i

\* What was read, up to text[next - 1]: blanks are skipped after every value and key.
Fail == [ok |-> FALSE, value |-> Null, next |-> 0]
Got(v, text, next) == [ok |-> TRUE, value |-> v, next |-> SkipWs(text, next)]

\* What an escape letter, and a \u escape outside the surrogates, stand for.
Unescaped == [c \in {Quote, Backslash, "/", "n"} |-> IF c = "n" THEN "newline" ELSE c]
CodePoint == [h \in {"0007", "lo"} |-> IF h = "0007" THEN "bell" ELSE "half"]

\* The rest of a string; a high surrogate needs a low one, which may stand alone.
RECURSIVE ParseString(_, _, _)
ParseString(text, i, read) ==
    LET c == At(text, i)
        e == At(text, i + 1)
        unit == At(text, i + 2)
        pair == SubSeq(text, i, i + 5) = <<Backslash, "u", "hi", Backslash, "u", "lo">>
    IN  CASE c = Quote -> Got(String(read), text, i + 1)
          [] c = Backslash /\ e \in DOMAIN Unescaped ->
               ParseString(text, i + 2, Append(read, Unescaped[e]))
          [] c = Backslash /\ e = "u" /\ unit \in DOMAIN CodePoint ->
               ParseString(text, i + 3, Append(read, CodePoint[unit]))
          [] c = Backslash /\ e = "u" /\ unit = "hi" ->
               IF i + 5 <= Len(text) /\ pair
               THEN ParseString(text, i + 6, Append(read, "astral")) ELSE Fail
          [] c \in {Backslash, "end"} \cup Controls -> Fail
          [] OTHER -> ParseString(text, i + 1, Append(read, c))

RECURSIVE ParseValue(_, _), ParseElements(_, _, _), ParseMembers(_, _, _), ParseMember(_, _)
ParseValue(text, start) ==
    LET i == SkipWs(text, start)
        c == At(text, i)
        inside == SkipWs(text, i + 1)
    IN  CASE c = "{" -> IF At(text, inside) = "}" THEN Got(Object(<<>>), text, inside + 1)
                        ELSE ParseMembers(text, <<>>, ParseMember(text, inside))
          [] c = "[" -> IF At(text, inside) = "]" THEN Got(Array(<<>>), text, inside + 1)
                        ELSE ParseElements(text, <<>>, ParseValue(text, inside))
          [] c = Quote -> ParseString(text, i + 1, <<>>)
          [] c \in {"true", "false"} -> Got(Bool(c = "true"), text, i + 1)
          [] c = "null" -> Got(Null, text, i + 1)
          [] c \in Numbers -> Got(Number(c), text, i + 1)
          [] OTHER -> Fail

\* The rest of parseArray, when these elements and one more were read.
ParseElements(text, read, element) ==
    LET all == Append(read, element.value)
    IN  CASE ~element.ok -> Fail
          [] At(text, element.next) = "]" -> Got(Array(all), text, element.next + 1)
          [] At(text, element.next) = "," ->
               ParseElements(text, all, ParseValue(text, element.next + 1))
          [] OTHER -> Fail

\* The rest of parseObject; a member is a pair of a key and the value after its colon.
ParseMembers(text, read, member) ==
    LET all == Append(read, member.value)
    IN  CASE ~member.ok -> Fail
          [] At(text, member.next) = "}" -> Got(Object(all), text, member.next + 1)
          [] At(text, member.next) = "," ->
               ParseMembers(text, all, ParseMember(text, SkipWs(text, member.next + 1)))
          [] OTHER -> Fail

Paired(text, key) ==
    IF key.ok /\ At(text, key.next) = ":"
    THEN [ParseValue(text, key.next + 1) EXCEPT !.value = <<key.value.string, @>>]
    ELSE Fail
ParseMember(text, i) ==
    IF At(text, i) = Quote THEN Paired(text, ParseString(text, i + 1, <<>>)) ELSE Fail

\* json::parse: a complete document, with nothing after it but blanks.
Complete(text, document) ==
    IF document.ok /\ At(text, document.next) = "end" THEN document ELSE Fail
Parse(text) == Complete(text, ParseValue(text, 1))
=============================================================================
