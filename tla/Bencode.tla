------------------------------ MODULE Bencode -------------------------------
(***************************************************************************)
(* BencodeParser and the values it makes, as operators, the grammar it is  *)
(* measured by and the texts it is given.  A text is a sequence of         *)
(* characters, numbered from 1.  A value is a pair <<type, value>>.  Names *)
(* such as "announce" count as one character: nothing looks into them.     *)
(***************************************************************************)
EXTENDS Integers, Sequences

CONSTANTS
  Letters,   \* the characters behind ":" in their order, "d", "e", "i", "l" among them
  LongMax    \* the largest value of a long

ASSUME LettersAssumption == Letters \in Seq(STRING)

ASSUME LongAssumption == LongMax \in Nat

Digits == <<"0", "1", "2", "3", "4", "5", "6", "7", "8", "9">>

NUL == "NUL"   \* what std::string holds at its end

Alphabet == <<NUL, "-">> \o Digits \o <<":">> \o Letters

Chars == {Alphabet[n] : n \in DOMAIN Alphabet}

ASSUME MarksAssumption == {"d", "e", "i", "l"} \subseteq Chars

\* What a std::string can hold; decode throws at longer ones.
Texts == {t \in Seq(Chars) : Len(t) <= LongMax}

Rank(c) == CHOOSE n \in DOMAIN Alphabet : Alphabet[n] = c

\* The order of std::string.
Less(s, t) ==
  \E k \in 1 .. Len(t) :
    /\ k <= Len(s) + 1
    /\ SubSeq(s, 1, k - 1) = SubSeq(t, 1, k - 1)
    /\ k = Len(s) + 1 \/ Rank(s[k]) < Rank(t[k])

\* The texts one behind the other.
Concat(ts) ==
  LET upto[k \in 0 .. Len(ts)] == IF k = 0 THEN <<>> ELSE upto[k - 1] \o ts[k]
  IN  upto[Len(ts)]

IsDigit(c) == \E d \in 1 .. 10 : c = Digits[d]

IsNumeral(s) == s # <<>> /\ \A k \in DOMAIN s : IsDigit(s[k])

DigitOf(c) == CHOOSE d \in 0 .. 9 : Digits[d + 1] = c

\* std::stol of a numeral.
Decimal(s) ==
  LET value[k \in 0 .. Len(s)] == IF k = 0 THEN 0 ELSE 10 * value[k - 1] + DigitOf(s[k])
  IN  value[Len(s)]

\* std::to_string of a natural number.
Numeral[n \in Nat] ==
  IF n < 10 THEN <<Digits[n + 1]>> ELSE Append(Numeral[n \div 10], Digits[(n % 10) + 1])

-----------------------------------------------------------------------------
(* BencodeParser::decode.  What it returns is [valid, value, index], where   *)
(* index is _index afterwards, or [valid, error].  An exception passes       *)
(* through the callers like an error: out_of_range, which std::stol throws.  *)

Ok(v, i) == [valid |-> TRUE, value |-> v, index |-> i]

Fail(e) == [valid |-> FALSE, error |-> e]

\* The first place of c in the text from i on, or just behind the end.
Find(text, i, c) ==
  LET at == {k \in i .. Len(text) : text[k] = c}
  IN  IF at = {} THEN Len(text) + 1 ELSE CHOOSE k \in at : \A j \in at : k <= j

\* The characters that are left at i.
Left(text, i) == Len(text) - i + 1

Long == -LongMax - 1 .. LongMax

\* What the parser takes for an integer: leading zeros pass, "-0" does not.
IsInteger(s) ==
  /\ s # <<"-", "0">>
  /\ IsNumeral(IF s # <<>> /\ s[1] = "-" THEN Tail(s) ELSE s)

IntegerOf(s) == IF s[1] = "-" THEN -Decimal(Tail(s)) ELSE Decimal(s)

DecodeInt(text, i) ==
  LET e == Find(text, i + 1, "e")
      integer == SubSeq(text, i + 1, e - 1)
  IN  IF Left(text, i) < 3 \/ e > Len(text) THEN Fail("IntFormat")
      ELSE IF ~IsInteger(integer) THEN Fail("IntValue")
      ELSE IF IntegerOf(integer) \notin Long THEN Fail("out_of_range")
      ELSE Ok(<<"Integer", IntegerOf(integer)>>, e + 1)

\* Fault: a string may be shorter than its length says.
DecodeStringShort(text, i) ==
  LET c == Find(text, i, ":")
      len == SubSeq(text, i, c - 1)
      end == IF c + Decimal(len) < Len(text) THEN c + Decimal(len) ELSE Len(text)
  IN  IF Left(text, i) < 3 THEN Fail("StringFormat")
      ELSE IF ~IsNumeral(len) THEN Fail("InvalidString")
      ELSE Ok(<<"String", SubSeq(text, c + 1, end)>>, end + 1)

\* If there is no ":" then the index ends up beyond the end of the text.
DecodeString(text, i) ==
  LET c == Find(text, i, ":")
      len == SubSeq(text, i, c - 1)
      str == SubSeq(text, c + 1, IF c + Decimal(len) < Len(text) THEN c + Decimal(len)
                                                                 ELSE Len(text))
  IN  IF Left(text, i) < 3 THEN Fail("StringFormat")
      ELSE IF ~IsNumeral(len) THEN Fail("InvalidString")
      ELSE IF Decimal(len) > LongMax THEN Fail("out_of_range")
      ELSE IF Len(str) # Decimal(len) THEN Fail("InvalidString")
      ELSE Ok(<<"String", str>>, c + 1 + Len(str))

(* The methods that call each other are a function of the call: which part   *)
(* of the text is to be read, and the place where it begins.  In what        *)
(* follows p is that function.                                               *)

Kinds == {"value", "items", "pairs"}

Calls(text) == Kinds \X (1 .. Len(text) + 2)

\* What the loop of decode_list still does at i: the items up to the "e".
DecodeItems(text, p, i) ==
  LET r == p[<<"value", i>>]
      rest == p[<<"items", r.index>>]
  IN  IF i > Len(text) THEN Fail("ListFormat")
      ELSE IF text[i] = "e" THEN Ok(<<>>, i + 1)
      ELSE IF ~r.valid THEN r
      ELSE IF ~rest.valid THEN rest
      ELSE Ok(<<r.value>> \o rest.value, rest.index)

DecodeList(text, p, i) ==
  LET r == p[<<"items", i + 1>>]
  IN  IF Left(text, i) < 2 THEN Fail("ListFormat")
      ELSE IF ~r.valid THEN r
      ELSE Ok(<<"List", r.value>>, r.index)

\* std::map::insert keeps a value that is there already: an earlier pair
\* takes the place of the later ones with its key.
Insert(dict, k, v) ==
  [j \in DOMAIN dict \union {k} |-> IF j = k THEN v ELSE dict[j]]

\* What the loop of decode_dict still does at i: the keys, and the map.
DecodePairs(text, p, i) ==
  LET key == p[<<"value", i>>]
      r == p[<<"value", key.index>>]
      rest == p[<<"pairs", r.index>>]
  IN  IF i > Len(text) THEN Fail("DictFormat")
      ELSE IF text[i] = "e" THEN Ok([keys |-> <<>>, dict |-> [s \in {} |-> NUL]], i + 1)
      ELSE IF ~key.valid THEN key
      ELSE IF key.value[1] # "String" THEN Fail("DictKey")
      ELSE IF ~r.valid THEN r
      ELSE IF ~rest.valid THEN rest
      ELSE Ok([keys |-> <<key.value[2]>> \o rest.value.keys,
               dict |-> Insert(rest.value.dict, key.value[2], r.value)], rest.index)

\* No key is less than the one before it.
Ascending(keys) == \A k \in 1 .. Len(keys) - 1 : ~Less(keys[k + 1], keys[k])

DecodeDict(text, p, i) ==
  LET r == p[<<"pairs", i + 1>>]
  IN  IF Left(text, i) < 2 THEN Fail("DictFormat")
      ELSE IF ~r.valid THEN r
      ELSE IF ~Ascending(r.value.keys) THEN Fail("DictKeyOrder")
      ELSE Ok(<<"Dict", r.value.dict>>, r.index)

\* A read beyond the end of the text may give anything: beyond.
CharAt(text, beyond, i) ==
  IF i <= Len(text) THEN text[i] ELSE IF i = Len(text) + 1 THEN NUL ELSE beyond

\* The value at i.
DecodeValue(text, beyond, p, i) ==
  LET c == CharAt(text, beyond, i)
  IN  IF c = "i" THEN DecodeInt(text, i)
      ELSE IF IsDigit(c) THEN DecodeString(text, i)
      ELSE IF c = "l" THEN DecodeList(text, p, i)
      ELSE IF c = "d" THEN DecodeDict(text, p, i)
      ELSE Fail("InvalidString")

DecodeCall(text, beyond, p, c) ==
  IF c[1] = "value" THEN DecodeValue(text, beyond, p, c[2])
  ELSE IF c[1] = "items" THEN DecodeItems(text, p, c[2])
  ELSE DecodePairs(text, p, c[2])

Parser(text, beyond) ==
  LET p[c \in Calls(text)] == DecodeCall(text, beyond, p, c) IN p

\* The whole text must be used up.
Decode(text, beyond) ==
  LET r == Parser(text, beyond)[<<"value", 1>>]
  IN  IF r.valid /\ r.index # Len(text) + 1 THEN Fail("InvalidString") ELSE r

-----------------------------------------------------------------------------
(* BencodeValue::to_string *)

\* Fault: the quotes of a printed string are counted.
EncodeStringQuoted(s) == Numeral[Len(s) + 2] \o <<":">> \o s

EncodeString(s) == Numeral[Len(s)] \o <<":">> \o s

EncodeInt(n) == <<"i">> \o (IF n < 0 THEN <<"-">> \o Numeral[-n] ELSE Numeral[n]) \o <<"e">>

Least(keys) == CHOOSE k \in keys : \A j \in keys : ~Less(j, k)

\* The keys of a map in their order.
SortedKeys(keys) ==
  LET sorted[S \in SUBSET keys] ==
        IF S = {} THEN <<>> ELSE <<Least(S)>> \o sorted[S \ {Least(S)}]
  IN  sorted[keys]

\* A value, given the texts of what it holds: by index in a list, by key in a
\* dictionary.
EncodeWith(parts, v) ==
  CASE v[1] = "Integer" -> EncodeInt(v[2])
    [] v[1] = "String" -> EncodeString(v[2])
    [] v[1] = "List" -> <<"l">> \o Concat(parts) \o <<"e">>
    [] v[1] = "Dict" ->
         LET keys == SortedKeys(DOMAIN v[2])
         IN  <<"d">> \o Concat([k \in DOMAIN keys |-> EncodeString(keys[k]) \o parts[keys[k]]])
                    \o <<"e">>

(* Bound: values are nested at most six deep. *)

Encode1(v) == EncodeWith(<<>>, v)

Encode2(v) == EncodeWith([k \in DOMAIN v[2] |-> Encode1(v[2][k])], v)

Encode3(v) == EncodeWith([k \in DOMAIN v[2] |-> Encode2(v[2][k])], v)

Encode4(v) == EncodeWith([k \in DOMAIN v[2] |-> Encode3(v[2][k])], v)

Encode5(v) == EncodeWith([k \in DOMAIN v[2] |-> Encode4(v[2][k])], v)

Encode(v) == EncodeWith([k \in DOMAIN v[2] |-> Encode5(v[2][k])], v)

-----------------------------------------------------------------------------
(* The grammar: what a text denotes, by its first and last characters and    *)
(* the ways to split what is between them.  In what follows g is the         *)
(* function of what the parts of the text denote.                            *)

Inner(t) == SubSeq(t, 2, Len(t) - 1)

Framed(t, c) == Len(t) > 1 /\ t[1] = c /\ t[Len(t)] = "e"

\* The numbers that a text stands for.
Numbers(s) ==
  (IF IsNumeral(s) THEN {Decimal(s)} ELSE {})
  \union
  (IF Len(s) > 1 /\ s[1] = "-" /\ s # <<"-", "0">> /\ IsNumeral(Tail(s))
     THEN {-Decimal(Tail(s))} ELSE {})

IntegersOf(t) == {<<"Integer", n>> : n \in IF Framed(t, "i") THEN Numbers(Inner(t)) \cap Long ELSE {}}

\* The place k of the ":", behind which there are as many characters as it says.
IsLength(t, k) ==
  /\ t[k] = ":"
  /\ IsNumeral(SubSeq(t, 1, k - 1))
  /\ Decimal(SubSeq(t, 1, k - 1)) = Len(t) - k

StringsOf(t) ==
  {<<"String", SubSeq(t, k + 1, Len(t))>> : k \in {k \in 1 .. Len(t) : IsLength(t, k)}}

\* The sequences of values that t is a concatenation of.
ItemsOf(g, t) ==
  IF t = <<>> THEN {<<>>}
  ELSE UNION {UNION {{<<v>> \o vs : vs \in g[<<"items", SubSeq(t, k + 1, Len(t))>>]}
                       : v \in g[<<"value", SubSeq(t, 1, k)>>]} : k \in 1 .. Len(t)}

\* The same with keys and values that take turns.
PairsOf(g, t) ==
  IF t = <<>> THEN {<<>>}
  ELSE UNION {UNION {UNION {UNION {
         {<<<<u[2], v>>>> \o ps : ps \in g[<<"pairs", SubSeq(t, k + 1, Len(t))>>]}
           : v \in g[<<"value", SubSeq(t, j + 1, k)>>]} : k \in j + 1 .. Len(t)}
           : u \in StringsOf(SubSeq(t, 1, j))} : j \in 1 .. Len(t)}

KeysOf(ps) == [k \in DOMAIN ps |-> ps[k][1]]

\* The value of a key is the one behind its first place.
DictOf(ps) ==
  LET First(s) == CHOOSE k \in DOMAIN ps :
                    ps[k][1] = s /\ \A j \in DOMAIN ps : ps[j][1] = s => k <= j
  IN  [s \in {ps[k][1] : k \in DOMAIN ps} |-> ps[First(s)][2]]

ValuesOf(g, t) ==
  UNION {
    IntegersOf(t),
    StringsOf(t),
    IF Framed(t, "l") THEN {<<"List", vs>> : vs \in g[<<"items", Inner(t)>>]} ELSE {},
    IF Framed(t, "d")
      THEN {<<"Dict", DictOf(ps)>> : ps \in {ps \in g[<<"pairs", Inner(t)>>] : Ascending(KeysOf(ps))}}
      ELSE {}}

DenotedBy(g, c) ==
  IF c[1] = "value" THEN ValuesOf(g, c[2])
  ELSE IF c[1] = "items" THEN ItemsOf(g, c[2])
  ELSE PairsOf(g, c[2])

Grammar == LET g[c \in Kinds \X Texts] == DenotedBy(g, c) IN g

Denoted(t) == Grammar[<<"value", t>>]

-----------------------------------------------------------------------------
(* External: the texts that other programs write for a value. *)

BString(s) == Numeral[Len(s)] \o <<":">> \o s

BInteger(n) == <<"i">> \o Numeral[n] \o <<"e">>

BList(ts) == <<"l">> \o Concat(ts) \o <<"e">>

\* Of names and the texts of their values.
BDict(ps) ==
  <<"d">> \o Concat([k \in DOMAIN ps |-> BString(<<ps[k][1]>>) \o ps[k][2]]) \o <<"e">>
=============================================================================
