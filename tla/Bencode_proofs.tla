---------------------------- MODULE Bencode_proofs ----------------------------
(***************************************************************************)
(* The parser accepts exactly the texts of the grammar, and makes of each  *)
(* the value it denotes: for every text, of any length and nesting, and    *)
(* whatever is in memory behind it.  The texts that other programs write   *)
(* stand for their values: strings, integers, lists and dictionaries of    *)
(* any size and nesting, whatever the alphabet.                            *)
(***************************************************************************)
EXTENDS Bencode, WellFoundedInduction, TLAPS

-----------------------------------------------------------------------------
(* Sequences *)

\* The elements of a sequence.
LEMMA LenProperties ==
  ASSUME NEW S, NEW seq \in Seq(S)
  PROVE  /\ Len(seq) \in Nat
         /\ seq \in [1 .. Len(seq) -> S]
         /\ DOMAIN seq = 1 .. Len(seq)
OBVIOUS

\* The same, one by one.
LEMMA ElementOfSeq ==
  ASSUME NEW S, NEW seq \in Seq(S), NEW n \in 1 .. Len(seq)
  PROVE  seq[n] \in S
OBVIOUS

\* The empty sequence is the only one without elements.
LEMMA EmptySeq ==
  ASSUME NEW S
  PROVE  /\ << >> \in Seq(S)
         /\ Len(<< >>) = 0
         /\ \A seq \in Seq(S) : seq # << >> => Len(seq) \in Nat \ {0}
OBVIOUS

\* A sequence over a set is one over every larger set.
LEMMA SeqMonotonic ==
  ASSUME NEW S, NEW T, NEW seq \in Seq(S), S \subseteq T
  PROVE  seq \in Seq(T)
OBVIOUS

\* Sequences with the same elements are the same.
LEMMA SeqEqual ==
  ASSUME NEW S, NEW s \in Seq(S), NEW t \in Seq(S),
         Len(s) = Len(t), \A i \in 1 .. Len(s) : s[i] = t[i]
  PROVE  s = t
OBVIOUS

\* One sequence behind another.
LEMMA ConcatProperties ==
  ASSUME NEW S, NEW s1 \in Seq(S), NEW s2 \in Seq(S)
  PROVE  /\ s1 \o s2 \in Seq(S)
         /\ Len(s1 \o s2) = Len(s1) + Len(s2)
         /\ \A i \in 1 .. Len(s1) + Len(s2) :
              (s1 \o s2)[i] = IF i <= Len(s1) THEN s1[i] ELSE s2[i - Len(s1)]
OBVIOUS

\* One of the two is empty.
LEMMA ConcatEmptySeq ==
  ASSUME NEW S, NEW seq \in Seq(S)
  PROVE  seq \o << >> = seq /\ << >> \o seq = seq
OBVIOUS

\* One element more.
LEMMA AppendProperties ==
  ASSUME NEW S, NEW seq \in Seq(S), NEW elt \in S
  PROVE  /\ Append(seq, elt) \in Seq(S)
         /\ Append(seq, elt) # << >>
         /\ Len(Append(seq, elt)) = Len(seq) + 1
         /\ \A i \in 1 .. Len(seq) : Append(seq, elt)[i] = seq[i]
         /\ Append(seq, elt)[Len(seq) + 1] = elt
OBVIOUS

\* The sequence without its first element.
LEMMA HeadTailProperties ==
  ASSUME NEW S, NEW s \in Seq(S), s # << >>
  PROVE  /\ Head(s) \in S
         /\ Tail(s) \in Seq(S)
         /\ Len(Tail(s)) = Len(s) - 1
         /\ \A i \in 1 .. Len(Tail(s)) : Tail(s)[i] = s[i + 1]
OBVIOUS

\* A part of a sequence.
LEMMA SubSeqProperties ==
  ASSUME NEW S, NEW s, NEW m \in Int, NEW n \in Int, \A i \in m .. n : s[i] \in S
  PROVE  /\ SubSeq(s, m, n) \in Seq(S)
         /\ Len(SubSeq(s, m, n)) = IF m <= n THEN n - m + 1 ELSE 0
         /\ \A i \in 1 .. n - m + 1 : SubSeq(s, m, n)[i] = s[m + i - 1]
OBVIOUS

\* A part with no elements.
LEMMA SubSeqEmpty ==
  ASSUME NEW s, NEW m \in Int, NEW n \in Int, n < m
  PROVE  SubSeq(s, m, n) = << >>
OBVIOUS

\* The whole as a part.
LEMMA SubSeqFull ==
  ASSUME NEW S, NEW seq \in Seq(S)
  PROVE  SubSeq(seq, 1, Len(seq)) = seq
OBVIOUS

\* A function on 1 .. n is a sequence.
LEMMA FunctionIsSeq ==
  ASSUME NEW C, NEW n \in Nat, NEW f \in [1 .. n -> C]
  PROVE  f \in Seq(C) /\ Len(f) = n
OBVIOUS

-----------------------------------------------------------------------------
(* Induction *)

\* A set of numbers has a least one.
LEMMA LeastOf ==
  ASSUME NEW S, S \subseteq Nat, S # {}
  PROVE  \E n \in S : \A m \in S : n <= m
<1> DEFINE R == OpToRel(<, Nat)
<1>1. \A m \in Nat, n \in Nat : m < n => <<m, n>> \in R
  BY Zenon DEF OpToRel
<1>2. IsWellFoundedOn(R, Nat)
  BY NatLessThanWellFounded, Zenon
<1> HIDE DEF R
<1>3. PICK n \in S : \A m \in S : ~ (<<m, n>> \in R)
  BY <1>2, WFMin, Zenon
<1>4. ASSUME NEW m \in S PROVE n <= m
  <2>1. m \in Nat /\ n \in Nat /\ ~ (m < n)
    BY <1>1, <1>3, Zenon
  <2> QED
    BY <2>1
<1> QED
  BY <1>4, Zenon

\* What holds of a number if it holds of all smaller ones holds of all.
LEMMA Induction ==
  ASSUME NEW S,
         \A n \in Nat : (\A m \in Nat : m < n => m \in S) => n \in S
  PROVE  \A n \in Nat : n \in S
<1> DEFINE T == {n \in Nat : n \notin S}
<1>1. SUFFICES ASSUME T # {} PROVE FALSE
  BY Zenon
<1>2. PICK n \in T : \A m \in T : n <= m
  BY <1>1, LeastOf, Zenon
<1>3. n \in Nat /\ n \notin S
  BY <1>2, Zenon
<1>4. ASSUME NEW m \in Nat, m < n PROVE m \in S
  <2>1. ~ (n <= m)
    BY <1>3, <1>4
  <2> QED
    BY <1>2, <2>1, Zenon
<1> QED
  BY <1>3, <1>4, Zenon

\* What holds of 0 and, with a number, of the next one holds of all.
LEMMA Stepwise ==
  ASSUME NEW S, 0 \in S, \A n \in Nat : n \in S => n + 1 \in S
  PROVE  \A n \in Nat : n \in S
<1>1. ASSUME NEW n \in Nat, \A m \in Nat : m < n => m \in S
      PROVE  n \in S
  <2>1. CASE n = 0
    BY <2>1
  <2>2. CASE n # 0
    <3>1. n - 1 \in Nat /\ n - 1 < n /\ (n - 1) + 1 = n
      BY <2>2
    <3>2. n - 1 \in S
      BY <1>1, <3>1, Zenon
    <3>3. (n - 1) + 1 \in S
      BY <3>1, <3>2, Zenon
    <3> QED
      BY <3>1, <3>3, Zenon
  <2> QED
    BY <2>1, <2>2, Zenon
<1> QED
  BY <1>1, Induction, Zenon

-----------------------------------------------------------------------------
(* Numbers *)

\* f holds the numbers that the first n digits of s stand for.
IsPrefixValue(f, s, n) ==
  f = [k \in 0 .. n |-> IF k = 0 THEN 0 ELSE 10 * f[k - 1] + DigitOf(s[k])]

\* std::stol goes on digit by digit, for a numeral of any length.
LEMMA PrefixValueExists ==
  ASSUME NEW s
  PROVE  \A n \in Nat : \E f : IsPrefixValue(f, s, n)
<1> DEFINE S == {n \in Nat : \E f : IsPrefixValue(f, s, n)}
<1>1. 0 \in S
  <2>1. IsPrefixValue([k \in 0 .. 0 |-> 0], s, 0)
    BY DEF IsPrefixValue
  <2> QED
    BY <2>1, Zenon
<1>2. ASSUME NEW n \in Nat, n \in S PROVE n + 1 \in S
  <2>1. PICK f : IsPrefixValue(f, s, n)
    BY <1>2, Zenon
  <2> DEFINE g == [k \in 0 .. n + 1 |-> IF k = n + 1 THEN 10 * f[n] + DigitOf(s[n + 1]) ELSE f[k]]
  <2>2. \A k \in 0 .. n : f[k] = IF k = 0 THEN 0 ELSE 10 * f[k - 1] + DigitOf(s[k])
    BY <2>1, Zenon DEF IsPrefixValue
  <2>3. \A k \in 0 .. n + 1 : g[k] = IF k = 0 THEN 0 ELSE 10 * g[k - 1] + DigitOf(s[k])
    BY <2>2
  <2>4. IsPrefixValue(g, s, n + 1)
    <3>1. g = [k \in 0 .. n + 1 |-> g[k]]
      BY Zenon
    <3> HIDE DEF g
    <3> QED
      BY <2>3, <3>1, Zenon DEF IsPrefixValue
  <2>5. n + 1 \in Nat
    OBVIOUS
  <2> QED
    BY <2>4, <2>5, Zenon
<1> HIDE DEF S
<1>3. \A n \in Nat : n \in S
  BY <1>1, <1>2, Stepwise, Zenon
<1> QED
  BY <1>3, Zenon DEF S

\* The number of a prefix depends on its digits only.
LEMMA PrefixValueUnique ==
  ASSUME NEW s, NEW t, NEW m \in Nat, NEW n \in Nat, m <= n,
         NEW f, NEW g, IsPrefixValue(f, s, m), IsPrefixValue(g, t, n),
         \A k \in 1 .. m : s[k] = t[k]
  PROVE  \A k \in 0 .. m : f[k] = g[k]
<1> DEFINE S == {k \in Nat : k <= m => f[k] = g[k]}
<1>1. \A k \in 0 .. m : f[k] = IF k = 0 THEN 0 ELSE 10 * f[k - 1] + DigitOf(s[k])
  BY Zenon DEF IsPrefixValue
<1>2. \A k \in 0 .. n : g[k] = IF k = 0 THEN 0 ELSE 10 * g[k - 1] + DigitOf(t[k])
  BY Zenon DEF IsPrefixValue
<1>3. 0 \in S
  BY <1>1, <1>2
<1>4. ASSUME NEW k \in Nat, k \in S PROVE k + 1 \in S
  <2>1. k + 1 \in Nat
    OBVIOUS
  <2>2. ASSUME k + 1 <= m PROVE f[k + 1] = g[k + 1]
    <3>1. /\ f[k + 1] = 10 * f[k] + DigitOf(s[k + 1])
          /\ g[k + 1] = 10 * g[k] + DigitOf(t[k + 1])
      BY <1>1, <1>2, <2>2
    <3>2. k <= m /\ k + 1 \in 1 .. m
      BY <2>2
    <3>3. f[k] = g[k] /\ s[k + 1] = t[k + 1]
      BY <1>4, <3>2, Zenon
    <3> QED
      BY <3>1, <3>3, Zenon
  <2> QED
    BY <2>1, <2>2, Zenon
<1> HIDE DEF S
<1>5. \A k \in Nat : k \in S
  BY <1>3, <1>4, Stepwise, Zenon
<1>6. ASSUME NEW k \in 0 .. m PROVE f[k] = g[k]
  <2>1. k \in Nat /\ k <= m
    OBVIOUS
  <2> QED
    BY <1>5, <2>1, Zenon DEF S
<1> QED
  BY <1>6, Zenon

\* What Decimal is.
LEMMA DecimalOf ==
  ASSUME NEW s, Len(s) \in Nat
  PROVE  \E f : IsPrefixValue(f, s, Len(s)) /\ Decimal(s) = f[Len(s)]
<1> DEFINE f == CHOOSE f : IsPrefixValue(f, s, Len(s))
<1>1. IsPrefixValue(f, s, Len(s))
  BY PrefixValueExists, Zenon
<1>2. Decimal(s) = f[Len(s)]
  BY Zenon DEF Decimal, IsPrefixValue
<1> HIDE DEF f
<1> QED
  BY <1>1, <1>2, Zenon

\* A digit stands for a number from 0 to 9.
LEMMA DigitFacts ==
  /\ \A c : IsDigit(c) => DigitOf(c) \in 0 .. 9
  /\ \A d \in 0 .. 9 : IsDigit(Digits[d + 1]) /\ DigitOf(Digits[d + 1]) = d
<1>1. ASSUME NEW c, IsDigit(c) PROVE DigitOf(c) \in 0 .. 9
  <2>1. PICK d \in 1 .. 10 : c = Digits[d]
    BY <1>1, Zenon DEF IsDigit
  <2>2. d - 1 \in 0 .. 9 /\ Digits[(d - 1) + 1] = c
    BY <2>1
  <2>3. \E e \in 0 .. 9 : Digits[e + 1] = c
    BY <2>2, Zenon
  <2> QED
    BY <2>3, Zenon DEF DigitOf
<1>2. ASSUME NEW d \in 0 .. 9
      PROVE  IsDigit(Digits[d + 1]) /\ DigitOf(Digits[d + 1]) = d
  <2>1. d + 1 \in 1 .. 10
    OBVIOUS
  <2>2. IsDigit(Digits[d + 1])
    BY <2>1, Zenon DEF IsDigit
  <2>3. \A e \in 0 .. 9 : Digits[e + 1] = Digits[d + 1] => e = d
    BY DEF Digits
  <2>4. DigitOf(Digits[d + 1]) \in 0 .. 9 /\ Digits[DigitOf(Digits[d + 1]) + 1] = Digits[d + 1]
    BY Zenon DEF DigitOf
  <2> QED
    BY <2>2, <2>3, <2>4, Zenon
<1> QED
  BY <1>1, <1>2, Zenon

\* A numeral stands for a natural number.
LEMMA DecimalType ==
  ASSUME NEW s, Len(s) \in Nat, \A k \in 1 .. Len(s) : IsDigit(s[k])
  PROVE  Decimal(s) \in Nat
<1>1. PICK f : IsPrefixValue(f, s, Len(s)) /\ Decimal(s) = f[Len(s)]
  BY DecimalOf, Zenon
<1> DEFINE S == {k \in Nat : k <= Len(s) => f[k] \in Nat}
<1>2. \A k \in 0 .. Len(s) : f[k] = IF k = 0 THEN 0 ELSE 10 * f[k - 1] + DigitOf(s[k])
  BY <1>1, Zenon DEF IsPrefixValue
<1>3. 0 \in S
  BY <1>2
<1>4. ASSUME NEW k \in Nat, k \in S PROVE k + 1 \in S
  <2>1. k + 1 \in Nat
    OBVIOUS
  <2>2. ASSUME k + 1 <= Len(s) PROVE f[k + 1] \in Nat
    <3>1. f[k + 1] = 10 * f[k] + DigitOf(s[k + 1]) /\ k <= Len(s) /\ k + 1 \in 1 .. Len(s)
      BY <1>2, <2>2
    <3>2. PICK a \in Nat, b \in 0 .. 9 : a = f[k] /\ b = DigitOf(s[k + 1])
      BY <1>4, <3>1, DigitFacts, Zenon
    <3>3. 10 * a + b \in Nat
      OBVIOUS
    <3> QED
      BY <3>1, <3>2, <3>3, Zenon
  <2> QED
    BY <2>1, <2>2, Zenon
<1> HIDE DEF S
<1>5. \A k \in Nat : k \in S
  BY <1>3, <1>4, Stepwise, Zenon
<1>6. Len(s) <= Len(s)
  OBVIOUS
<1> QED
  BY <1>1, <1>5, <1>6, Zenon DEF S

-----------------------------------------------------------------------------
(* Parts of texts *)

\* r is the part of s from a to z.
IsPart(r, S, s, a, z) ==
  /\ r \in Seq(S)
  /\ Len(r) = z - a + 1
  /\ \A k \in 1 .. z - a + 1 : r[k] = s[a + k - 1]

\* substr gives the characters from a to z.
LEMMA PartFacts ==
  ASSUME NEW S, NEW s \in Seq(S), NEW a \in 1 .. Len(s) + 1, NEW z \in a - 1 .. Len(s)
  PROVE  IsPart(SubSeq(s, a, z), S, s, a, z)
<1>1. a \in Int /\ z \in Int /\ \A k \in a .. z : k \in 1 .. Len(s)
  OBVIOUS
<1>2. \A k \in a .. z : s[k] \in S
  BY <1>1, ElementOfSeq, Zenon
<1>3. /\ SubSeq(s, a, z) \in Seq(S)
      /\ Len(SubSeq(s, a, z)) = IF a <= z THEN z - a + 1 ELSE 0
      /\ \A k \in 1 .. z - a + 1 : SubSeq(s, a, z)[k] = s[a + k - 1]
  BY <1>1, <1>2, SubSeqProperties
<1>4. (IF a <= z THEN z - a + 1 ELSE 0) = z - a + 1
  OBVIOUS
<1> QED
  BY <1>3, <1>4, Zenon DEF IsPart

\* There is one part from a to z.
LEMMA PartUnique ==
  ASSUME NEW S, NEW s, NEW a \in Int, NEW z \in Int, NEW q, NEW r,
         IsPart(q, S, s, a, z), IsPart(r, S, s, a, z)
  PROVE  q = r
<1>1. /\ q \in Seq(S) /\ r \in Seq(S) /\ Len(q) = Len(r)
      /\ \A k \in 1 .. Len(q) : q[k] = r[k]
  BY Zenon DEF IsPart
<1> QED
  BY <1>1, SeqEqual, Zenon

\* A part of a part is a part.
LEMMA PartOfPart ==
  ASSUME NEW S, NEW s \in Seq(S), NEW a \in 1 .. Len(s) + 1, NEW z \in a - 1 .. Len(s),
         NEW p \in 1 .. z - a + 2, NEW q \in p - 1 .. z - a + 1
  PROVE  SubSeq(SubSeq(s, a, z), p, q) = SubSeq(s, a + p - 1, a + q - 1)
<1> DEFINE t == SubSeq(s, a, z)
           b == a + p - 1
           y == a + q - 1
<1>1. IsPart(t, S, s, a, z)
  BY PartFacts, Zenon
<1> HIDE DEF t
<1>2. t \in Seq(S) /\ Len(t) = z - a + 1 /\ \A k \in 1 .. z - a + 1 : t[k] = s[a + k - 1]
  BY <1>1, Zenon DEF IsPart
<1>3. p \in 1 .. Len(t) + 1 /\ q \in p - 1 .. Len(t)
  BY <1>2
<1>4. IsPart(SubSeq(t, p, q), S, t, p, q)
  BY <1>2, <1>3, PartFacts, Zenon
<1>5. b \in 1 .. Len(s) + 1 /\ y \in b - 1 .. Len(s) /\ b \in Int /\ y \in Int
  OBVIOUS
<1>6. IsPart(SubSeq(s, b, y), S, s, b, y)
  BY <1>5, PartFacts, Zenon
<1>7. IsPart(SubSeq(t, p, q), S, s, b, y)
  <2>1. q - p + 1 = y - b + 1
    OBVIOUS
  <2>2. ASSUME NEW k \in 1 .. y - b + 1 PROVE SubSeq(t, p, q)[k] = s[b + k - 1]
    <3>1. k \in 1 .. q - p + 1 /\ p + k - 1 \in 1 .. z - a + 1 /\ a + (p + k - 1) - 1 = b + k - 1
      OBVIOUS
    <3>2. SubSeq(t, p, q)[k] = t[p + k - 1]
      BY <1>4, <3>1, Zenon DEF IsPart
    <3>3. t[p + k - 1] = s[a + (p + k - 1) - 1]
      BY <1>2, <3>1, Zenon
    <3> QED
      BY <3>1, <3>2, <3>3, Zenon
  <2> QED
    BY <1>4, <2>1, <2>2, Zenon DEF IsPart
<1> HIDE DEF b, y
<1>8. SubSeq(t, p, q) = SubSeq(s, b, y)
  BY <1>5, <1>6, <1>7, PartUnique, Zenon
<1> QED
  BY <1>8, Zenon DEF t, b, y

\* A part of a text is a text.
LEMMA PartIsText ==
  ASSUME NEW t \in Texts, NEW a \in 1 .. Len(t) + 1, NEW z \in a - 1 .. Len(t)
  PROVE  SubSeq(t, a, z) \in Texts /\ Len(SubSeq(t, a, z)) = z - a + 1
<1>1. t \in Seq(Chars) /\ Len(t) <= LongMax
  BY Zenon DEF Texts
<1>2. IsPart(SubSeq(t, a, z), Chars, t, a, z)
  BY <1>1, PartFacts, Zenon
<1>3. SubSeq(t, a, z) \in Seq(Chars) /\ Len(SubSeq(t, a, z)) = z - a + 1
  BY <1>2, Zenon DEF IsPart
<1>4. LongMax \in Nat /\ Len(t) \in Nat
  BY <1>1, LongAssumption, LenProperties, Zenon
<1>5. z - a + 1 <= LongMax
  BY <1>1, <1>4
<1> QED
  BY <1>3, <1>5, Zenon DEF Texts

-----------------------------------------------------------------------------
(* The grammar *)

\* x is a value followed by items, and t their texts.
IsItems(g, t, x) ==
  \E k \in 1 .. Len(t) :
    \E v \in g[<<"value", SubSeq(t, 1, k)>>] :
      \E vs \in g[<<"items", SubSeq(t, k + 1, Len(t))>>] : x = <<v>> \o vs

\* x is a key and a value followed by pairs, and t their texts.
IsPairs(g, t, x) ==
  \E j \in 1 .. Len(t) :
    \E u \in StringsOf(SubSeq(t, 1, j)) :
      \E k \in j + 1 .. Len(t) :
        \E v \in g[<<"value", SubSeq(t, j + 1, k)>>] :
          \E ps \in g[<<"pairs", SubSeq(t, k + 1, Len(t))>>] : x = <<<<u[2], v>>>> \o ps

\* x is the list that t is the text of.
IsList(g, t, x) ==
  Framed(t, "l") /\ \E vs \in g[<<"items", Inner(t)>>] : x = <<"List", vs>>

\* x is the dictionary that t is the text of.
IsDict(g, t, x) ==
  Framed(t, "d") /\ \E ps \in g[<<"pairs", Inner(t)>>] :
                      Ascending(KeysOf(ps)) /\ x = <<"Dict", DictOf(ps)>>

\* A list of items is empty, or a value in front of a list of items.
LEMMA ItemsIn ==
  ASSUME NEW g, NEW t, NEW x
  PROVE  /\ t = <<>> => (x \in ItemsOf(g, t) <=> x = <<>>)
         /\ t # <<>> => (x \in ItemsOf(g, t) <=> IsItems(g, t, x))
<1>1. CASE t = <<>>
  BY <1>1, Zenon DEF ItemsOf
<1>2. CASE t # <<>>
  <2> DEFINE Vs(k) == g[<<"value", SubSeq(t, 1, k)>>]
             Is(k) == g[<<"items", SubSeq(t, k + 1, Len(t))>>]
             A(k, v) == {<<v>> \o vs : vs \in Is(k)}
             B(k) == UNION {A(k, v) : v \in Vs(k)}
  <2>1. \A k, v : x \in A(k, v) <=> \E vs \in Is(k) : x = <<v>> \o vs
    BY Zenon
  <2>2. \A k : x \in B(k) <=> \E v \in Vs(k) : x \in A(k, v)
    BY Zenon
  <2>3. ItemsOf(g, t) = UNION {B(k) : k \in 1 .. Len(t)}
    BY <1>2, Zenon DEF ItemsOf
  <2> HIDE DEF A, B
  <2>4. x \in ItemsOf(g, t) <=> \E k \in 1 .. Len(t) : x \in B(k)
    BY <2>3, Zenon
  <2> HIDE DEF Vs, Is
  <2>5. x \in ItemsOf(g, t) <=>
          \E k \in 1 .. Len(t) : \E v \in Vs(k) : \E vs \in Is(k) : x = <<v>> \o vs
    BY <2>1, <2>2, <2>4, Zenon
  <2> QED
    BY <1>2, <2>5, Zenon DEF IsItems, Vs, Is
<1> QED
  BY <1>1, <1>2, Zenon

\* The same for pairs of a key and a value.
LEMMA PairsIn ==
  ASSUME NEW g, NEW t, NEW x
  PROVE  /\ t = <<>> => (x \in PairsOf(g, t) <=> x = <<>>)
         /\ t # <<>> => (x \in PairsOf(g, t) <=> IsPairs(g, t, x))
<1>1. CASE t = <<>>
  BY <1>1, Zenon DEF PairsOf
<1>2. CASE t # <<>>
  <2> DEFINE Us(j) == StringsOf(SubSeq(t, 1, j))
             Vs(j, k) == g[<<"value", SubSeq(t, j + 1, k)>>]
             Ps(k) == g[<<"pairs", SubSeq(t, k + 1, Len(t))>>]
             A(u, k, v) == {<<<<u[2], v>>>> \o ps : ps \in Ps(k)}
             B(j, u, k) == UNION {A(u, k, v) : v \in Vs(j, k)}
             C(j, u) == UNION {B(j, u, k) : k \in j + 1 .. Len(t)}
             D(j) == UNION {C(j, u) : u \in Us(j)}
  <2>1. \A u, k, v : x \in A(u, k, v) <=> \E ps \in Ps(k) : x = <<<<u[2], v>>>> \o ps
    BY Zenon
  <2>2. \A j, u, k : x \in B(j, u, k) <=> \E v \in Vs(j, k) : x \in A(u, k, v)
    BY Zenon
  <2>3. PairsOf(g, t) = UNION {D(j) : j \in 1 .. Len(t)}
    BY <1>2, Zenon DEF PairsOf
  <2> HIDE DEF A, B
  <2>4. \A j, u : x \in C(j, u) <=> \E k \in j + 1 .. Len(t) : x \in B(j, u, k)
    BY Zenon
  <2>5. \A j : x \in D(j) <=> \E u \in Us(j) : x \in C(j, u)
    BY Zenon
  <2> HIDE DEF C, D
  <2>6. x \in PairsOf(g, t) <=> \E j \in 1 .. Len(t) : x \in D(j)
    BY <2>3, Zenon
  <2> HIDE DEF Us, Vs, Ps
  <2>7. x \in PairsOf(g, t) <=>
          \E j \in 1 .. Len(t) : \E u \in Us(j) : \E k \in j + 1 .. Len(t) :
            \E v \in Vs(j, k) : \E ps \in Ps(k) : x = <<<<u[2], v>>>> \o ps
    <3>1. \A j, u, k : x \in B(j, u, k) <=>
            \E v \in Vs(j, k) : \E ps \in Ps(k) : x = <<<<u[2], v>>>> \o ps
      BY <2>1, <2>2, Zenon
    <3> DEFINE E(j, u) == \E k \in j + 1 .. Len(t) : \E v \in Vs(j, k) : \E ps \in Ps(k) :
                            x = <<<<u[2], v>>>> \o ps
    <3>2. \A j, u : x \in C(j, u) <=> E(j, u)
      BY <3>1, <2>4, Zenon
    <3> HIDE DEF E
    <3>3. x \in PairsOf(g, t) <=> \E j \in 1 .. Len(t) : \E u \in Us(j) : E(j, u)
      BY <3>2, <2>5, <2>6, Zenon
    <3> QED
      BY <3>3, Zenon DEF E
  <2> QED
    BY <1>2, <2>7, Zenon DEF IsPairs, Us, Vs, Ps
<1> QED
  BY <1>1, <1>2, Zenon

\* A value is an integer, a string, a list or a dictionary.
LEMMA ValuesIn ==
  ASSUME NEW g, NEW t, NEW x
  PROVE  x \in ValuesOf(g, t) <=>
           \/ x \in IntegersOf(t)
           \/ x \in StringsOf(t)
           \/ IsList(g, t, x)
           \/ IsDict(g, t, x)
BY Zenon DEF ValuesOf, IsList, IsDict

\* How much there is to be read for the meaning of a text as one of the kinds.
Measure(c) == 2 * Len(c[2]) + (IF c[1] = "value" THEN 0 ELSE 1)

\* The smaller parts of the text that the grammar refers to.
Agree(g, h, c) == \A d \in Kinds \X Texts : Measure(d) < Measure(c) => g[d] = h[d]

\* g is what the texts of at most the measure n denote.
IsGrammar(g, n) ==
  g = [c \in {c \in Kinds \X Texts : Measure(c) <= n} |-> DenotedBy(g, c)]

\* What the kinds of texts denote.
LEMMA DenotedAs ==
  \A t \in Texts :
    /\ Grammar[<<"value", t>>] = ValuesOf(Grammar, t)
    /\ Grammar[<<"items", t>>] = ItemsOf(Grammar, t)
    /\ Grammar[<<"pairs", t>>] = PairsOf(Grammar, t)

\* The items of a text depend on what its parts denote.
<1>ItemsFrame. ASSUME NEW g, NEW h, NEW t,
                      \A k \in 1 .. Len(t) : g[<<"value", SubSeq(t, 1, k)>>] = h[<<"value", SubSeq(t, 1, k)>>],
                      \A k \in 1 .. Len(t) : g[<<"items", SubSeq(t, k + 1, Len(t))>>]
                                               = h[<<"items", SubSeq(t, k + 1, Len(t))>>]
               PROVE  ItemsOf(g, t) \subseteq ItemsOf(h, t)
  <2> USE <1>ItemsFrame
  <2>1. SUFFICES ASSUME NEW x \in ItemsOf(g, t) PROVE x \in ItemsOf(h, t)
    BY Zenon
  <2>2. CASE t = <<>>
    BY <2>2, ItemsIn, Zenon
  <2>3. CASE t # <<>>
    <3>1. PICK k \in 1 .. Len(t) :
            \E v \in g[<<"value", SubSeq(t, 1, k)>>] :
              \E vs \in g[<<"items", SubSeq(t, k + 1, Len(t))>>] : x = <<v>> \o vs
      <4>1. IsItems(g, t, x)
        BY <2>1, <2>3, ItemsIn, Zenon
      <4> QED
        BY <4>1, Zenon DEF IsItems
    <3>2. PICK v \in h[<<"value", SubSeq(t, 1, k)>>],
               vs \in h[<<"items", SubSeq(t, k + 1, Len(t))>>] : x = <<v>> \o vs
      BY <3>1, Zenon
    <3> QED
      BY <2>3, <3>2, ItemsIn, Zenon DEF IsItems
  <2> QED
    BY <2>2, <2>3, Zenon

\* The same for pairs.
<1>PairsFrame. ASSUME NEW g, NEW h, NEW t,
                      \A j \in 1 .. Len(t) : \A k \in j + 1 .. Len(t) :
                        /\ g[<<"value", SubSeq(t, j + 1, k)>>] = h[<<"value", SubSeq(t, j + 1, k)>>]
                        /\ g[<<"pairs", SubSeq(t, k + 1, Len(t))>>] = h[<<"pairs", SubSeq(t, k + 1, Len(t))>>]
               PROVE  PairsOf(g, t) \subseteq PairsOf(h, t)
  <2> USE <1>PairsFrame
  <2>1. SUFFICES ASSUME NEW x \in PairsOf(g, t) PROVE x \in PairsOf(h, t)
    BY Zenon
  <2>2. CASE t = <<>>
    BY <2>2, PairsIn, Zenon
  <2>3. CASE t # <<>>
    <3>1. PICK j \in 1 .. Len(t) :
            \E u \in StringsOf(SubSeq(t, 1, j)) :
              \E k \in j + 1 .. Len(t) :
                \E v \in g[<<"value", SubSeq(t, j + 1, k)>>] :
                  \E ps \in g[<<"pairs", SubSeq(t, k + 1, Len(t))>>] :
                    x = <<<<u[2], v>>>> \o ps
      <4>1. IsPairs(g, t, x)
        BY <2>1, <2>3, PairsIn, Zenon
      <4> QED
        BY <4>1, Zenon DEF IsPairs
    <3>2. PICK u \in StringsOf(SubSeq(t, 1, j)), k \in j + 1 .. Len(t) :
            \E v \in g[<<"value", SubSeq(t, j + 1, k)>>] :
              \E ps \in g[<<"pairs", SubSeq(t, k + 1, Len(t))>>] :
                x = <<<<u[2], v>>>> \o ps
      BY <3>1, Zenon
    <3>3. PICK v \in h[<<"value", SubSeq(t, j + 1, k)>>],
               ps \in h[<<"pairs", SubSeq(t, k + 1, Len(t))>>] : x = <<<<u[2], v>>>> \o ps
      BY <3>2, Zenon
    <3> QED
      BY <2>3, <3>3, PairsIn, Zenon DEF IsPairs
  <2> QED
    BY <2>2, <2>3, Zenon

\* The same for values.
<1>ValuesFrame. ASSUME NEW g, NEW h, NEW t,
                       Len(t) > 1 => /\ g[<<"items", Inner(t)>>] = h[<<"items", Inner(t)>>]
                                     /\ g[<<"pairs", Inner(t)>>] = h[<<"pairs", Inner(t)>>]
                PROVE  ValuesOf(g, t) \subseteq ValuesOf(h, t)
  <2> USE <1>ValuesFrame
  <2>1. SUFFICES ASSUME NEW x \in ValuesOf(g, t) PROVE x \in ValuesOf(h, t)
    BY Zenon
  <2>2. \A f : Framed(t, f) => Len(t) > 1
    BY Zenon DEF Framed
  <2>3. CASE x \in IntegersOf(t) \/ x \in StringsOf(t)
    BY <2>3, ValuesIn, Zenon
  <2>4. CASE IsList(g, t, x)
    <3>1. IsList(h, t, x)
      BY <2>2, <2>4, Zenon DEF IsList
    <3> QED
      BY <3>1, ValuesIn, Zenon
  <2>5. CASE IsDict(g, t, x)
    <3>1. IsDict(h, t, x)
      BY <2>2, <2>5, Zenon DEF IsDict
    <3> QED
      BY <3>1, ValuesIn, Zenon
  <2> QED
    BY <2>3, <2>4, <2>5, ValuesIn, Zenon

\* What a text denotes depends on what its parts denote.
<1>GrammarFrame. ASSUME NEW c \in Kinds \X Texts, NEW g, NEW h, Agree(g, h, c)
                 PROVE  DenotedBy(g, c) = DenotedBy(h, c)
  <2> USE <1>GrammarFrame
  <2>1. PICK kind \in Kinds, t \in Texts : c = <<kind, t>>
    OBVIOUS
  <2>2. c[1] = kind /\ c[2] = t
    BY <2>1
  <2>3. t \in Seq(Chars) /\ Len(t) \in Nat
    BY LenProperties, Zenon DEF Texts
  <2>4. ASSUME NEW k \in Kinds, NEW u \in Texts,
               \/ Len(u) < Len(t) /\ (k = "value" \/ kind # "value" \/ Len(u) + 1 < Len(t))
               \/ Len(u) = Len(t) /\ k = "value" /\ kind # "value"
        PROVE  g[<<k, u>>] = h[<<k, u>>]
    <3>1. Len(u) \in Nat
      BY LenProperties, Zenon DEF Texts
    <3>2. <<k, u>> \in Kinds \X Texts
      OBVIOUS
    <3>3. /\ Measure(<<k, u>>) = 2 * Len(u) + (IF k = "value" THEN 0 ELSE 1)
          /\ Measure(c) = 2 * Len(t) + (IF kind = "value" THEN 0 ELSE 1)
      BY <2>2 DEF Measure
    <3>4. Measure(<<k, u>>) < Measure(c)
      BY <2>3, <2>4, <3>1, <3>3
    <3> QED
      BY <3>2, <3>4, Zenon DEF Agree
  <2>5. "value" \in Kinds /\ "items" \in Kinds /\ "pairs" \in Kinds
    BY DEF Kinds
  <2>6. CASE kind = "value"
    <3>1. ASSUME Len(t) > 1
          PROVE  /\ g[<<"items", Inner(t)>>] = h[<<"items", Inner(t)>>]
                 /\ g[<<"pairs", Inner(t)>>] = h[<<"pairs", Inner(t)>>]
      <4>1. 2 \in 1 .. Len(t) + 1 /\ Len(t) - 1 \in 2 - 1 .. Len(t)
        BY <2>3, <3>1
      <4>2. Inner(t) \in Texts /\ Len(Inner(t)) = (Len(t) - 1) - 2 + 1
        BY <4>1, PartIsText, Zenon DEF Inner
      <4>3. Len(Inner(t)) < Len(t) /\ Len(Inner(t)) + 1 < Len(t)
        BY <2>3, <4>2
      <4> QED
        BY <2>4, <2>5, <4>2, <4>3, Zenon
    <3>2. ValuesOf(g, t) \subseteq ValuesOf(h, t) /\ ValuesOf(h, t) \subseteq ValuesOf(g, t)
      BY <3>1, <1>ValuesFrame, Zenon
    <3>3. ValuesOf(g, t) = ValuesOf(h, t)
      BY <3>2, Zenon
    <3> QED
      BY <2>2, <2>6, <3>3, Zenon DEF DenotedBy
  <2>7. ASSUME NEW k \in 1 .. Len(t), kind # "value"
        PROVE  /\ g[<<"items", SubSeq(t, k + 1, Len(t))>>] = h[<<"items", SubSeq(t, k + 1, Len(t))>>]
               /\ g[<<"pairs", SubSeq(t, k + 1, Len(t))>>] = h[<<"pairs", SubSeq(t, k + 1, Len(t))>>]
    <3>1. k + 1 \in 1 .. Len(t) + 1 /\ Len(t) \in (k + 1) - 1 .. Len(t)
      BY <2>3
    <3>2. SubSeq(t, k + 1, Len(t)) \in Texts /\ Len(SubSeq(t, k + 1, Len(t))) = Len(t) - (k + 1) + 1
      BY <3>1, PartIsText, Zenon
    <3>3. Len(SubSeq(t, k + 1, Len(t))) < Len(t)
      BY <2>3, <3>2
    <3> QED
      BY <2>4, <2>5, <2>7, <3>2, <3>3, Zenon
  <2>8. ASSUME NEW j \in 0 .. Len(t), NEW k \in j + 1 .. Len(t), kind # "value"
        PROVE  g[<<"value", SubSeq(t, j + 1, k)>>] = h[<<"value", SubSeq(t, j + 1, k)>>]
    <3>1. j + 1 \in 1 .. Len(t) + 1 /\ k \in (j + 1) - 1 .. Len(t)
      BY <2>3
    <3>2. SubSeq(t, j + 1, k) \in Texts /\ Len(SubSeq(t, j + 1, k)) = k - (j + 1) + 1
      BY <3>1, PartIsText, Zenon
    <3>3. Len(SubSeq(t, j + 1, k)) < Len(t) \/ Len(SubSeq(t, j + 1, k)) = Len(t)
      BY <2>3, <3>2
    <3> QED
      BY <2>4, <2>5, <2>8, <3>2, <3>3, Zenon
  <2>9. CASE kind = "items"
    <3>1. kind # "value"
      BY <2>9
    <3>2. ASSUME NEW k \in 1 .. Len(t)
          PROVE  g[<<"value", SubSeq(t, 1, k)>>] = h[<<"value", SubSeq(t, 1, k)>>]
      <4>1. 0 \in 0 .. Len(t) /\ k \in 0 + 1 .. Len(t) /\ 0 + 1 = 1
        BY <2>3
      <4>2. g[<<"value", SubSeq(t, 0 + 1, k)>>] = h[<<"value", SubSeq(t, 0 + 1, k)>>]
        BY <2>8, <3>1, <4>1, Zenon
      <4> QED
        BY <4>1, <4>2, Zenon
    <3>3. ItemsOf(g, t) \subseteq ItemsOf(h, t) /\ ItemsOf(h, t) \subseteq ItemsOf(g, t)
      BY <2>7, <3>1, <3>2, <1>ItemsFrame, Zenon
    <3>4. ItemsOf(g, t) = ItemsOf(h, t)
      BY <3>3, Zenon
    <3> QED
      BY <2>2, <2>9, <3>1, <3>4, Zenon DEF DenotedBy
  <2>10. CASE kind = "pairs"
    <3>1. kind # "value" /\ kind # "items"
      BY <2>10
    <3>2. \A j \in 1 .. Len(t) : j \in 0 .. Len(t) /\ \A k \in j + 1 .. Len(t) : k \in 1 .. Len(t)
      BY <2>3
    <3>3. PairsOf(g, t) \subseteq PairsOf(h, t) /\ PairsOf(h, t) \subseteq PairsOf(g, t)
      BY <2>7, <2>8, <3>1, <3>2, <1>PairsFrame, Zenon
    <3>4. PairsOf(g, t) = PairsOf(h, t)
      BY <3>3, Zenon
    <3> QED
      BY <2>2, <3>1, <3>4, Zenon DEF DenotedBy
  <2> QED
    BY <2>6, <2>9, <2>10, Zenon DEF Kinds

\* What a text denotes is well defined: the grammar refers to smaller texts.
<1>GrammarExists. \A n \in Nat : \E g : IsGrammar(g, n)
  <2> DEFINE S == {n \in Nat : \E g : IsGrammar(g, n)}
             Upto(n) == {c \in Kinds \X Texts : Measure(c) <= n}
  <2>1. \A c \in Kinds \X Texts : Measure(c) \in Nat
    <3>1. \A t \in Texts : Len(t) \in Nat
      BY LenProperties, Zenon DEF Texts
    <3>2. \A k \in Kinds, t \in Texts : Measure(<<k, t>>) \in Nat
      BY <3>1 DEF Measure
    <3> QED
      BY <3>2
  <2>2. ASSUME NEW g, NEW n \in Nat, NEW d,
               d = [c \in Upto(n) |-> DenotedBy(g, c)],
               \A c \in Kinds \X Texts : Measure(c) < n => g[c] = DenotedBy(g, c)
        PROVE  IsGrammar(d, n)
    <3>1. ASSUME NEW c \in Upto(n) PROVE DenotedBy(g, c) = DenotedBy(d, c)
      <4>1. ASSUME NEW e \in Kinds \X Texts, Measure(e) < Measure(c)
            PROVE  g[e] = d[e]
        <5>1. Measure(e) < n /\ Measure(e) <= n
          BY <2>1, <4>1
        <5>2. d[e] = DenotedBy(g, e)
          BY <2>2, <5>1, Zenon
        <5> QED
          BY <2>2, <5>1, <5>2, Zenon
      <4>2. Agree(g, d, c)
        BY <4>1, Zenon DEF Agree
      <4> QED
        BY <4>2, <1>GrammarFrame, Zenon
    <3>2. d = [c \in Upto(n) |-> DenotedBy(d, c)]
      BY <2>2, <3>1, Zenon
    <3> QED
      BY <3>2, Zenon DEF IsGrammar
  <2>3. 0 \in S
    <3>1. \A c \in Kinds \X Texts : ~ (Measure(c) < 0)
      BY <2>1
    <3>2. IsGrammar([c \in Upto(0) |-> DenotedBy(<<>>, c)], 0)
      BY <2>2, <3>1, Zenon
    <3> QED
      BY <3>2, Zenon
  <2>4. ASSUME NEW n \in Nat, n \in S PROVE n + 1 \in S
    <3>1. n + 1 \in Nat
      OBVIOUS
    <3>2. PICK g : IsGrammar(g, n)
      BY <2>4, Zenon
    <3>3. ASSUME NEW c \in Kinds \X Texts, Measure(c) < n + 1
          PROVE  g[c] = DenotedBy(g, c)
      <4>1. Measure(c) <= n
        BY <2>1, <3>3
      <4> QED
        BY <3>2, <4>1, Zenon DEF IsGrammar
    <3>4. IsGrammar([c \in Upto(n + 1) |-> DenotedBy(g, c)], n + 1)
      BY <2>2, <3>1, <3>3, Zenon
    <3> QED
      BY <3>1, <3>4, Zenon
  <2> HIDE DEF S
  <2>5. \A n \in Nat : n \in S
    BY <2>3, <2>4, Stepwise, Zenon
  <2> QED
    BY <2>5, Zenon DEF S

\* The equation of the grammar.
<1>GrammarEquation. \A c \in Kinds \X Texts : Grammar[c] = DenotedBy(Grammar, c)
  <2> DEFINE n == 2 * LongMax + 1
             Is(g) == g = [c \in Kinds \X Texts |-> DenotedBy(g, c)]
  <2>1. n \in Nat
    BY LongAssumption
  <2>2. \A c \in Kinds \X Texts : Measure(c) <= n
    <3>1. \A t \in Texts : Len(t) \in Nat /\ Len(t) <= LongMax
      BY LenProperties, Zenon DEF Texts
    <3>2. \A k \in Kinds, t \in Texts : Measure(<<k, t>>) <= n
      BY <3>1, LongAssumption DEF Measure
    <3> QED
      BY <3>2
  <2> HIDE DEF n
  <2>3. PICK g : IsGrammar(g, n)
    BY <2>1, <1>GrammarExists, Zenon
  <2>4. {c \in Kinds \X Texts : Measure(c) <= n} = Kinds \X Texts
    BY <2>2, Zenon
  <2>5. Is(g)
    BY <2>3, <2>4, Zenon DEF IsGrammar
  <2>6. Grammar = CHOOSE h : Is(h)
    BY Zenon DEF Grammar
  <2> HIDE DEF Is
  <2>7. Is(Grammar)
    BY <2>5, <2>6, Zenon
  <2> QED
    BY <2>7, Zenon DEF Is

<1> SUFFICES ASSUME NEW t \in Texts
             PROVE  /\ Grammar[<<"value", t>>] = ValuesOf(Grammar, t)
                    /\ Grammar[<<"items", t>>] = ItemsOf(Grammar, t)
                    /\ Grammar[<<"pairs", t>>] = PairsOf(Grammar, t)
  BY Zenon
<1>1. "value" \in Kinds /\ "items" \in Kinds /\ "pairs" \in Kinds
  BY DEF Kinds
<1>2. \A k \in Kinds : Grammar[<<k, t>>] = DenotedBy(Grammar, <<k, t>>)
  BY <1>GrammarEquation, Zenon
<1>3. /\ DenotedBy(Grammar, <<"value", t>>) = ValuesOf(Grammar, t)
      /\ DenotedBy(Grammar, <<"items", t>>) = ItemsOf(Grammar, t)
      /\ DenotedBy(Grammar, <<"pairs", t>>) = PairsOf(Grammar, t)
  BY DEF DenotedBy
<1> QED
  BY <1>1, <1>2, <1>3, Zenon

-----------------------------------------------------------------------------
(* The parser *)

\* A result is valid or an error.
LEMMA ResultFacts ==
  /\ \A v, i : Ok(v, i).valid /\ Ok(v, i).value = v /\ Ok(v, i).index = i
  /\ \A e : ~Fail(e).valid
BY DEF Ok, Fail

\* find gives the first place of a character.
LEMMA FindFacts ==
  ASSUME NEW text, Len(text) \in Nat, NEW c, NEW i \in 1 .. Len(text) + 1
  PROVE  /\ Find(text, i, c) \in i .. Len(text) + 1
         /\ Find(text, i, c) <= Len(text) => text[Find(text, i, c)] = c
         /\ \A k \in i .. Find(text, i, c) - 1 : text[k] # c
<1> DEFINE at == {k \in i .. Len(text) : text[k] = c}
           n == CHOOSE k \in at : \A j \in at : k <= j
<1>1. CASE at = {}
  <2>1. Find(text, i, c) = Len(text) + 1
    BY <1>1, Zenon DEF Find
  <2> QED
    BY <1>1, <2>1
<1>2. CASE at # {}
  <2>1. Find(text, i, c) = n
    BY <1>2, Zenon DEF Find
  <2>2. at \subseteq Nat
    OBVIOUS
  <2>3. \E k \in at : \A j \in at : k <= j
    BY <1>2, <2>2, LeastOf, Zenon
  <2>4. n \in at /\ \A j \in at : n <= j
    BY <2>3, Zenon
  <2> HIDE DEF n
  <2> QED
    BY <2>1, <2>4
<1> QED
  BY <1>1, <1>2, Zenon

\* A place of the character with none before it is what find gives.
LEMMA FindIs ==
  ASSUME NEW text, Len(text) \in Nat, NEW c, NEW i \in 1 .. Len(text) + 1,
         NEW j \in i .. Len(text), text[j] = c, \A k \in i .. j - 1 : text[k] # c
  PROVE  Find(text, i, c) = j
<1> DEFINE n == Find(text, i, c)
<1>1. /\ n \in i .. Len(text) + 1
      /\ n <= Len(text) => text[n] = c
      /\ \A k \in i .. n - 1 : text[k] # c
  BY FindFacts, Zenon
<1> HIDE DEF n
<1>2. n = j
  BY <1>1
<1> QED
  BY <1>2, Zenon DEF n

\* A valid result takes at least a character and leaves _index in reach.
Bounded(text, r, i) == r.valid => r.index \in i + 1 .. Len(text) + 2

\* Errors, and indices in reach.
LEMMA BoundedFacts ==
  ASSUME NEW text, NEW i
  PROVE  /\ \A e : Bounded(text, Fail(e), i)
         /\ \A v, n : n \in i + 1 .. Len(text) + 2 => Bounded(text, Ok(v, n), i)
<1>1. ASSUME NEW v, NEW n, n \in i + 1 .. Len(text) + 2 PROVE Bounded(text, Ok(v, n), i)
  <2>1. Ok(v, n).index = n
    BY ResultFacts, Zenon
  <2> QED
    BY <1>1, <2>1, Zenon DEF Bounded
<1> QED
  BY <1>1, ResultFacts, Zenon DEF Bounded

\* decode_int takes a part of the text.
LEMMA IntBounded ==
  ASSUME NEW text, Len(text) \in Nat, NEW i \in 1 .. Len(text) + 2
  PROVE  Bounded(text, DecodeInt(text, i), i)
<1> DEFINE e == Find(text, i + 1, "e")
           r == DecodeInt(text, i)
<1>1. SUFFICES ASSUME r.valid PROVE r.index \in i + 1 .. Len(text) + 2
  BY Zenon DEF Bounded
<1>2. ~ (Left(text, i) < 3) /\ ~ (e > Len(text)) /\ r.index = e + 1
  BY <1>1, ResultFacts, Zenon DEF DecodeInt
<1>3. i + 1 \in 1 .. Len(text) + 1
  BY <1>2 DEF Left
<1>4. e \in i + 1 .. Len(text) + 1
  BY <1>3, FindFacts, Zenon
<1> HIDE DEF e, r
<1> QED
  BY <1>2, <1>4

\* A numeral has digits only, and is not empty.
LEMMA NumeralFacts ==
  ASSUME NEW S, NEW s \in Seq(S)
  PROVE  /\ IsNumeral(s) <=> Len(s) > 0 /\ \A k \in 1 .. Len(s) : IsDigit(s[k])
         /\ IsNumeral(s) => Decimal(s) \in Nat
<1>1. Len(s) \in Nat /\ DOMAIN s = 1 .. Len(s)
  BY LenProperties, Zenon
<1>2. s # <<>> <=> Len(s) > 0
  <2>1. s # <<>> => Len(s) > 0
    BY EmptySeq
  <2>2. s = <<>> => ~ (Len(s) > 0)
    BY EmptySeq
  <2> QED
    BY <2>1, <2>2, Zenon
<1>3. IsNumeral(s) <=> Len(s) > 0 /\ \A k \in 1 .. Len(s) : IsDigit(s[k])
  BY <1>1, <1>2, Zenon DEF IsNumeral
<1> QED
  BY <1>1, <1>3, DecimalType, Zenon

\* What decode_string reads: the length n before the ":" at c, and then n
\* characters, or none behind the end of the text.
StringRead(text, i, c, n, v) ==
  /\ ~ (Left(text, i) < 3)
  /\ c \in i + 1 .. Len(text) + 1
  /\ n \in Nat
  /\ n <= LongMax
  /\ c = Find(text, i, ":")
  /\ IsNumeral(SubSeq(text, i, c - 1))
  /\ n = Decimal(SubSeq(text, i, c - 1))
  /\ \/ c + n <= Len(text) /\ v = SubSeq(text, c + 1, c + n)
     \/ c = Len(text) + 1 /\ n = 0

\* decode_string has read a string where it succeeds.
LEMMA StringOfResult ==
  ASSUME NEW text \in Seq(Chars), NEW i \in 1 .. Len(text) + 2, DecodeString(text, i).valid
  PROVE  \E c, n, v : /\ StringRead(text, i, c, n, v)
                      /\ DecodeString(text, i).value = <<"String", v>>
                      /\ DecodeString(text, i).index = c + 1 + n
<1> DEFINE c == Find(text, i, ":")
           len == SubSeq(text, i, c - 1)
           n == Decimal(len)
           z == IF c + n < Len(text) THEN c + n ELSE Len(text)
           str == SubSeq(text, c + 1, z)
           r == DecodeString(text, i)
<1>1. /\ ~ (Left(text, i) < 3)
      /\ IsNumeral(len)
      /\ ~ (n > LongMax)
      /\ ~ (Len(str) # n)
      /\ r.value = <<"String", str>>
      /\ r.index = c + 1 + Len(str)
  BY ResultFacts, Zenon DEF DecodeString
<1>2. Len(text) \in Nat
  BY LenProperties, Zenon
<1>3. i \in 1 .. Len(text) + 1 /\ i <= Len(text) - 2
  BY <1>1, <1>2 DEF Left
<1>4. c \in i .. Len(text) + 1
  BY <1>2, <1>3, FindFacts, Zenon
<1>5. c - 1 \in i - 1 .. Len(text)
  BY <1>2, <1>3, <1>4
<1>6. IsPart(len, Chars, text, i, c - 1)
  BY <1>3, <1>5, PartFacts, Zenon
<1> HIDE DEF r, str, z, n, len, c
<1>7. Len(len) = (c - 1) - i + 1 /\ Len(len) > 0 /\ n \in Nat
  BY <1>1, <1>6, NumeralFacts, Zenon DEF IsPart, n
<1>8. c \in i + 1 .. Len(text) + 1
  BY <1>4, <1>7
<1>9. n <= LongMax
  BY <1>1, <1>7, LongAssumption
<1>10. \/ c + n <= Len(text) /\ str = SubSeq(text, c + 1, c + n)
       \/ c = Len(text) + 1 /\ n = 0
  <2>1. CASE c = Len(text) + 1
    <3>1. z = Len(text) /\ c + 1 \in Int /\ Len(text) \in Int /\ Len(text) < c + 1
      BY <1>2, <1>7, <2>1 DEF z
    <3>2. str = <<>>
      BY <3>1, SubSeqEmpty, Zenon DEF str
    <3>3. n = 0
      BY <1>1, <3>2
    <3> QED
      BY <2>1, <3>3, Zenon
  <2>2. CASE c <= Len(text)
    <3>1. z \in c .. Len(text) /\ z = (IF c + n < Len(text) THEN c + n ELSE Len(text))
      BY <1>2, <1>7, <1>8, <2>2 DEF z
    <3>2. c + 1 \in 1 .. Len(text) + 1 /\ z \in (c + 1) - 1 .. Len(text)
      BY <1>2, <1>8, <2>2, <3>1
    <3>3. Len(str) = z - (c + 1) + 1
      BY <3>2, PartFacts, Zenon DEF IsPart, str
    <3>4. n = z - (c + 1) + 1
      BY <1>1, <3>3, Zenon
    <3>5. z = c + n /\ c + n <= Len(text)
      BY <1>2, <1>7, <1>8, <3>1, <3>4
    <3> QED
      BY <3>5, Zenon DEF str
  <2> QED
    BY <1>2, <1>8, <2>1, <2>2
<1>11. StringRead(text, i, c, n, str)
  BY <1>1, <1>7, <1>8, <1>9, <1>10, Zenon DEF StringRead, c, len, n
<1>12. r.index = c + 1 + n
  BY <1>1, Zenon
<1> QED
  BY <1>1, <1>11, <1>12, Zenon DEF r

\* decode_string succeeds where there is a string to read.
LEMMA ResultOfString ==
  ASSUME NEW text \in Seq(Chars), NEW i \in 1 .. Len(text) + 2,
         NEW c \in Nat, NEW n \in Nat, NEW v,
         StringRead(text, i, c, n, v), c <= Len(text)
  PROVE  DecodeString(text, i) = Ok(<<"String", v>>, c + 1 + n)
<1> DEFINE len == SubSeq(text, i, c - 1)
           z == IF c + n < Len(text) THEN c + n ELSE Len(text)
           str == SubSeq(text, c + 1, z)
<1>1. Len(text) \in Nat
  BY LenProperties, Zenon
<1>2. /\ ~ (Left(text, i) < 3)
      /\ c \in i + 1 .. Len(text) + 1
      /\ n \in Nat
      /\ n <= LongMax
      /\ c = Find(text, i, ":")
      /\ IsNumeral(len)
      /\ n = Decimal(len)
      /\ \/ c + n <= Len(text) /\ v = SubSeq(text, c + 1, c + n)
         \/ c = Len(text) + 1 /\ n = 0
  BY Zenon DEF StringRead
<1>3. c \in i + 1 .. Len(text) /\ n \in Nat /\ c # Len(text) + 1
  BY <1>1, <1>2
<1>4. c + n <= Len(text) /\ v = SubSeq(text, c + 1, c + n)
  BY <1>2, <1>3, Zenon
<1>5. z = c + n
  <2>1. c + n <= Len(text)
    BY <1>4
  <2> QED
    BY <1>1, <2>1
<1>6. c + 1 \in 1 .. Len(text) + 1 /\ c + n \in (c + 1) - 1 .. Len(text)
  BY <1>1, <1>3, <1>4
<1>7. Len(v) = (c + n) - (c + 1) + 1
  BY <1>4, <1>6, PartFacts, Zenon DEF IsPart
<1>8. (c + n) - (c + 1) + 1 = n /\ ~ (n > LongMax)
  <2>1. n <= LongMax
    BY <1>2
  <2> QED
    BY <2>1, LongAssumption
<1> HIDE DEF len, z
<1>9. Len(v) = n /\ str = v
  BY <1>4, <1>5, <1>7, <1>8, Zenon
<1> QED
  BY <1>2, <1>8, <1>9, Zenon DEF DecodeString, len, z

\* decode_string takes a part of the text.
LEMMA StringBounded ==
  ASSUME NEW text \in Seq(Chars), NEW i \in 1 .. Len(text) + 2
  PROVE  Bounded(text, DecodeString(text, i), i)
<1>1. SUFFICES ASSUME DecodeString(text, i).valid
               PROVE  DecodeString(text, i).index \in i + 1 .. Len(text) + 2
  BY Zenon DEF Bounded
<1>2. PICK c, n, v : /\ StringRead(text, i, c, n, v)
                     /\ DecodeString(text, i).index = c + 1 + n
  BY <1>1, StringOfResult, Zenon
<1>3. /\ c \in i + 1 .. Len(text) + 1
      /\ n \in Nat
      /\ c + n <= Len(text) \/ (c = Len(text) + 1 /\ n = 0)
  BY <1>2, Zenon DEF StringRead
<1>4. Len(text) \in Nat
  BY LenProperties, Zenon
<1>5. c + 1 + n \in i + 1 .. Len(text) + 2
  BY <1>3, <1>4
<1> QED
  BY <1>2, <1>5, Zenon

\* f and h have the same bounded results for the calls behind i.
Known(f, h, text, i) ==
  \A k \in Kinds, j \in i + 1 .. Len(text) + 2 :
    f[<<k, j>>] = h[<<k, j>>] /\ Bounded(text, f[<<k, j>>], j)

\* f has the results of the calls from i on.
IsParser(f, text, b, i) ==
  /\ f = [c \in Kinds \X (i .. Len(text) + 2) |-> DecodeCall(text, b, f, c)]
  /\ \A k \in Kinds, j \in i .. Len(text) + 2 : Bounded(text, f[<<k, j>>], j)

\* What the parser returns, call by call.
LEMMA ParserEquation ==
  \A text \in Seq(Chars) : \A b : \A i \in 1 .. Len(text) + 2 :
    /\ Parser(text, b)[<<"value", i>>] = DecodeValue(text, b, Parser(text, b), i)
    /\ Parser(text, b)[<<"items", i>>] = DecodeItems(text, Parser(text, b), i)
    /\ Parser(text, b)[<<"pairs", i>>] = DecodePairs(text, Parser(text, b), i)
    /\ \A k \in Kinds : Bounded(text, Parser(text, b)[<<k, i>>], i)

\* decode depends on calls behind its own place only, and its result is bounded.
<1>ValueFrame. ASSUME NEW text \in Seq(Chars), NEW b, NEW i \in 1 .. Len(text) + 2,
                      NEW f, NEW h, Known(f, h, text, i)
               PROVE  /\ DecodeValue(text, b, f, i) = DecodeValue(text, b, h, i)
                      /\ Bounded(text, DecodeValue(text, b, f, i), i)
  <2> USE <1>ValueFrame
  <2> DEFINE c == CharAt(text, b, i)
  <2>1. Len(text) \in Nat
    BY LenProperties, Zenon
  <2>2. /\ "i" # "l" /\ "i" # "d" /\ "l" # "d"
        /\ ~IsDigit("i") /\ ~IsDigit("l") /\ ~IsDigit("d")
    BY DEF IsDigit, Digits
  <2>3. CASE c = "i"
    <3>1. DecodeValue(text, b, f, i) = DecodeInt(text, i) /\ DecodeValue(text, b, h, i) = DecodeInt(text, i)
      BY <2>3, Zenon DEF DecodeValue
    <3> QED
      BY <2>1, <3>1, IntBounded, Zenon
  <2>4. CASE IsDigit(c)
    <3>1. /\ DecodeValue(text, b, f, i) = DecodeString(text, i)
          /\ DecodeValue(text, b, h, i) = DecodeString(text, i)
      BY <2>2, <2>4, Zenon DEF DecodeValue
    <3> QED
      BY <3>1, StringBounded, Zenon
  <2>5. ASSUME ~ (Left(text, i) < 2), NEW k \in Kinds
        PROVE  /\ f[<<k, i + 1>>] = h[<<k, i + 1>>]
               /\ f[<<k, i + 1>>].valid => f[<<k, i + 1>>].index \in i + 1 .. Len(text) + 2
    <3>1. i + 1 \in i + 1 .. Len(text) + 2
      BY <2>1, <2>5 DEF Left
    <3>2. f[<<k, i + 1>>] = h[<<k, i + 1>>] /\ Bounded(text, f[<<k, i + 1>>], i + 1)
      BY <3>1, Zenon DEF Known
    <3>3. \A n \in (i + 1) + 1 .. Len(text) + 2 : n \in i + 1 .. Len(text) + 2
      BY <2>1
    <3> QED
      BY <3>2, <3>3, Zenon DEF Bounded
  <2>6. "items" \in Kinds /\ "pairs" \in Kinds
    BY DEF Kinds
  <2>7. CASE c = "l"
    <3>1. DecodeValue(text, b, f, i) = DecodeList(text, f, i) /\ DecodeValue(text, b, h, i) = DecodeList(text, h, i)
      BY <2>2, <2>7, Zenon DEF DecodeValue
    <3>2. CASE Left(text, i) < 2
      BY <3>1, <3>2, ResultFacts, Zenon DEF DecodeList, Bounded
    <3>3. CASE ~ (Left(text, i) < 2)
      <4>1. DecodeList(text, f, i) = DecodeList(text, h, i)
        BY <2>5, <2>6, <3>3, Zenon DEF DecodeList
      <4> DEFINE r == f[<<"items", i + 1>>]
      <4>2. CASE ~r.valid
        BY <3>1, <3>3, <4>1, <4>2, Zenon DEF DecodeList, Bounded
      <4>3. CASE r.valid
        <5>1. DecodeList(text, f, i) = Ok(<<"List", r.value>>, r.index)
          BY <3>3, <4>3, Zenon DEF DecodeList
        <5>2. r.index \in i + 1 .. Len(text) + 2
          BY <2>5, <2>6, <3>3, <4>3, Zenon
        <5> QED
          BY <3>1, <4>1, <5>1, <5>2, BoundedFacts, Zenon
      <4> QED
        BY <4>2, <4>3, Zenon
    <3> QED
      BY <3>2, <3>3, Zenon
  <2>8. CASE c = "d"
    <3>1. DecodeValue(text, b, f, i) = DecodeDict(text, f, i) /\ DecodeValue(text, b, h, i) = DecodeDict(text, h, i)
      BY <2>2, <2>8, Zenon DEF DecodeValue
    <3>2. CASE Left(text, i) < 2
      BY <3>1, <3>2, ResultFacts, Zenon DEF DecodeDict, Bounded
    <3>3. CASE ~ (Left(text, i) < 2)
      <4>1. DecodeDict(text, f, i) = DecodeDict(text, h, i)
        BY <2>5, <2>6, <3>3, Zenon DEF DecodeDict
      <4> DEFINE r == f[<<"pairs", i + 1>>]
      <4>2. CASE ~r.valid
        BY <3>1, <3>3, <4>1, <4>2, Zenon DEF DecodeDict, Bounded
      <4>3. CASE r.valid /\ ~Ascending(r.value.keys)
        BY <3>1, <3>3, <4>1, <4>3, BoundedFacts, Zenon DEF DecodeDict
      <4>4. CASE r.valid /\ Ascending(r.value.keys)
        <5>1. DecodeDict(text, f, i) = Ok(<<"Dict", r.value.dict>>, r.index)
          BY <3>3, <4>4, Zenon DEF DecodeDict
        <5>2. r.index \in i + 1 .. Len(text) + 2
          BY <2>5, <2>6, <3>3, <4>4, Zenon
        <5> QED
          BY <3>1, <4>1, <5>1, <5>2, BoundedFacts, Zenon
      <4> QED
        BY <4>2, <4>3, <4>4, Zenon
    <3> QED
      BY <3>2, <3>3, Zenon
  <2>9. CASE c # "i" /\ ~IsDigit(c) /\ c # "l" /\ c # "d"
    <3>1. DecodeValue(text, b, f, i) = Fail("InvalidString") /\ DecodeValue(text, b, h, i) = Fail("InvalidString")
      BY <2>9, Zenon DEF DecodeValue
    <3> QED
      BY <3>1, ResultFacts, Zenon DEF Bounded
  <2> QED
    BY <2>3, <2>4, <2>7, <2>8, <2>9, Zenon

\* The loop of decode_list depends on the value at its place and on calls
\* behind it.
<1>ItemsStepFrame. ASSUME NEW text \in Seq(Chars), NEW i \in 1 .. Len(text) + 2,
                          NEW f, NEW h, Known(f, h, text, i),
                          f[<<"value", i>>] = h[<<"value", i>>], Bounded(text, f[<<"value", i>>], i)
                   PROVE  /\ DecodeItems(text, f, i) = DecodeItems(text, h, i)
                          /\ Bounded(text, DecodeItems(text, f, i), i)
  <2> USE <1>ItemsStepFrame
  <2> DEFINE r == f[<<"value", i>>]
             rest == f[<<"items", r.index>>]
             hrest == h[<<"items", h[<<"value", i>>].index>>]
  <2>1. Len(text) \in Nat /\ "items" \in Kinds
    BY LenProperties, Zenon DEF Kinds
  <2>2. CASE i > Len(text)
    BY <2>2, ResultFacts, Zenon DEF DecodeItems, Bounded
  <2>3. CASE ~ (i > Len(text)) /\ text[i] = "e"
    <3>1. DecodeItems(text, f, i) = Ok(<<>>, i + 1) /\ DecodeItems(text, h, i) = Ok(<<>>, i + 1)
      BY <2>3, Zenon DEF DecodeItems
    <3>2. i + 1 \in i + 1 .. Len(text) + 2
      BY <2>1, <2>3
    <3> QED
      BY <3>1, <3>2, BoundedFacts, Zenon
  <2>4. CASE ~ (i > Len(text)) /\ text[i] # "e" /\ ~r.valid
    BY <2>4, Zenon DEF DecodeItems, Bounded
  <2>5. CASE ~ (i > Len(text)) /\ text[i] # "e" /\ r.valid
    <3>1. r.index \in i + 1 .. Len(text) + 2
      BY <2>5, Zenon DEF Bounded
    <3>2. rest = hrest /\ Bounded(text, rest, r.index)
      BY <2>1, <3>1, Zenon DEF Known
    <3>3. DecodeItems(text, f, i) = DecodeItems(text, h, i)
      BY <2>5, <3>2, Zenon DEF DecodeItems
    <3>4. ASSUME rest.valid PROVE rest.index \in i + 1 .. Len(text) + 2
      <4>1. rest.index \in r.index + 1 .. Len(text) + 2
        BY <3>2, <3>4, Zenon DEF Bounded
      <4> HIDE DEF r, rest
      <4> QED
        BY <2>1, <3>1, <4>1
    <3>5. CASE ~rest.valid
      <4>1. DecodeItems(text, f, i) = rest
        BY <2>5, <3>5, Zenon DEF DecodeItems
      <4> QED
        BY <3>3, <3>5, <4>1, Zenon DEF Bounded
    <3>6. CASE rest.valid
      <4>1. DecodeItems(text, f, i) = Ok(<<r.value>> \o rest.value, rest.index)
        BY <2>5, <3>6, Zenon DEF DecodeItems
      <4> QED
        BY <3>3, <3>4, <3>6, <4>1, BoundedFacts, Zenon
    <3> QED
      BY <3>5, <3>6, Zenon
  <2> QED
    BY <2>2, <2>3, <2>4, <2>5, Zenon

\* The same for the loop of decode_dict.
<1>PairsStepFrame. ASSUME NEW text \in Seq(Chars), NEW i \in 1 .. Len(text) + 2,
                          NEW f, NEW h, Known(f, h, text, i),
                          f[<<"value", i>>] = h[<<"value", i>>], Bounded(text, f[<<"value", i>>], i)
                   PROVE  /\ DecodePairs(text, f, i) = DecodePairs(text, h, i)
                          /\ Bounded(text, DecodePairs(text, f, i), i)
  <2> USE <1>PairsStepFrame
  <2> DEFINE key == f[<<"value", i>>]
             r == f[<<"value", key.index>>]
             hr == h[<<"value", h[<<"value", i>>].index>>]
             rest == f[<<"pairs", r.index>>]
             hrest == h[<<"pairs", hr.index>>]
  <2>1. Len(text) \in Nat /\ "value" \in Kinds /\ "pairs" \in Kinds
    BY LenProperties, Zenon DEF Kinds
  <2>2. CASE i > Len(text)
    BY <2>2, BoundedFacts, Zenon DEF DecodePairs
  <2>3. CASE ~ (i > Len(text)) /\ text[i] = "e"
    <3> DEFINE v == [keys |-> <<>>, dict |-> [s \in {} |-> NUL]]
    <3>1. DecodePairs(text, f, i) = Ok(v, i + 1) /\ DecodePairs(text, h, i) = Ok(v, i + 1)
      BY <2>3, Zenon DEF DecodePairs
    <3>2. i + 1 \in i + 1 .. Len(text) + 2
      BY <2>1, <2>3
    <3> QED
      BY <3>1, <3>2, BoundedFacts, Zenon
  <2>4. CASE ~ (i > Len(text)) /\ text[i] # "e" /\ ~key.valid
    BY <2>4, Zenon DEF DecodePairs, Bounded
  <2>5. CASE ~ (i > Len(text)) /\ text[i] # "e" /\ key.valid /\ key.value[1] # "String"
    BY <2>5, BoundedFacts, Zenon DEF DecodePairs
  <2>6. CASE ~ (i > Len(text)) /\ text[i] # "e" /\ key.valid /\ key.value[1] = "String"
    <3>1. key.index \in i + 1 .. Len(text) + 2
      BY <2>6, Zenon DEF Bounded
    <3>2. r = hr /\ Bounded(text, r, key.index)
      BY <2>1, <3>1, Zenon DEF Known
    <3>3. CASE ~r.valid
      <4>1. DecodePairs(text, f, i) = r /\ DecodePairs(text, h, i) = r
        BY <2>6, <3>2, <3>3, Zenon DEF DecodePairs
      <4> QED
        BY <3>3, <4>1, Zenon DEF Bounded
    <3>4. CASE r.valid
      <4>1. r.index \in key.index + 1 .. Len(text) + 2
        BY <3>2, <3>4, Zenon DEF Bounded
      <4>2. r.index \in i + 1 .. Len(text) + 2
        <5> HIDE DEF key, r
        <5> QED
          BY <2>1, <3>1, <4>1
      <4>3. rest = hrest /\ Bounded(text, rest, r.index)
        BY <2>1, <3>2, <4>2, Zenon DEF Known
      <4>4. CASE ~rest.valid
        <5>1. DecodePairs(text, f, i) = rest /\ DecodePairs(text, h, i) = rest
          BY <2>6, <3>2, <3>4, <4>3, <4>4, Zenon DEF DecodePairs
        <5> QED
          BY <4>4, <5>1, Zenon DEF Bounded
      <4>5. CASE rest.valid
        <5> DEFINE v == [keys |-> <<key.value[2]>> \o rest.value.keys,
                         dict |-> Insert(rest.value.dict, key.value[2], r.value)]
        <5>1. DecodePairs(text, f, i) = Ok(v, rest.index)
          BY <2>6, <3>4, <4>5, Zenon DEF DecodePairs
        <5>2. DecodePairs(text, h, i) = Ok(v, rest.index)
          <6>1. h[<<"value", i>>] = key /\ h[<<"value", key.index>>] = r /\ h[<<"pairs", r.index>>] = rest
            BY <3>2, <4>3, Zenon
          <6> HIDE DEF key, r, rest
          <6> QED
            BY <2>6, <3>4, <4>5, <6>1, Zenon DEF DecodePairs
        <5>3. rest.index \in r.index + 1 .. Len(text) + 2
          BY <4>3, <4>5, Zenon DEF Bounded
        <5>4. rest.index \in i + 1 .. Len(text) + 2
          <6> HIDE DEF r, rest
          <6> QED
            BY <2>1, <4>2, <5>3
        <5> HIDE DEF v
        <5> QED
          BY <5>1, <5>2, <5>4, BoundedFacts, Zenon
      <4> QED
        BY <4>4, <4>5, Zenon
    <3> QED
      BY <3>3, <3>4, Zenon
  <2> QED
    BY <2>2, <2>3, <2>4, <2>5, <2>6, Zenon

\* The calls at a place, for each kind.
<1>CallFacts. ASSUME NEW text, NEW b, NEW f, NEW i
              PROVE  /\ DecodeCall(text, b, f, <<"value", i>>) = DecodeValue(text, b, f, i)
                     /\ DecodeCall(text, b, f, <<"items", i>>) = DecodeItems(text, f, i)
                     /\ DecodeCall(text, b, f, <<"pairs", i>>) = DecodePairs(text, f, i)
  BY DEF DecodeCall

\* The calls at a place depend on the calls behind it, and those for items and
\* pairs on the value there.
<1>CallFrame. ASSUME NEW text \in Seq(Chars), NEW b, NEW i \in 1 .. Len(text) + 2,
                     NEW f, NEW h, Known(f, h, text, i), NEW k \in Kinds,
                     k # "value" => f[<<"value", i>>] = h[<<"value", i>>] /\ Bounded(text, f[<<"value", i>>], i)
              PROVE  /\ DecodeCall(text, b, f, <<k, i>>) = DecodeCall(text, b, h, <<k, i>>)
                     /\ Bounded(text, DecodeCall(text, b, f, <<k, i>>), i)
  <2> USE <1>CallFrame
  <2>1. CASE k = "value"
    <3>1. /\ DecodeValue(text, b, f, i) = DecodeValue(text, b, h, i)
          /\ Bounded(text, DecodeValue(text, b, f, i), i)
      BY <1>ValueFrame, Zenon
    <3>2. \A p : DecodeCall(text, b, p, <<k, i>>) = DecodeValue(text, b, p, i)
      BY <2>1, <1>CallFacts, Zenon
    <3> QED
      BY <3>1, <3>2, Zenon
  <2>2. CASE k = "items"
    <3>1. k # "value"
      BY <2>2
    <3>2. /\ DecodeItems(text, f, i) = DecodeItems(text, h, i)
          /\ Bounded(text, DecodeItems(text, f, i), i)
      BY <3>1, <1>ItemsStepFrame, Zenon
    <3>3. \A p : DecodeCall(text, b, p, <<k, i>>) = DecodeItems(text, p, i)
      BY <2>2, <1>CallFacts, Zenon
    <3> QED
      BY <3>2, <3>3, Zenon
  <2>3. CASE k = "pairs"
    <3>1. k # "value"
      BY <2>3
    <3>2. /\ DecodePairs(text, f, i) = DecodePairs(text, h, i)
          /\ Bounded(text, DecodePairs(text, f, i), i)
      BY <3>1, <1>PairsStepFrame, Zenon
    <3>3. \A p : DecodeCall(text, b, p, <<k, i>>) = DecodePairs(text, p, i)
      BY <2>3, <1>CallFacts, Zenon
    <3> QED
      BY <3>2, <3>3, Zenon
  <2> QED
    BY <2>1, <2>2, <2>3, Zenon DEF Kinds

\* One place more.
<1>ParserExtends. ASSUME NEW text \in Seq(Chars), NEW b, NEW i \in 1 .. Len(text) + 2,
                         NEW f, IsParser(f, text, b, i + 1)
                  PROVE  \E h : IsParser(h, text, b, i)
  <2> USE <1>ParserExtends
  <2> DEFINE v == DecodeCall(text, b, f, <<"value", i>>)
             Dom == Kinds \X (i .. Len(text) + 2)
             g == [c \in Dom |-> IF c[2] = i THEN v ELSE f[c]]
             h == [c \in Dom |-> IF c[2] = i THEN (IF c[1] = "value" THEN v ELSE DecodeCall(text, b, g, c))
                                             ELSE f[c]]
  <2>1. Len(text) \in Nat /\ "value" \in Kinds
    BY LenProperties, Zenon DEF Kinds
  <2>2. /\ i \in i .. Len(text) + 2
        /\ \A j \in i + 1 .. Len(text) + 2 : j \in i .. Len(text) + 2 /\ j # i
        /\ \A j \in i .. Len(text) + 2 : j = i \/ j \in i + 1 .. Len(text) + 2
    BY <2>1
  <2>3. ASSUME NEW k \in Kinds, NEW j \in i + 1 .. Len(text) + 2
        PROVE  /\ g[<<k, j>>] = f[<<k, j>>]
               /\ h[<<k, j>>] = f[<<k, j>>]
               /\ Bounded(text, f[<<k, j>>], j)
               /\ f[<<k, j>>] = DecodeCall(text, b, f, <<k, j>>)
    <3>1. <<k, j>> \in Dom /\ <<k, j>>[2] # i
      BY <2>2
    <3>2. <<k, j>> \in Kinds \X (i + 1 .. Len(text) + 2)
      OBVIOUS
    <3>3. f[<<k, j>>] = DecodeCall(text, b, f, <<k, j>>)
      BY <3>2, Zenon DEF IsParser
    <3> QED
      BY <3>1, <3>3, Zenon DEF IsParser
  <2>4. ASSUME NEW k \in Kinds
        PROVE  /\ g[<<k, i>>] = v
               /\ h[<<k, i>>] = IF k = "value" THEN v ELSE DecodeCall(text, b, g, <<k, i>>)
    <3>1. <<k, i>> \in Dom /\ <<k, i>>[2] = i /\ <<k, i>>[1] = k
      BY <2>2
    <3> QED
      BY <3>1, Zenon
  <2>5. DOMAIN h = Dom /\ h = [c \in Dom |-> h[c]]
    BY Zenon
  <2> HIDE DEF g, h
  <2>6. Known(f, g, text, i) /\ Known(f, h, text, i) /\ Known(g, h, text, i)
    BY <2>3, Zenon DEF Known
  <2>7. v = DecodeCall(text, b, h, <<"value", i>>) /\ Bounded(text, v, i)
    BY <2>1, <2>6, <1>CallFrame, Zenon
  <2>8. g[<<"value", i>>] = v /\ h[<<"value", i>>] = v
    BY <2>1, <2>4, Zenon
  <2> HIDE DEF v
  <2>9. ASSUME NEW k \in Kinds
        PROVE  h[<<k, i>>] = DecodeCall(text, b, h, <<k, i>>) /\ Bounded(text, h[<<k, i>>], i)
    <3>1. CASE k = "value"
      BY <2>7, <2>8, <3>1, Zenon
    <3>2. CASE k # "value"
      <4>1. h[<<k, i>>] = DecodeCall(text, b, g, <<k, i>>)
        BY <2>4, <3>2, Zenon
      <4>2. g[<<"value", i>>] = h[<<"value", i>>] /\ Bounded(text, g[<<"value", i>>], i)
        BY <2>7, <2>8, Zenon
      <4>3. /\ DecodeCall(text, b, g, <<k, i>>) = DecodeCall(text, b, h, <<k, i>>)
            /\ Bounded(text, DecodeCall(text, b, g, <<k, i>>), i)
        BY <2>6, <4>2, <1>CallFrame, Zenon
      <4> QED
        BY <4>1, <4>3, Zenon
    <3> QED
      BY <3>1, <3>2, Zenon
  <2>10. ASSUME NEW k \in Kinds, NEW j \in i + 1 .. Len(text) + 2
         PROVE  h[<<k, j>>] = DecodeCall(text, b, h, <<k, j>>)
    <3>1. j \in 1 .. Len(text) + 2 /\ \A n \in j + 1 .. Len(text) + 2 : n \in i + 1 .. Len(text) + 2
      BY <2>1
    <3>2. Known(f, h, text, j)
      BY <2>3, <3>1, Zenon DEF Known
    <3>3. f[<<"value", j>>] = h[<<"value", j>>] /\ Bounded(text, f[<<"value", j>>], j)
      BY <2>1, <2>3, Zenon
    <3>4. DecodeCall(text, b, f, <<k, j>>) = DecodeCall(text, b, h, <<k, j>>)
      BY <3>1, <3>2, <3>3, <1>CallFrame, Zenon
    <3> QED
      BY <2>3, <3>4, Zenon
  <2>11. ASSUME NEW k \in Kinds, NEW j \in i .. Len(text) + 2
         PROVE  h[<<k, j>>] = DecodeCall(text, b, h, <<k, j>>) /\ Bounded(text, h[<<k, j>>], j)
    <3>1. CASE j = i
      BY <2>9, <3>1, Zenon
    <3>2. CASE j \in i + 1 .. Len(text) + 2
      BY <2>3, <2>10, <3>2, Zenon
    <3> QED
      BY <2>2, <3>1, <3>2, Zenon
  <2>12. \A c \in Dom : h[c] = DecodeCall(text, b, h, c)
    <3>1. ASSUME NEW c \in Dom PROVE h[c] = DecodeCall(text, b, h, c)
      <4>1. PICK k \in Kinds, j \in i .. Len(text) + 2 : c = <<k, j>>
        OBVIOUS
      <4> QED
        BY <2>11, <4>1, Zenon
    <3> QED
      BY <3>1, Zenon
  <2>13. IsParser(h, text, b, i)
    BY <2>5, <2>11, <2>12, Zenon DEF IsParser
  <2> QED
    BY <2>13, Zenon

\* The parser ends: each call takes at least a character before the next one.
<1>ParserExists. ASSUME NEW text \in Seq(Chars), NEW b
                 PROVE  \E f : IsParser(f, text, b, 1)
  <2> DEFINE n == Len(text) + 2
             S == {m \in Nat : m <= n => \E f : IsParser(f, text, b, n + 1 - m)}
  <2>1. n \in Nat /\ Len(text) \in Nat
    BY LenProperties
  <2>2. 0 \in S
    <3>1. n + 1 - 0 = n + 1
      BY <2>1
    <3>2. \A j : j \notin n + 1 .. n
      BY <2>1
    <3>3. Kinds \X (n + 1 .. n) = {}
      BY <3>2
    <3>4. IsParser([c \in Kinds \X (n + 1 .. n) |-> NUL], text, b, n + 1)
      BY <3>2, <3>3 DEF IsParser
    <3> QED
      BY <3>1, <3>4
  <2>3. ASSUME NEW m \in Nat, m \in S PROVE m + 1 \in S
    <3>1. m + 1 \in Nat
      OBVIOUS
    <3>2. ASSUME m + 1 <= n PROVE \E f : IsParser(f, text, b, n + 1 - (m + 1))
      <4>1. m <= n /\ n + 1 - (m + 1) \in 1 .. n /\ (n + 1 - (m + 1)) + 1 = n + 1 - m
        BY <2>1, <3>2
      <4>2. PICK f : IsParser(f, text, b, (n + 1 - (m + 1)) + 1)
        BY <2>3, <4>1, Zenon
      <4> QED
        BY <4>1, <4>2, <1>ParserExtends, Zenon
    <3> QED
      BY <3>1, <3>2, Zenon
  <2> HIDE DEF S
  <2>4. \A m \in Nat : m \in S
    BY <2>2, <2>3, Stepwise, Zenon
  <2>5. n <= n /\ n + 1 - n = 1
    BY <2>1
  <2> QED
    BY <2>1, <2>4, <2>5, Zenon DEF S

\* Every result of the parser is bounded.
<1>ParserBounded. ASSUME NEW text \in Seq(Chars), NEW b, NEW p,
                         \A k \in Kinds, i \in 1 .. Len(text) + 2 : p[<<k, i>>] = DecodeCall(text, b, p, <<k, i>>)
                  PROVE  \A k \in Kinds, i \in 1 .. Len(text) + 2 : Bounded(text, p[<<k, i>>], i)
  <2> USE <1>ParserBounded
  <2> DEFINE n == Len(text) + 2
             S == {m \in Nat : m < n => \A k \in Kinds : Bounded(text, p[<<k, n - m>>], n - m)}
  <2>1. n \in Nat /\ Len(text) \in Nat
    BY LenProperties
  <2>2. ASSUME NEW m \in Nat, \A j \in Nat : j < m => j \in S
        PROVE  m \in S
    <3>1. SUFFICES ASSUME m < n PROVE \A k \in Kinds : Bounded(text, p[<<k, n - m>>], n - m)
      BY Zenon
    <3> DEFINE i == n - m
    <3>2. i \in 1 .. n
      BY <2>1, <3>1
    <3>3. ASSUME NEW j \in i + 1 .. n, NEW k \in Kinds PROVE Bounded(text, p[<<k, j>>], j)
      <4>1. n - j \in Nat /\ n - j < m /\ n - j < n /\ n - (n - j) = j
        BY <2>1, <3>1
      <4>2. n - j \in S
        BY <2>2, <4>1, Zenon
      <4> QED
        BY <4>1, <4>2, Zenon
    <3> HIDE DEF i
    <3>4. Known(p, p, text, i)
      BY <3>3, Zenon DEF Known
    <3>5. "value" \in Kinds
      BY DEF Kinds
    <3>6. Bounded(text, p[<<"value", i>>], i)
      BY <3>2, <3>4, <3>5, <1>CallFrame, Zenon
    <3>7. ASSUME NEW k \in Kinds PROVE Bounded(text, p[<<k, i>>], i)
      <4>1. Bounded(text, DecodeCall(text, b, p, <<k, i>>), i)
        BY <3>2, <3>4, <3>6, <1>CallFrame, Zenon
      <4>2. p[<<k, i>>] = DecodeCall(text, b, p, <<k, i>>)
        BY <3>2, Zenon
      <4> QED
        BY <4>1, <4>2, Zenon
    <3> QED
      BY <3>7, Zenon DEF i
  <2> HIDE DEF S
  <2>3. \A m \in Nat : m \in S
    BY <2>2, Induction, Zenon
  <2>4. ASSUME NEW k \in Kinds, NEW i \in 1 .. n PROVE Bounded(text, p[<<k, i>>], i)
    <3>1. n - i \in Nat /\ n - i < n /\ n - (n - i) = i
      BY <2>1
    <3> QED
      BY <2>3, <3>1, Zenon DEF S
  <2> QED
    BY <2>4, Zenon

<1> SUFFICES ASSUME NEW text \in Seq(Chars), NEW b, NEW i \in 1 .. Len(text) + 2
             PROVE  /\ Parser(text, b)[<<"value", i>>] = DecodeValue(text, b, Parser(text, b), i)
                    /\ Parser(text, b)[<<"items", i>>] = DecodeItems(text, Parser(text, b), i)
                    /\ Parser(text, b)[<<"pairs", i>>] = DecodePairs(text, Parser(text, b), i)
                    /\ \A k \in Kinds : Bounded(text, Parser(text, b)[<<k, i>>], i)
  BY Zenon
<1> DEFINE Is(p) == p = [c \in Calls(text) |-> DecodeCall(text, b, p, c)]
           P == Parser(text, b)
<1>1. \E f : Is(f)
  <2>1. PICK f : IsParser(f, text, b, 1)
    BY <1>ParserExists, Zenon
  <2>2. Is(f)
    BY <2>1, Zenon DEF IsParser, Calls
  <2> QED
    BY <2>2, Zenon
<1>2. P = CHOOSE f : Is(f)
  BY Zenon DEF Parser
<1> HIDE DEF Is
<1>3. Is(P)
  BY <1>1, <1>2, Zenon
<1> HIDE DEF P
<1>4. \A k \in Kinds, j \in 1 .. Len(text) + 2 : P[<<k, j>>] = DecodeCall(text, b, P, <<k, j>>)
  <2>1. \A k \in Kinds, j \in 1 .. Len(text) + 2 : <<k, j>> \in Calls(text)
    BY DEF Calls
  <2> QED
    BY <1>3, <2>1, Zenon DEF Is
<1>5. \A k \in Kinds : Bounded(text, P[<<k, i>>], i)
  BY <1>4, <1>ParserBounded, Zenon
<1>6. "value" \in Kinds /\ "items" \in Kinds /\ "pairs" \in Kinds
  BY DEF Kinds
<1>7. /\ P[<<"value", i>>] = DecodeCall(text, b, P, <<"value", i>>)
      /\ P[<<"items", i>>] = DecodeCall(text, b, P, <<"items", i>>)
      /\ P[<<"pairs", i>>] = DecodeCall(text, b, P, <<"pairs", i>>)
  BY <1>4, <1>6, Zenon
<1>8. /\ P[<<"value", i>>] = DecodeValue(text, b, P, i)
      /\ P[<<"items", i>>] = DecodeItems(text, P, i)
      /\ P[<<"pairs", i>>] = DecodePairs(text, P, i)
  <2>1. /\ DecodeCall(text, b, P, <<"value", i>>) = DecodeValue(text, b, P, i)
        /\ DecodeCall(text, b, P, <<"items", i>>) = DecodeItems(text, P, i)
        /\ DecodeCall(text, b, P, <<"pairs", i>>) = DecodePairs(text, P, i)
    BY <1>CallFacts, Zenon
  <2> QED
    BY <1>7, <2>1, Zenon
<1> QED
  BY <1>5, <1>8, Zenon DEF P

-----------------------------------------------------------------------------
(* Integers and strings *)

\* The first and the last character of a part, and what is between them.
LEMMA FrameFacts ==
  ASSUME NEW text \in Seq(Chars), NEW i \in 1 .. Len(text), NEW j \in i .. Len(text)
  PROVE  /\ SubSeq(text, i, j) \in Seq(Chars)
         /\ Len(SubSeq(text, i, j)) = j - i + 1
         /\ SubSeq(text, i, j)[1] = text[i]
         /\ SubSeq(text, i, j)[j - i + 1] = text[j]
         /\ \A c : Framed(SubSeq(text, i, j), c) <=> j > i /\ text[i] = c /\ text[j] = "e"
         /\ j > i => Inner(SubSeq(text, i, j)) = SubSeq(text, i + 1, j - 1)
<1> DEFINE t == SubSeq(text, i, j)
<1>1. Len(text) \in Nat
  BY LenProperties, Zenon
<1>2. i \in 1 .. Len(text) + 1 /\ j \in i - 1 .. Len(text)
  BY <1>1
<1>3. IsPart(t, Chars, text, i, j)
  BY <1>2, PartFacts, Zenon
<1>4. /\ t \in Seq(Chars)
      /\ Len(t) = j - i + 1
      /\ \A k \in 1 .. j - i + 1 : t[k] = text[i + k - 1]
  BY <1>3, Zenon DEF IsPart
<1>5. /\ 1 \in 1 .. j - i + 1 /\ i + 1 - 1 = i
      /\ j - i + 1 \in 1 .. j - i + 1 /\ i + (j - i + 1) - 1 = j
      /\ j - i + 1 > 1 <=> j > i
  OBVIOUS
<1>6. t[1] = text[i] /\ t[j - i + 1] = text[j]
  <2>1. t[1] = text[i + 1 - 1] /\ t[j - i + 1] = text[i + (j - i + 1) - 1]
    BY <1>4, <1>5, Zenon
  <2> QED
    BY <1>5, <2>1, Zenon
<1>7. \A c : Framed(t, c) <=> j > i /\ text[i] = c /\ text[j] = "e"
  <2> HIDE DEF t
  <2> QED
    BY <1>4, <1>5, <1>6, Zenon DEF Framed
<1>8. ASSUME j > i PROVE Inner(t) = SubSeq(text, i + 1, j - 1)
  <2> DEFINE p == 2
             q == (j - i + 1) - 1
  <2>1. /\ p \in 1 .. j - i + 2 /\ q \in p - 1 .. j - i + 1
        /\ i + p - 1 = i + 1 /\ i + q - 1 = j - 1
    BY <1>8
  <2>2. Inner(t) = SubSeq(t, p, q)
    BY <1>4, Zenon DEF Inner
  <2> HIDE DEF p, q
  <2>3. SubSeq(SubSeq(text, i, j), p, q) = SubSeq(text, i + p - 1, i + q - 1)
    <3> HIDE DEF t
    <3> QED
      BY <1>2, <2>1, PartOfPart
  <2> QED
    BY <2>1, <2>2, <2>3, Zenon
<1> QED
  BY <1>4, <1>6, <1>7, <1>8, Zenon

-----------------------------------------------------------------------------
(* Dictionaries *)

\* The first place of a key.
IsFirst(ps, s, k) ==
  /\ k \in 1 .. Len(ps)
  /\ ps[k][1] = s
  /\ \A j \in 1 .. Len(ps) : ps[j][1] = s => k <= j

\* A sequence with a pair in front.
LEMMA ConsFacts ==
  ASSUME NEW S, NEW ps \in Seq(S), NEW p
  PROVE  /\ <<p>> \o ps \in Seq(S \union {p})
         /\ Len(<<p>> \o ps) = Len(ps) + 1
         /\ (<<p>> \o ps)[1] = p
         /\ \A k \in 1 .. Len(ps) : (<<p>> \o ps)[k + 1] = ps[k]
<1> DEFINE T == S \union {p}
           q == <<p>>
<1>1. ps \in Seq(T)
  <2>1. S \subseteq T
    BY Zenon
  <2> QED
    BY <2>1, SeqMonotonic, Zenon
<1>2. q \in Seq(T) /\ Len(q) = 1 /\ q[1] = p
  OBVIOUS
<1> HIDE DEF T, q
<1>3. /\ q \o ps \in Seq(T)
      /\ Len(q \o ps) = Len(q) + Len(ps)
      /\ \A i \in 1 .. Len(q) + Len(ps) : (q \o ps)[i] = IF i <= Len(q) THEN q[i] ELSE ps[i - Len(q)]
  BY <1>1, <1>2, ConcatProperties, Zenon
<1>4. Len(ps) \in Nat
  BY LenProperties, Zenon
<1>5. Len(q \o ps) = Len(ps) + 1
  BY <1>2, <1>3, <1>4
<1>6. (q \o ps)[1] = p
  <2>1. 1 \in 1 .. Len(q) + Len(ps) /\ 1 <= Len(q)
    BY <1>2, <1>4
  <2> QED
    BY <1>2, <1>3, <2>1, Zenon
<1>7. ASSUME NEW k \in 1 .. Len(ps) PROVE (q \o ps)[k + 1] = ps[k]
  <2>1. k + 1 \in 1 .. Len(q) + Len(ps) /\ ~ (k + 1 <= Len(q)) /\ (k + 1) - Len(q) = k
    BY <1>2, <1>4
  <2> QED
    BY <1>3, <2>1, Zenon
<1> QED
  BY <1>3, <1>5, <1>6, <1>7, Zenon DEF q, T

\* std::map::insert of a pair in front of others.
LEMMA DictCons ==
  \A S : \A ps \in Seq(S) : \A s : \A v :
    DictOf(<<<<s, v>>>> \o ps) = Insert(DictOf(ps), s, v)

\* A key that is there has a first place.
<1>FirstExists. ASSUME NEW ps, Len(ps) \in Nat, NEW k \in 1 .. Len(ps), NEW s, ps[k][1] = s
                PROVE  \E m : IsFirst(ps, s, m)
  <2> USE <1>FirstExists
  <2> DEFINE T == {m \in 1 .. Len(ps) : ps[m][1] = s}
  <2>1. T \subseteq Nat /\ T # {}
    OBVIOUS
  <2>2. PICK m \in T : \A j \in T : m <= j
    BY <2>1, LeastOf, Zenon
  <2>3. IsFirst(ps, s, m)
    BY <2>2, Zenon DEF IsFirst
  <2> QED
    BY <2>3, Zenon

\* The keys of a dictionary.
<1>DictKeys. ASSUME NEW S, NEW ps \in Seq(S), NEW s
             PROVE  s \in DOMAIN DictOf(ps) <=> \E k \in 1 .. Len(ps) : s = ps[k][1]
  <2>1. DOMAIN ps = 1 .. Len(ps)
    BY LenProperties, Zenon
  <2>2. DOMAIN DictOf(ps) = {ps[k][1] : k \in 1 .. Len(ps)}
    BY <2>1, Zenon DEF DictOf
  <2> QED
    BY <2>2, Zenon

\* The value of a key is at its first place.
<1>DictValue. ASSUME NEW S, NEW ps \in Seq(S), NEW s, NEW m, IsFirst(ps, s, m)
              PROVE  DictOf(ps)[s] = ps[m][2]
  <2> USE <1>DictValue
  <2>1. Len(ps) \in Nat /\ DOMAIN ps = 1 .. Len(ps)
    BY LenProperties, Zenon
  <2> DEFINE First(u) == CHOOSE k \in DOMAIN ps :
                           ps[k][1] = u /\ \A j \in DOMAIN ps : ps[j][1] = u => k <= j
             D == {ps[k][1] : k \in DOMAIN ps}
  <2>3. DictOf(ps) = [u \in D |-> ps[First(u)][2]]
    BY Zenon DEF DictOf
  <2>4. /\ m \in DOMAIN ps
        /\ ps[m][1] = s
        /\ \A j \in DOMAIN ps : ps[j][1] = s => m <= j
    BY <2>1, Zenon DEF IsFirst
  <2>5. /\ First(s) \in DOMAIN ps
        /\ ps[First(s)][1] = s
        /\ \A j \in DOMAIN ps : ps[j][1] = s => First(s) <= j
    BY <2>4, Zenon
  <2>6. s \in D
    BY <2>4, Zenon
  <2> HIDE DEF First
  <2>7. First(s) = m
    <3>1. First(s) \in 1 .. Len(ps) /\ m \in 1 .. Len(ps) /\ First(s) <= m /\ m <= First(s)
      BY <2>1, <2>4, <2>5, Zenon
    <3> QED
      BY <2>1, <3>1
  <2> QED
    BY <2>3, <2>6, <2>7, Zenon

\* Two functions with a domain and its values are the same.
<1>SameFunction. ASSUME NEW D, NEW f, NEW g, f = [s \in D |-> f[s]], g = [s \in D |-> g[s]],
                        \A s \in D : f[s] = g[s]
                 PROVE  f = g
  BY <1>SameFunction, Zenon

<1> SUFFICES ASSUME NEW S, NEW ps \in Seq(S), NEW s, NEW v
             PROVE  DictOf(<<<<s, v>>>> \o ps) = Insert(DictOf(ps), s, v)
  BY Zenon
<1> DEFINE p == <<s, v>>
           qs == <<p>> \o ps
           T == S \union {p}
           f == DictOf(qs)
           g == Insert(DictOf(ps), s, v)
           D == DOMAIN DictOf(ps) \union {s}
<1>1. Len(ps) \in Nat /\ DOMAIN ps = 1 .. Len(ps) /\ p[1] = s /\ p[2] = v
  BY LenProperties
<1> HIDE DEF p
<1>2. /\ qs \in Seq(T) /\ Len(qs) = Len(ps) + 1 /\ qs[1] = p
      /\ \A k \in 1 .. Len(ps) : qs[k + 1] = ps[k]
  BY ConsFacts
<1> HIDE DEF qs, T
<1>3. \A m \in 1 .. Len(qs) : m = 1 \/ (m - 1 \in 1 .. Len(ps) /\ (m - 1) + 1 = m)
  BY <1>1, <1>2
<1>4. \A k \in 1 .. Len(ps) : k + 1 \in 1 .. Len(qs)
  BY <1>1, <1>2
<1>5. 1 \in 1 .. Len(qs)
  BY <1>1, <1>2
<1>keys. \A u : u \in DOMAIN DictOf(ps) <=> \E k \in 1 .. Len(ps) : u = ps[k][1]
  BY <1>DictKeys, Zenon
<1>6. DOMAIN f = D
  <2>1. \A u : u \in DOMAIN f <=> \E k \in 1 .. Len(qs) : u = qs[k][1]
    BY <1>2, <1>DictKeys, Zenon
  <2>2. ASSUME NEW u \in DOMAIN f PROVE u \in D
    <3>1. PICK m \in 1 .. Len(qs) : u = qs[m][1]
      BY <2>1, <2>2, Zenon
    <3>2. CASE m = 1
      BY <1>1, <1>2, <3>1, <3>2, Zenon
    <3>3. CASE m - 1 \in 1 .. Len(ps) /\ (m - 1) + 1 = m
      <4>1. u = ps[m - 1][1]
        BY <1>2, <3>1, <3>3, Zenon
      <4> QED
        BY <1>keys, <3>3, <4>1, Zenon
    <3> QED
      BY <1>3, <3>2, <3>3, Zenon
  <2>3. ASSUME NEW u \in D PROVE u \in DOMAIN f
    <3>1. CASE u = s
      BY <1>1, <1>2, <1>5, <2>1, <3>1, Zenon
    <3>2. CASE u \in DOMAIN DictOf(ps)
      <4>1. PICK k \in 1 .. Len(ps) : u = ps[k][1]
        BY <1>keys, <3>2, Zenon
      <4>2. u = qs[k + 1][1] /\ k + 1 \in 1 .. Len(qs)
        BY <1>2, <1>4, <4>1, Zenon
      <4> QED
        BY <2>1, <4>2, Zenon
    <3> QED
      BY <3>1, <3>2, Zenon
  <2> QED
    BY <2>2, <2>3, Zenon
<1>7. f = [u \in D |-> f[u]]
  <2>1. f = [u \in DOMAIN f |-> f[u]]
    BY DEF DictOf
  <2> QED
    BY <1>6, <2>1, Zenon
<1>8. /\ g = [u \in D |-> IF u = s THEN v ELSE DictOf(ps)[u]]
      /\ g = [u \in D |-> g[u]]
  BY Zenon DEF Insert
<1>9. /\ \A u, m : IsFirst(qs, u, m) => f[u] = qs[m][2]
      /\ \A u, m : IsFirst(ps, u, m) => DictOf(ps)[u] = ps[m][2]
  BY <1>2, <1>DictValue, Zenon
<1>10. ASSUME NEW u \in D PROVE f[u] = g[u]
  <2>1. CASE u = s
    <3>1. IsFirst(qs, s, 1)
      <4>1. \A m \in 1 .. Len(qs) : 1 <= m
        BY <1>1, <1>2
      <4> QED
        BY <1>1, <1>2, <1>5, <4>1, Zenon DEF IsFirst
    <3>2. f[s] = qs[1][2]
      BY <1>9, <3>1, Zenon
    <3> QED
      BY <1>1, <1>2, <1>8, <2>1, <3>2, Zenon
  <2>2. CASE u # s
    <3>0. u \in DOMAIN DictOf(ps)
      BY <2>2, Zenon
    <3>1. PICK k \in 1 .. Len(ps) : u = ps[k][1]
      BY <1>keys, <3>0, Zenon
    <3>2. PICK m : IsFirst(ps, u, m)
      BY <1>1, <3>1, <1>FirstExists, Zenon
    <3>3. /\ m \in 1 .. Len(ps) /\ ps[m][1] = u
          /\ \A j \in 1 .. Len(ps) : ps[j][1] = u => m <= j
      BY <3>2, Zenon DEF IsFirst
    <3>4. ASSUME NEW j \in 1 .. Len(qs), qs[j][1] = u PROVE m + 1 <= j
      <4>1. j # 1
        BY <1>1, <1>2, <2>2, <3>4, Zenon
      <4>2. j - 1 \in 1 .. Len(ps) /\ (j - 1) + 1 = j
        BY <1>3, <4>1, Zenon
      <4>3. m <= j - 1
        BY <1>2, <3>3, <3>4, <4>2, Zenon
      <4> QED
        BY <1>1, <3>3, <4>2, <4>3
    <3>5. IsFirst(qs, u, m + 1)
      BY <1>2, <1>4, <3>3, <3>4, Zenon DEF IsFirst
    <3>6. f[u] = qs[m + 1][2] /\ DictOf(ps)[u] = ps[m][2]
      BY <1>9, <3>2, <3>5, Zenon
    <3>7. g[u] = DictOf(ps)[u]
      BY <1>8, <2>2, Zenon
    <3> QED
      BY <1>2, <3>3, <3>6, <3>7, Zenon
  <2> QED
    BY <2>1, <2>2, Zenon
<1> HIDE DEF f, g, D
<1>11. f = g
  BY <1>7, <1>8, <1>10, <1>SameFunction, Zenon
<1> QED
  BY <1>11, Zenon DEF f, g, qs, p

\* The keys of pairs with one in front.
LEMMA KeysCons ==
  ASSUME NEW S, NEW ps \in Seq(S), NEW s, NEW v
  PROVE  KeysOf(<<<<s, v>>>> \o ps) = <<s>> \o KeysOf(ps)
<1> DEFINE p == <<s, v>>
           qs == <<p>> \o ps
           K == {ps[k][1] : k \in 1 .. Len(ps)}
           ks == KeysOf(ps)
           ls == <<s>> \o ks
<1>0. p[1] = s
  OBVIOUS
<1> HIDE DEF p
<1>1. /\ qs \in Seq(S \union {p}) /\ Len(qs) = Len(ps) + 1 /\ qs[1] = p
      /\ \A k \in 1 .. Len(ps) : qs[k + 1] = ps[k]
  BY ConsFacts
<1>2. Len(ps) \in Nat /\ DOMAIN ps = 1 .. Len(ps) /\ DOMAIN qs = 1 .. Len(qs)
  BY <1>1, LenProperties, Zenon
<1>4. ks = [k \in 1 .. Len(ps) |-> ps[k][1]]
  BY <1>2, Zenon DEF KeysOf
<1>5. ks \in Seq(K) /\ Len(ks) = Len(ps)
  <2>1. ks \in [1 .. Len(ps) -> K]
    BY <1>4, Zenon
  <2> HIDE DEF ks, K
  <2> QED
    BY <1>2, <2>1
<1>6. /\ ls \in Seq(K \union {s}) /\ Len(ls) = Len(ks) + 1 /\ ls[1] = s
      /\ \A k \in 1 .. Len(ks) : ls[k + 1] = ks[k]
  <2> HIDE DEF ks, K
  <2> QED
    BY <1>5, ConsFacts
<1>7. ls = [k \in 1 .. Len(qs) |-> ls[k]]
  <2>1. ls \in [1 .. Len(ls) -> K \union {s}] /\ Len(ls) = Len(qs)
    BY <1>1, <1>5, <1>6, LenProperties, Zenon
  <2> HIDE DEF ls, K
  <2> QED
    BY <2>1, Zenon
<1>8. KeysOf(qs) = [k \in 1 .. Len(qs) |-> qs[k][1]]
  BY <1>2, Zenon DEF KeysOf
<1> HIDE DEF qs, ls, p, ks, K
<1>9. ASSUME NEW m \in 1 .. Len(qs) PROVE qs[m][1] = ls[m]
  <2>1. CASE m = 1
    BY <1>1, <1>0, <1>6, <2>1, Zenon
  <2>2. CASE m # 1
    <3>1. m - 1 \in 1 .. Len(ps) /\ m - 1 \in 1 .. Len(ks) /\ (m - 1) + 1 = m
      BY <1>1, <1>2, <1>5, <2>2
    <3>2. qs[(m - 1) + 1] = ps[m - 1] /\ ls[(m - 1) + 1] = ks[m - 1] /\ ks[m - 1] = ps[m - 1][1]
      BY <1>1, <1>4, <1>6, <3>1, Zenon
    <3> QED
      BY <3>1, <3>2, Zenon
  <2> QED
    BY <2>1, <2>2, Zenon
<1>10. KeysOf(qs) = ls
  BY <1>7, <1>8, <1>9, Zenon
<1> QED
  BY <1>10, Zenon DEF qs, ls, ks, p

\* No pairs.
LEMMA NoPairs ==
  KeysOf(<<>>) = <<>> /\ DictOf(<<>>) = [s \in {} |-> NUL]
<1>1. KeysOf(<<>>) = <<>>
  BY DEF KeysOf
<1>2. DictOf(<<>>) = [s \in {} |-> NUL]
  <2>1. \A k : k \notin DOMAIN <<>>
    OBVIOUS
  <2>2. {<<>>[k][1] : k \in DOMAIN <<>>} = {}
    BY <2>1, Zenon
  <2> QED
    BY <2>2, Zenon DEF DictOf
<1> QED
  BY <1>1, <1>2, Zenon

-----------------------------------------------------------------------------
(* The parser and the grammar *)

\* What the characters from i to j denote.
Values(text, i, j) == Grammar[<<"value", SubSeq(text, i, j)>>]

Items(text, i, j) == Grammar[<<"items", SubSeq(text, i, j)>>]

Pairs(text, i, j) == Grammar[<<"pairs", SubSeq(text, i, j)>>]

\* r is what is to be read at i: the value that the characters up to the index
\* denote, and no others that begin at i denote anything, except for an empty
\* string at the very end.
ValueRight(text, r, i) ==
  \A j \in i .. Len(text) : \A x :
    /\ r.valid /\ r.index = j + 1 /\ x = r.value => x \in Values(text, i, j)
    /\ x \in Values(text, i, j) =>
         \/ r.valid /\ r.index = j + 1 /\ x = r.value
         \/ ~r.valid /\ i = Len(text) - 1 /\ j = Len(text) /\ x = <<"String", <<>>>>

\* A loop ends with an "e".
EndRight(text, r, i) ==
  r.valid => r.index - 1 \in i .. Len(text) /\ text[r.index - 1] = "e"

\* The items that the characters up to the "e" denote.
ItemsRight(text, r, i) ==
  /\ EndRight(text, r, i)
  /\ \A j \in i - 1 .. Len(text) - 1 : \A x :
       text[j + 1] = "e" =>
         (x \in Items(text, i, j) <=> r.valid /\ r.index = j + 2 /\ x = r.value)

\* The keys and the map of the pairs ps.
IsPairsOf(value, ps) ==
  (\E S : ps \in Seq(S)) /\ value.keys = KeysOf(ps) /\ value.dict = DictOf(ps)

\* The pairs that the characters up to the "e" denote.
PairsRight(text, r, i) ==
  /\ EndRight(text, r, i)
  /\ \A j \in i - 1 .. Len(text) - 1 :
       text[j + 1] = "e" =>
         /\ r.valid /\ r.index = j + 2 => \E ps \in Pairs(text, i, j) : IsPairsOf(r.value, ps)
         /\ \A ps \in Pairs(text, i, j) : r.valid /\ r.index = j + 2 /\ IsPairsOf(r.value, ps)
         /\ \A ps, qs \in Pairs(text, i, j) : ps = qs

\* x is the value up to m and the items behind it.
IsItemsAt(text, i, j, x, m) ==
  \E v \in Values(text, i, m - 1) : \E vs \in Items(text, m, j) : x = <<v>> \o vs

\* x is the key up to m, the value up to n and the pairs behind them.
IsPairsAt(text, i, j, x, m, n) ==
  \E u \in StringsOf(SubSeq(text, i, m - 1)) :
    \E v \in Values(text, m, n - 1) :
      \E ps \in Pairs(text, n, j) : x = <<<<u[2], v>>>> \o ps

\* What the parser reads at i is right.
RightAt(text, p, i) ==
  /\ ValueRight(text, p[<<"value", i>>], i)
  /\ ItemsRight(text, p[<<"items", i>>], i)
  /\ PairsRight(text, p[<<"pairs", i>>], i)

\* BencodeParser::decode accepts exactly the texts of the grammar, and makes
\* of each the one value it denotes, whatever a read beyond the end of the
\* text gives.  The exception is the empty string at the end of a text.
THEOREM DecodeRight ==
  \A text \in Texts : \A b :
    LET r == Decode(text, b)
    IN  IF r.valid THEN Denoted(text) = {r.value}
                   ELSE Denoted(text) \subseteq {<<"String", <<>>>>}

\* The parser and the grammar have the same integers.
<1>IntegersAgree. ASSUME NEW s \in Seq(Chars)
                  PROVE  \A n : n \in Numbers(s) <=> IsInteger(s) /\ n = IntegerOf(s)
  <2>1. Len(s) \in Nat
    BY LenProperties, Zenon
  <2>2. CASE s = <<>>
    <3>1. ~ (Len(s) > 0) /\ ~ (Len(s) > 1)
      BY <2>2
    <3>2. ~IsNumeral(s)
      BY <3>1, NumeralFacts, Zenon
    <3> QED
      BY <2>2, <3>1, <3>2, Zenon DEF Numbers, IsInteger
  <2>3. CASE s # <<>> /\ s[1] = "-"
    <3>1. Len(s) > 0 /\ 1 \in 1 .. Len(s)
      BY <2>1, <2>3, EmptySeq
    <3>2. ~IsDigit("-")
      BY DEF IsDigit, Digits
    <3>3. ~IsNumeral(s)
      BY <2>3, <3>1, <3>2, NumeralFacts, Zenon
    <3>4. Tail(s) \in Seq(Chars) /\ Len(Tail(s)) = Len(s) - 1
      BY <2>3, HeadTailProperties, Zenon
    <3>5. IsNumeral(Tail(s)) => Len(Tail(s)) > 0
      BY <3>4, NumeralFacts, Zenon
    <3>6. IsNumeral(Tail(s)) => Len(s) > 1
      BY <2>1, <3>4, <3>5
    <3>7. IsInteger(s) <=> s # <<"-", "0">> /\ IsNumeral(Tail(s))
      BY <2>3, Zenon DEF IsInteger
    <3>8. IntegerOf(s) = -Decimal(Tail(s))
      BY <2>3, Zenon DEF IntegerOf
    <3>9. \A n : n \in Numbers(s) <=> Len(s) > 1 /\ s # <<"-", "0">> /\ IsNumeral(Tail(s)) /\ n = -Decimal(Tail(s))
      BY <2>3, <3>3, Zenon DEF Numbers
    <3> QED
      BY <3>6, <3>7, <3>8, <3>9, Zenon
  <2>4. CASE s # <<>> /\ s[1] # "-"
    <3>1. s # <<"-", "0">>
      BY <2>4
    <3>2. IsInteger(s) <=> IsNumeral(s)
      BY <2>4, <3>1, Zenon DEF IsInteger
    <3>3. IntegerOf(s) = Decimal(s)
      BY <2>4, Zenon DEF IntegerOf
    <3>4. \A n : n \in Numbers(s) <=> IsNumeral(s) /\ n = Decimal(s)
      BY <2>4, Zenon DEF Numbers
    <3> QED
      BY <3>2, <3>3, <3>4, Zenon
  <2> QED
    BY <2>2, <2>3, <2>4, Zenon

\* An integer is not empty and there is no "e" in it.
<1>IntegerChars. ASSUME NEW s \in Seq(Chars), IsInteger(s)
                 PROVE  Len(s) > 0 /\ \A k \in 1 .. Len(s) : s[k] # "e"
  <2> USE <1>IntegerChars
  <2>1. Len(s) \in Nat
    BY LenProperties, Zenon
  <2>2. ~IsDigit("e")
    BY DEF IsDigit, Digits
  <2>3. CASE s # <<>> /\ s[1] = "-"
    <3>1. Len(s) > 0
      BY <2>1, <2>3, EmptySeq
    <3>2. /\ Tail(s) \in Seq(Chars)
          /\ Len(Tail(s)) = Len(s) - 1
          /\ \A k \in 1 .. Len(Tail(s)) : Tail(s)[k] = s[k + 1]
      BY <2>3, HeadTailProperties, Zenon
    <3>3. IsNumeral(Tail(s))
      BY <2>3, Zenon DEF IsInteger
    <3>4. \A k \in 1 .. Len(Tail(s)) : IsDigit(Tail(s)[k])
      BY <3>2, <3>3, NumeralFacts, Zenon
    <3>5. ASSUME NEW k \in 1 .. Len(s) PROVE s[k] # "e"
      <4>1. CASE k = 1
        BY <2>3, <4>1
      <4>2. CASE k # 1
        <5>1. k - 1 \in 1 .. Len(Tail(s)) /\ (k - 1) + 1 = k
          BY <2>1, <3>2, <4>2
        <5>2. IsDigit(s[(k - 1) + 1])
          BY <3>2, <3>4, <5>1, Zenon
        <5> QED
          BY <2>2, <5>1, <5>2, Zenon
      <4> QED
        BY <4>1, <4>2, Zenon
    <3> QED
      BY <3>1, <3>5, Zenon
  <2>4. CASE ~ (s # <<>> /\ s[1] = "-")
    <3>1. IsNumeral(s)
      BY <2>4, Zenon DEF IsInteger
    <3> QED
      BY <2>2, <3>1, NumeralFacts, Zenon
  <2> QED
    BY <2>3, <2>4, Zenon

\* decode_int reads the integer of the grammar.
<1>IntRight. ASSUME NEW text \in Seq(Chars), NEW i \in 1 .. Len(text), NEW j \in i .. Len(text),
                    text[i] = "i", NEW x
             PROVE  x \in IntegersOf(SubSeq(text, i, j)) <=>
                      /\ DecodeInt(text, i).valid
                      /\ DecodeInt(text, i).index = j + 1
                      /\ DecodeInt(text, i).value = x
  <2> USE <1>IntRight
  <2> DEFINE t == SubSeq(text, i, j)
             r == DecodeInt(text, i)
             e == Find(text, i + 1, "e")
             s == SubSeq(text, i + 1, j - 1)
  <2>1. Len(text) \in Nat /\ i + 1 \in 1 .. Len(text) + 1
    BY LenProperties
  <2>2. e \in i + 1 .. Len(text) + 1 /\ (e <= Len(text) => text[e] = "e")
    BY <2>1, FindFacts, Zenon
  <2>3. x \in IntegersOf(t) <=> Framed(t, "i") /\ \E n \in Numbers(Inner(t)) \cap Long : x = <<"Integer", n>>
    BY Zenon DEF IntegersOf
  <2>4. Framed(t, "i") <=> j > i /\ text[j] = "e"
    BY FrameFacts, Zenon
  <2>5. ASSUME j > i
        PROVE  /\ Inner(t) = s
               /\ IsPart(s, Chars, text, i + 1, j - 1)
               /\ \A n : n \in Numbers(s) <=> IsInteger(s) /\ n = IntegerOf(s)
    <3>1. Inner(t) = s
      BY <2>5, FrameFacts, Zenon
    <3>2. i + 1 \in 1 .. Len(text) + 1 /\ j - 1 \in (i + 1) - 1 .. Len(text)
      BY <2>1, <2>5
    <3>3. IsPart(s, Chars, text, i + 1, j - 1)
      BY <3>2, PartFacts, Zenon
    <3>4. s \in Seq(Chars)
      BY <3>3, Zenon DEF IsPart
    <3> QED
      BY <3>1, <3>3, <3>4, <1>IntegersAgree, Zenon
  <2>6. ASSUME x \in IntegersOf(t) PROVE r = Ok(x, j + 1)
    <3>1. PICK n \in Numbers(Inner(t)) \cap Long : x = <<"Integer", n>>
      BY <2>3, <2>6, Zenon
    <3>2. j > i /\ text[j] = "e"
      BY <2>3, <2>4, <2>6, Zenon
    <3>3. IsInteger(s) /\ n = IntegerOf(s) /\ n \in Long
      BY <2>5, <3>1, <3>2, Zenon
    <3>4. s \in Seq(Chars) /\ Len(s) = (j - 1) - (i + 1) + 1
          /\ \A k \in 1 .. (j - 1) - (i + 1) + 1 : s[k] = text[(i + 1) + k - 1]
      BY <2>5, <3>2, Zenon DEF IsPart
    <3>5. Len(s) > 0 /\ \A k \in 1 .. Len(s) : s[k] # "e"
      BY <3>3, <3>4, <1>IntegerChars, Zenon
    <3> HIDE DEF s
    <3>6. ASSUME NEW k \in i + 1 .. j - 1 PROVE text[k] # "e"
      <4>1. k - i \in 1 .. (j - 1) - (i + 1) + 1 /\ (i + 1) + (k - i) - 1 = k
        OBVIOUS
      <4>2. k - i \in 1 .. Len(s)
        BY <3>4, <4>1, Zenon
      <4>3. s[k - i] # "e" /\ s[k - i] = text[(i + 1) + (k - i) - 1]
        BY <3>4, <3>5, <4>1, <4>2, Zenon
      <4> QED
        BY <4>1, <4>3, Zenon
    <3>7. j \in i + 1 .. Len(text)
      BY <3>2
    <3>8. e = j
      BY <2>1, <3>2, <3>6, <3>7, FindIs, Zenon
    <3>9. ~ (Left(text, i) < 3) /\ ~ (j > Len(text))
      BY <2>1, <3>4, <3>5 DEF Left
    <3> QED
      BY <3>1, <3>3, <3>8, <3>9, Zenon DEF DecodeInt, s
  <2>7. ASSUME r.valid, r.index = j + 1 PROVE r.value \in IntegersOf(t)
    <3> DEFINE u == SubSeq(text, i + 1, e - 1)
    <3>1. /\ ~ (e > Len(text))
          /\ IsInteger(u)
          /\ ~ (IntegerOf(u) \notin Long)
          /\ r = Ok(<<"Integer", IntegerOf(u)>>, e + 1)
      BY <2>7, ResultFacts, Zenon DEF DecodeInt
    <3> HIDE DEF r
    <3>2. e + 1 = j + 1 /\ r.value = <<"Integer", IntegerOf(u)>>
      BY <2>7, <3>1, ResultFacts, Zenon
    <3>3. e = j /\ j > i /\ e <= Len(text)
      <4> HIDE DEF e
      <4> QED
        BY <2>1, <2>2, <3>2
    <3>4. u = s /\ text[j] = "e"
      BY <2>2, <3>3, Zenon
    <3>5. r.value = <<"Integer", IntegerOf(s)>>
      BY <3>2, <3>4, Zenon
    <3>6. IntegerOf(s) \in Numbers(Inner(t)) \cap Long
      BY <2>5, <3>1, <3>3, <3>4, Zenon
    <3> QED
      BY <2>4, <3>3, <3>4, <3>5, <3>6, Zenon DEF IntegersOf
  <2> HIDE DEF r, t
  <2>8. ASSUME x \in IntegersOf(t) PROVE r.valid /\ r.index = j + 1 /\ r.value = x
    <3>1. Ok(x, j + 1).valid /\ Ok(x, j + 1).index = j + 1 /\ Ok(x, j + 1).value = x
      BY ResultFacts, Zenon
    <3> QED
      BY <2>6, <2>8, <3>1, Zenon
  <2> QED
    BY <2>7, <2>8, Zenon DEF r, t

\* Where the ":" of a string is: decode_string finds it.
<1>LengthRight. ASSUME NEW text \in Seq(Chars), NEW i \in 1 .. Len(text), NEW j \in i .. Len(text),
                       NEW k \in 1 .. j - i + 1
                PROVE  /\ SubSeq(SubSeq(text, i, j), k + 1, Len(SubSeq(text, i, j))) = SubSeq(text, i + k, j)
                       /\ IsLength(SubSeq(text, i, j), k) =>
                            /\ k > 1
                            /\ i + k - 1 = Find(text, i, ":")
                            /\ IsNumeral(SubSeq(text, i, i + k - 2))
                            /\ Decimal(SubSeq(text, i, i + k - 2)) = j - (i + k - 1)
                       /\ /\ k > 1
                          /\ i + k - 1 = Find(text, i, ":")
                          /\ IsNumeral(SubSeq(text, i, i + k - 2))
                          /\ Decimal(SubSeq(text, i, i + k - 2)) = j - (i + k - 1)
                          => IsLength(SubSeq(text, i, j), k)
  <2> DEFINE t == SubSeq(text, i, j)
             n == j - i + 1
             len == SubSeq(text, i, i + k - 2)
             c == i + k - 1
  <2>1. Len(text) \in Nat
    BY LenProperties, Zenon
  <2>2. /\ i \in 1 .. Len(text) + 1 /\ j \in i - 1 .. Len(text)
        /\ k + 1 \in 1 .. j - i + 2 /\ n \in (k + 1) - 1 .. j - i + 1
        /\ i + (k + 1) - 1 = i + k /\ i + n - 1 = j
        /\ 1 \in 1 .. j - i + 2 /\ k - 1 \in 1 - 1 .. j - i + 1
        /\ i + 1 - 1 = i /\ i + (k - 1) - 1 = i + k - 2
    BY <2>1
  <2>3. IsPart(t, Chars, text, i, j)
    BY <2>2, PartFacts, Zenon
  <2>4. Len(t) = n /\ t[k] = text[c]
    BY <2>3, Zenon DEF IsPart
  <2>5. SubSeq(t, k + 1, n) = SubSeq(text, i + k, j)
    <3>1. SubSeq(SubSeq(text, i, j), k + 1, n) = SubSeq(text, i + (k + 1) - 1, i + n - 1)
      <4> HIDE DEF n
      <4> QED
        BY <2>2, PartOfPart
    <3> QED
      BY <2>2, <3>1, Zenon
  <2>6. SubSeq(t, 1, k - 1) = len
    <3> DEFINE p == 1
    <3>1. p \in 1 .. j - i + 2 /\ k - 1 \in p - 1 .. j - i + 1 /\ i + p - 1 = i
      BY <2>2
    <3> HIDE DEF p
    <3>2. SubSeq(SubSeq(text, i, j), p, k - 1) = SubSeq(text, i + p - 1, i + (k - 1) - 1)
      BY <2>2, <3>1, PartOfPart
    <3> QED
      BY <2>2, <3>1, <3>2, Zenon DEF p
  <2> HIDE DEF t
  <2>7. IsLength(t, k) <=> text[c] = ":" /\ IsNumeral(len) /\ Decimal(len) = n - k
    BY <2>4, <2>6, Zenon DEF IsLength
  <2>8. n - k = j - c /\ c \in i .. Len(text)
    BY <2>1
  <2>9. ASSUME text[c] = ":", IsNumeral(len) PROVE k > 1 /\ c = Find(text, i, ":")
    <3>1. i + k - 2 \in i - 1 .. Len(text)
      BY <2>1
    <3>2. IsPart(len, Chars, text, i, i + k - 2)
      BY <2>2, <3>1, PartFacts, Zenon
    <3> HIDE DEF len
    <3>3. /\ Len(len) = (i + k - 2) - i + 1
          /\ Len(len) > 0
          /\ \A m \in 1 .. Len(len) : IsDigit(len[m])
      BY <2>9, <3>2, NumeralFacts, Zenon DEF IsPart
    <3>4. ~IsDigit(":")
      BY DEF IsDigit, Digits
    <3>5. ASSUME NEW m \in i .. c - 1 PROVE text[m] # ":"
      <4>1. m - i + 1 \in 1 .. (i + k - 2) - i + 1 /\ i + (m - i + 1) - 1 = m
        OBVIOUS
      <4>2. IsDigit(len[m - i + 1])
        BY <3>3, <4>1, Zenon
      <4>3. len[m - i + 1] = text[m]
        BY <3>2, <4>1, Zenon DEF IsPart
      <4> QED
        BY <3>4, <4>2, <4>3, Zenon
    <3>6. c = Find(text, i, ":")
      <4> HIDE DEF c
      <4> QED
        BY <2>1, <2>2, <2>8, <2>9, <3>5, FindIs, Zenon
    <3> QED
      BY <3>3, <3>6
  <2>10. ASSUME c = Find(text, i, ":") PROVE text[c] = ":"
    <3>1. c <= Len(text)
      BY <2>1
    <3> HIDE DEF c
    <3> QED
      BY <2>1, <2>2, <2>10, <3>1, FindFacts, Zenon
  <2>11. IsLength(t, k) <=> k > 1 /\ c = Find(text, i, ":") /\ IsNumeral(len) /\ Decimal(len) = j - c
    <3> HIDE DEF c, len
    <3> QED
      BY <2>7, <2>8, <2>9, <2>10, Zenon
  <2> QED
    BY <2>4, <2>5, <2>11, Zenon DEF t

\* The string of the grammar is what decode_string reads, except the empty
\* string at the very end of the text.
<1>StringRight. ASSUME NEW text \in Texts, NEW i \in 1 .. Len(text), NEW j \in i .. Len(text),
                       NEW x \in StringsOf(SubSeq(text, i, j))
                PROVE  IF DecodeString(text, i).valid
                         THEN DecodeString(text, i) = Ok(x, j + 1)
                         ELSE i = Len(text) - 1 /\ j = Len(text) /\ x = <<"String", <<>>>>
  <2> DEFINE t == SubSeq(text, i, j)
             r == DecodeString(text, i)
  <2>1. text \in Seq(Chars) /\ Len(text) \in Nat /\ Len(text) <= LongMax
    BY LenProperties, Zenon DEF Texts
  <2>2. Len(t) = j - i + 1
    BY <2>1, FrameFacts
  <2>3. PICK k \in 1 .. j - i + 1 : IsLength(t, k) /\ x = <<"String", SubSeq(t, k + 1, Len(t))>>
    BY <2>2, Zenon DEF StringsOf
  <2> DEFINE c == i + k - 1
             n == j - c
             v == SubSeq(text, c + 1, j)
  <2>4. /\ x = <<"String", SubSeq(text, i + k, j)>>
        /\ k > 1
        /\ c = Find(text, i, ":")
        /\ IsNumeral(SubSeq(text, i, i + k - 2))
        /\ Decimal(SubSeq(text, i, i + k - 2)) = n
    BY <2>1, <2>3, <1>LengthRight, Zenon
  <2>5. /\ c \in i + 1 .. Len(text) + 1 /\ c \in Nat /\ c <= Len(text) /\ n \in Nat /\ n <= LongMax
        /\ c + n = j /\ c + n <= Len(text) /\ i + k - 2 = c - 1 /\ i + k = c + 1
        /\ c + 1 + n = j + 1 /\ i \in 1 .. Len(text) + 2
    BY <2>1, <2>4, LongAssumption
  <2>6. x = <<"String", v>> /\ IsNumeral(SubSeq(text, i, c - 1)) /\ Decimal(SubSeq(text, i, c - 1)) = n
    BY <2>4, <2>5, Zenon
  <2> HIDE DEF c, n
  <2>7. CASE ~ (Left(text, i) < 3)
    <3>1. StringRead(text, i, c, n, v)
      BY <2>4, <2>5, <2>6, <2>7, Zenon DEF StringRead
    <3>2. r = Ok(<<"String", v>>, c + 1 + n)
      BY <2>1, <2>5, <3>1, ResultOfString, Zenon
    <3>3. r = Ok(x, j + 1)
      BY <2>5, <2>6, <3>2, Zenon
    <3>4. Ok(x, j + 1).valid
      BY ResultFacts, Zenon
    <3>5. r.valid
      BY <3>3, <3>4, Zenon
    <3> HIDE DEF r
    <3>6. IF r.valid THEN r = Ok(x, j + 1) ELSE FALSE
      BY <3>3, <3>5, Zenon
    <3> QED
      BY <3>6, Zenon DEF r
  <2>8. CASE Left(text, i) < 3
    <3>1. ~r.valid
      BY <2>8, ResultFacts, Zenon DEF DecodeString
    <3>2. i = Len(text) - 1 /\ j = Len(text) /\ c = Len(text)
      BY <2>1, <2>5, <2>8 DEF Left, n
    <3>3. c + 1 \in Int /\ j \in Int /\ j < c + 1
      BY <2>5, <3>2
    <3>4. v = <<>>
      BY <3>3, SubSeqEmpty, Zenon
    <3> QED
      BY <2>6, <3>1, <3>2, <3>4, Zenon
  <2> QED
    BY <2>7, <2>8, Zenon

\* decode_string reads a string of the grammar.
<1>StringSound. ASSUME NEW text \in Seq(Chars), NEW i \in 1 .. Len(text), NEW j \in i .. Len(text),
                       DecodeString(text, i).valid, DecodeString(text, i).index = j + 1
                PROVE  DecodeString(text, i).value \in StringsOf(SubSeq(text, i, j))
  <2> USE <1>StringSound
  <2> DEFINE t == SubSeq(text, i, j)
             r == DecodeString(text, i)
  <2>1. Len(text) \in Nat /\ i \in 1 .. Len(text) + 2
    BY LenProperties
  <2>2. PICK c, n, v : /\ StringRead(text, i, c, n, v)
                       /\ r.value = <<"String", v>>
                       /\ r.index = c + 1 + n
    BY <2>1, StringOfResult, Zenon
  <2>3. /\ c \in i + 1 .. Len(text) + 1
        /\ n \in Nat
        /\ c = Find(text, i, ":")
        /\ IsNumeral(SubSeq(text, i, c - 1))
        /\ n = Decimal(SubSeq(text, i, c - 1))
        /\ \/ c + n <= Len(text) /\ v = SubSeq(text, c + 1, c + n)
           \/ c = Len(text) + 1 /\ n = 0
    BY <2>2, Zenon DEF StringRead
  <2>4. c + 1 + n = j + 1
    BY <2>2, Zenon
  <2>5. c # Len(text) + 1 /\ c + n = j
    <3>1. c \in i + 1 .. Len(text) + 1 /\ n \in Nat
      BY <2>3, Zenon
    <3> QED
      BY <2>1, <2>4, <3>1
  <2>6. v = SubSeq(text, c + 1, j)
    BY <2>3, <2>5, Zenon
  <2> DEFINE k == c - i + 1
  <2>7. /\ k \in 1 .. j - i + 1 /\ k > 1 /\ i + k - 1 = c /\ i + k - 2 = c - 1 /\ j - c = n
        /\ i + k = c + 1
    <3>1. c \in i + 1 .. Len(text) + 1 /\ n \in Nat
      BY <2>3, Zenon
    <3> QED
      BY <2>1, <2>5, <3>1
  <2> HIDE DEF k
  <2>8. IsLength(t, k) /\ v = SubSeq(t, k + 1, Len(t))
    <3>1. /\ i + k - 1 = Find(text, i, ":")
          /\ IsNumeral(SubSeq(text, i, i + k - 2))
          /\ Decimal(SubSeq(text, i, i + k - 2)) = j - (i + k - 1)
      BY <2>3, <2>7, Zenon
    <3>2. SubSeq(t, k + 1, Len(t)) = SubSeq(text, i + k, j)
      BY <2>7, <1>LengthRight, Zenon
    <3> QED
      BY <2>6, <2>7, <3>1, <3>2, <1>LengthRight, Zenon
  <2>9. Len(t) = j - i + 1
    BY FrameFacts
  <2> QED
    BY <2>2, <2>7, <2>8, <2>9, Zenon DEF StringsOf

\* What a text denotes by its first character.
<1>FirstChar. ASSUME NEW text \in Texts, NEW i \in 1 .. Len(text), NEW j \in i .. Len(text), NEW x
              PROVE  /\ x \in IntegersOf(SubSeq(text, i, j)) => text[i] = "i"
                     /\ x \in StringsOf(SubSeq(text, i, j)) => IsDigit(text[i])
                     /\ IsList(Grammar, SubSeq(text, i, j), x) <=>
                          /\ j > i /\ text[i] = "l" /\ text[j] = "e"
                          /\ \E vs \in Items(text, i + 1, j - 1) : x = <<"List", vs>>
                     /\ IsDict(Grammar, SubSeq(text, i, j), x) <=>
                          /\ j > i /\ text[i] = "d" /\ text[j] = "e"
                          /\ \E ps \in Pairs(text, i + 1, j - 1) :
                               Ascending(KeysOf(ps)) /\ x = <<"Dict", DictOf(ps)>>
  <2> DEFINE t == SubSeq(text, i, j)
  <2>1. text \in Seq(Chars) /\ Len(text) \in Nat
    BY LenProperties, Zenon DEF Texts
  <2>2. /\ t \in Seq(Chars) /\ Len(t) = j - i + 1 /\ t[1] = text[i]
        /\ \A c : Framed(t, c) <=> j > i /\ text[i] = c /\ text[j] = "e"
        /\ j > i => Inner(t) = SubSeq(text, i + 1, j - 1)
    BY <2>1, FrameFacts
  <2>3. ASSUME x \in IntegersOf(t) PROVE text[i] = "i"
    <3>1. Framed(t, "i")
      BY <2>3, Zenon DEF IntegersOf
    <3> QED
      BY <2>2, <3>1, Zenon
  <2>4. ASSUME x \in StringsOf(t) PROVE IsDigit(text[i])
    <3>1. PICK k \in 1 .. Len(t) : IsLength(t, k)
      BY <2>4, Zenon DEF StringsOf
    <3>2. IsNumeral(SubSeq(t, 1, k - 1))
      BY <3>1, Zenon DEF IsLength
    <3>3. 1 \in 1 .. Len(t) + 1 /\ k - 1 \in 1 - 1 .. Len(t)
      BY <2>2
    <3>4. IsPart(SubSeq(t, 1, k - 1), Chars, t, 1, k - 1)
      BY <2>2, <3>3, PartFacts, Zenon
    <3>5. /\ Len(SubSeq(t, 1, k - 1)) > 0
          /\ \A m \in 1 .. Len(SubSeq(t, 1, k - 1)) : IsDigit(SubSeq(t, 1, k - 1)[m])
      BY <3>2, <3>4, NumeralFacts, Zenon DEF IsPart
    <3>6. /\ Len(SubSeq(t, 1, k - 1)) = (k - 1) - 1 + 1
          /\ \A m \in 1 .. (k - 1) - 1 + 1 : SubSeq(t, 1, k - 1)[m] = t[1 + m - 1]
      BY <3>4, Zenon DEF IsPart
    <3> DEFINE u == SubSeq(t, 1, k - 1)
    <3> HIDE DEF u
    <3>7. 1 \in 1 .. Len(u) /\ 1 \in 1 .. (k - 1) - 1 + 1 /\ 1 + 1 - 1 = 1
      BY <2>2, <3>5, <3>6 DEF u
    <3>8. IsDigit(u[1]) /\ u[1] = t[1 + 1 - 1]
      BY <3>5, <3>6, <3>7, Zenon DEF u
    <3> QED
      BY <2>2, <3>7, <3>8, Zenon
  <2> HIDE DEF t
  <2>5. IsList(Grammar, t, x) <=>
          /\ j > i /\ text[i] = "l" /\ text[j] = "e"
          /\ \E vs \in Items(text, i + 1, j - 1) : x = <<"List", vs>>
    BY <2>2, Zenon DEF IsList, Items
  <2>6. IsDict(Grammar, t, x) <=>
          /\ j > i /\ text[i] = "d" /\ text[j] = "e"
          /\ \E ps \in Pairs(text, i + 1, j - 1) : Ascending(KeysOf(ps)) /\ x = <<"Dict", DictOf(ps)>>
    BY <2>2, Zenon DEF IsDict, Pairs
  <2> QED
    BY <2>3, <2>4, <2>5, <2>6, Zenon DEF t

\* What characters denote as a value, split by its type.
<1>ValuesSplit. ASSUME NEW text \in Texts, NEW i \in 1 .. Len(text), NEW j \in i .. Len(text), NEW x
                PROVE  x \in Values(text, i, j) <=>
                         \/ x \in IntegersOf(SubSeq(text, i, j))
                         \/ x \in StringsOf(SubSeq(text, i, j))
                         \/ IsList(Grammar, SubSeq(text, i, j), x)
                         \/ IsDict(Grammar, SubSeq(text, i, j), x)
  <2>1. i \in 1 .. Len(text) + 1 /\ j \in i - 1 .. Len(text)
    OBVIOUS
  <2>2. SubSeq(text, i, j) \in Texts
    BY <2>1, PartIsText, Zenon
  <2> QED
    BY <2>2, DenotedAs, ValuesIn, Zenon DEF Values

\* The value at i is read right: an integer.
<1>IntStep. ASSUME NEW text \in Texts, NEW i \in 1 .. Len(text), text[i] = "i"
            PROVE  ValueRight(text, DecodeInt(text, i), i)
  <2> USE <1>IntStep
  <2> DEFINE r == DecodeInt(text, i)
  <2>1. text \in Seq(Chars) /\ ~IsDigit("i")
    BY DEF Texts, IsDigit, Digits
  <2>2. ASSUME NEW j \in i .. Len(text), NEW x
        PROVE  x \in Values(text, i, j) <=> r.valid /\ r.index = j + 1 /\ x = r.value
    <3>1. x \in IntegersOf(SubSeq(text, i, j)) <=> r.valid /\ r.index = j + 1 /\ r.value = x
      BY <2>1, <1>IntRight, Zenon
    <3>2. /\ x \notin StringsOf(SubSeq(text, i, j))
          /\ ~IsList(Grammar, SubSeq(text, i, j), x)
          /\ ~IsDict(Grammar, SubSeq(text, i, j), x)
      BY <2>1, <1>FirstChar
    <3> QED
      BY <3>1, <3>2, <1>ValuesSplit, Zenon
  <2> QED
    BY <2>2, Zenon DEF ValueRight

\* A string.
<1>StringStep. ASSUME NEW text \in Texts, NEW i \in 1 .. Len(text), IsDigit(text[i])
               PROVE  ValueRight(text, DecodeString(text, i), i)
  <2> USE <1>StringStep
  <2> DEFINE r == DecodeString(text, i)
  <2>1. text \in Seq(Chars) /\ ~IsDigit("i") /\ ~IsDigit("l") /\ ~IsDigit("d")
    BY DEF Texts, IsDigit, Digits
  <2>2. ASSUME NEW j \in i .. Len(text), NEW x
        PROVE  x \in Values(text, i, j) <=> x \in StringsOf(SubSeq(text, i, j))
    <3>1. text[i] # "i" /\ text[i] # "l" /\ text[i] # "d"
      BY <2>1, Zenon
    <3>2. /\ x \notin IntegersOf(SubSeq(text, i, j))
          /\ ~IsList(Grammar, SubSeq(text, i, j), x)
          /\ ~IsDict(Grammar, SubSeq(text, i, j), x)
      BY <3>1, <1>FirstChar
    <3> QED
      BY <3>2, <1>ValuesSplit, Zenon
  <2>3. ASSUME NEW j \in i .. Len(text), r.valid, r.index = j + 1
        PROVE  r.value \in Values(text, i, j)
    BY <2>1, <2>2, <2>3, <1>StringSound, Zenon
  <2>4. ASSUME NEW j \in i .. Len(text), NEW x \in Values(text, i, j)
        PROVE  \/ r.valid /\ r.index = j + 1 /\ x = r.value
               \/ ~r.valid /\ i = Len(text) - 1 /\ j = Len(text) /\ x = <<"String", <<>>>>
    <3>1. x \in StringsOf(SubSeq(text, i, j))
      BY <2>2, <2>4, Zenon
    <3>2. /\ r.valid => r = Ok(x, j + 1)
          /\ ~r.valid => i = Len(text) - 1 /\ j = Len(text) /\ x = <<"String", <<>>>>
      BY <3>1, <1>StringRight, Zenon
    <3>3. Ok(x, j + 1).index = j + 1 /\ Ok(x, j + 1).value = x
      BY ResultFacts, Zenon
    <3> HIDE DEF r
    <3> QED
      BY <3>2, <3>3, Zenon
  <2> HIDE DEF r
  <2> QED
    BY <2>3, <2>4, Zenon DEF ValueRight, r

\* A list.
<1>ListStep. ASSUME NEW text \in Texts, NEW i \in 1 .. Len(text), text[i] = "l", NEW p,
                    ItemsRight(text, p[<<"items", i + 1>>], i + 1)
             PROVE  ValueRight(text, DecodeList(text, p, i), i)
  <2> USE <1>ListStep
  <2> DEFINE r == DecodeList(text, p, i)
             q == p[<<"items", i + 1>>]
  <2>1. Len(text) \in Nat /\ ~IsDigit("l")
    BY LenProperties DEF Texts, IsDigit, Digits
  <2>2. ASSUME NEW j \in i .. Len(text), NEW x
        PROVE  x \in Values(text, i, j) <=>
                 /\ j > i /\ text[j] = "e"
                 /\ \E vs \in Items(text, i + 1, j - 1) : x = <<"List", vs>>
    <3>1. /\ x \notin IntegersOf(SubSeq(text, i, j))
          /\ x \notin StringsOf(SubSeq(text, i, j))
          /\ ~IsDict(Grammar, SubSeq(text, i, j), x)
      BY <2>1, <1>FirstChar
    <3>2. IsList(Grammar, SubSeq(text, i, j), x) <=>
            /\ j > i /\ text[j] = "e"
            /\ \E vs \in Items(text, i + 1, j - 1) : x = <<"List", vs>>
      <4>1. IsList(Grammar, SubSeq(text, i, j), x) <=>
              /\ j > i /\ text[i] = "l" /\ text[j] = "e"
              /\ \E vs \in Items(text, i + 1, j - 1) : x = <<"List", vs>>
        BY <1>FirstChar
      <4> QED
        BY <4>1, Zenon
    <3> QED
      BY <3>1, <3>2, <1>ValuesSplit, Zenon
  <2>3. CASE Left(text, i) < 2
    <3>1. ~r.valid
      BY <2>3, ResultFacts, Zenon DEF DecodeList
    <3>2. \A j \in i .. Len(text) : ~ (j > i)
      BY <2>1, <2>3 DEF Left
    <3> QED
      BY <2>2, <3>1, <3>2, Zenon DEF ValueRight
  <2>4. CASE ~ (Left(text, i) < 2)
    <3>1. r.valid <=> q.valid
      BY <2>4, ResultFacts, Zenon DEF DecodeList
    <3>2. q.valid => r.index = q.index /\ r.value = <<"List", q.value>>
      BY <2>4, ResultFacts, Zenon DEF DecodeList
    <3>3. ASSUME NEW j \in i .. Len(text), j > i, text[j] = "e", NEW vs
          PROVE  vs \in Items(text, i + 1, j - 1) <=> q.valid /\ q.index = j + 1 /\ vs = q.value
      <4>1. j - 1 \in (i + 1) - 1 .. Len(text) - 1 /\ (j - 1) + 1 = j /\ (j - 1) + 2 = j + 1
        BY <2>1, <3>3
      <4> QED
        BY <3>3, <4>1, Zenon DEF ItemsRight
    <3>4. ASSUME NEW j \in i .. Len(text), r.valid, r.index = j + 1
          PROVE  r.value \in Values(text, i, j)
      <4>1. q.valid /\ q.index = j + 1 /\ r.value = <<"List", q.value>>
        BY <3>1, <3>2, <3>4, Zenon
      <4>2. q.index - 1 \in i + 1 .. Len(text) /\ text[q.index - 1] = "e"
        BY <4>1, Zenon DEF ItemsRight, EndRight
      <4>3. (j + 1) - 1 = j
        BY <2>1
      <4>4. j \in i + 1 .. Len(text) /\ text[j] = "e"
        BY <4>1, <4>2, <4>3, Zenon
      <4>5. j > i
        BY <4>4
      <4> QED
        BY <2>2, <3>3, <4>1, <4>4, <4>5, Zenon
    <3>5. ASSUME NEW j \in i .. Len(text), NEW x \in Values(text, i, j)
          PROVE  r.valid /\ r.index = j + 1 /\ x = r.value
      <4>1. j > i /\ text[j] = "e"
        BY <2>2, <3>5, Zenon
      <4>2. PICK vs \in Items(text, i + 1, j - 1) : x = <<"List", vs>>
        BY <2>2, <3>5, Zenon
      <4>3. q.valid /\ q.index = j + 1 /\ vs = q.value
        BY <3>3, <4>1, <4>2, Zenon
      <4> QED
        BY <3>1, <3>2, <4>2, <4>3, Zenon
    <3> HIDE DEF r
    <3> QED
      BY <3>4, <3>5, Zenon DEF ValueRight, r
  <2> QED
    BY <2>3, <2>4, Zenon

\* A dictionary.
<1>DictStep. ASSUME NEW text \in Texts, NEW i \in 1 .. Len(text), text[i] = "d", NEW p,
                    PairsRight(text, p[<<"pairs", i + 1>>], i + 1)
             PROVE  ValueRight(text, DecodeDict(text, p, i), i)
  <2> USE <1>DictStep
  <2> DEFINE r == DecodeDict(text, p, i)
             q == p[<<"pairs", i + 1>>]
  <2>1. Len(text) \in Nat /\ ~IsDigit("d")
    BY LenProperties DEF Texts, IsDigit, Digits
  <2>2. ASSUME NEW j \in i .. Len(text), NEW x
        PROVE  x \in Values(text, i, j) <=>
                 /\ j > i /\ text[j] = "e"
                 /\ \E ps \in Pairs(text, i + 1, j - 1) :
                      Ascending(KeysOf(ps)) /\ x = <<"Dict", DictOf(ps)>>
    <3>1. /\ x \notin IntegersOf(SubSeq(text, i, j))
          /\ x \notin StringsOf(SubSeq(text, i, j))
          /\ ~IsList(Grammar, SubSeq(text, i, j), x)
      BY <2>1, <1>FirstChar
    <3>2. IsDict(Grammar, SubSeq(text, i, j), x) <=>
            /\ j > i /\ text[j] = "e"
            /\ \E ps \in Pairs(text, i + 1, j - 1) :
                 Ascending(KeysOf(ps)) /\ x = <<"Dict", DictOf(ps)>>
      <4>1. IsDict(Grammar, SubSeq(text, i, j), x) <=>
              /\ j > i /\ text[i] = "d" /\ text[j] = "e"
              /\ \E ps \in Pairs(text, i + 1, j - 1) :
                   Ascending(KeysOf(ps)) /\ x = <<"Dict", DictOf(ps)>>
        BY <1>FirstChar
      <4> QED
        BY <4>1, Zenon
    <3> QED
      BY <3>1, <3>2, <1>ValuesSplit, Zenon
  <2>3. CASE Left(text, i) < 2
    <3>1. ~r.valid
      BY <2>3, ResultFacts, Zenon DEF DecodeDict
    <3>2. \A j \in i .. Len(text) : ~ (j > i)
      BY <2>1, <2>3 DEF Left
    <3> QED
      BY <2>2, <3>1, <3>2, Zenon DEF ValueRight
  <2>4. CASE ~ (Left(text, i) < 2)
    <3>1. r.valid <=> q.valid /\ Ascending(q.value.keys)
      BY <2>4, ResultFacts, Zenon DEF DecodeDict
    <3>2. r.valid => r.index = q.index /\ r.value = <<"Dict", q.value.dict>>
      <4>1. ASSUME r.valid PROVE r = Ok(<<"Dict", q.value.dict>>, q.index)
        BY <2>4, <3>1, <4>1, Zenon DEF DecodeDict
      <4>2. /\ Ok(<<"Dict", q.value.dict>>, q.index).index = q.index
            /\ Ok(<<"Dict", q.value.dict>>, q.index).value = <<"Dict", q.value.dict>>
        BY ResultFacts, Zenon
      <4> HIDE DEF r, q
      <4> QED
        BY <4>1, <4>2, Zenon
    <3>3. ASSUME NEW j \in i .. Len(text), j > i, text[j] = "e"
          PROVE  /\ q.valid /\ q.index = j + 1 =>
                      \E ps \in Pairs(text, i + 1, j - 1) : IsPairsOf(q.value, ps)
                 /\ \A ps \in Pairs(text, i + 1, j - 1) :
                      q.valid /\ q.index = j + 1 /\ IsPairsOf(q.value, ps)
      <4>1. j - 1 \in (i + 1) - 1 .. Len(text) - 1 /\ (j - 1) + 1 = j /\ (j - 1) + 2 = j + 1
        BY <2>1, <3>3
      <4> QED
        BY <3>3, <4>1, Zenon DEF PairsRight
    <3>4. ASSUME NEW j \in i .. Len(text), r.valid, r.index = j + 1
          PROVE  r.value \in Values(text, i, j)
      <4>1. /\ q.valid /\ q.index = j + 1 /\ r.value = <<"Dict", q.value.dict>>
            /\ Ascending(q.value.keys)
        BY <3>1, <3>2, <3>4, Zenon
      <4>2. q.index - 1 \in i + 1 .. Len(text) /\ text[q.index - 1] = "e"
        BY <4>1, Zenon DEF PairsRight, EndRight
      <4>3. (j + 1) - 1 = j
        BY <2>1
      <4>4. j \in i + 1 .. Len(text) /\ text[j] = "e"
        BY <4>1, <4>2, <4>3, Zenon
      <4>5. j > i
        BY <4>4
      <4>6. PICK ps \in Pairs(text, i + 1, j - 1) : IsPairsOf(q.value, ps)
        BY <3>3, <4>1, <4>4, <4>5, Zenon
      <4>7. Ascending(KeysOf(ps)) /\ r.value = <<"Dict", DictOf(ps)>>
        BY <4>1, <4>6, Zenon DEF IsPairsOf
      <4> QED
        BY <2>2, <4>4, <4>5, <4>6, <4>7, Zenon
    <3>5. ASSUME NEW j \in i .. Len(text), NEW x \in Values(text, i, j)
          PROVE  r.valid /\ r.index = j + 1 /\ x = r.value
      <4>1. j > i /\ text[j] = "e"
        BY <2>2, <3>5, Zenon
      <4>2. PICK ps \in Pairs(text, i + 1, j - 1) :
              Ascending(KeysOf(ps)) /\ x = <<"Dict", DictOf(ps)>>
        BY <2>2, <3>5, Zenon
      <4>3. q.valid /\ q.index = j + 1 /\ q.value.keys = KeysOf(ps) /\ q.value.dict = DictOf(ps)
        BY <3>3, <4>1, <4>2, Zenon DEF IsPairsOf
      <4> QED
        BY <3>1, <3>2, <4>2, <4>3, Zenon
    <3> HIDE DEF r
    <3> QED
      BY <3>4, <3>5, Zenon DEF ValueRight, r
  <2> QED
    BY <2>3, <2>4, Zenon

\* Characters as a list of items: nothing, or the end m of the first one.
<1>ItemsSplit. ASSUME NEW text \in Texts, NEW i \in 1 .. Len(text) + 1, NEW j \in i - 1 .. Len(text), NEW x
               PROVE  /\ j = i - 1 => (x \in Items(text, i, j) <=> x = <<>>)
                      /\ j # i - 1 => (x \in Items(text, i, j) <=> \E m \in i + 1 .. j + 1 : IsItemsAt(text, i, j, x, m))
  <2> DEFINE t == SubSeq(text, i, j)
  <2>1. text \in Seq(Chars) /\ Len(text) \in Nat
    BY LenProperties, Zenon DEF Texts
  <2>2. t \in Texts /\ Len(t) = j - i + 1
    BY PartIsText, Zenon
  <2>3. /\ t = <<>> => (x \in Items(text, i, j) <=> x = <<>>)
        /\ t # <<>> => (x \in Items(text, i, j) <=> IsItems(Grammar, t, x))
    <3>1. Items(text, i, j) = ItemsOf(Grammar, t)
      BY <2>2, DenotedAs, Zenon DEF Items
    <3> HIDE DEF t
    <3>2. /\ t = <<>> => (x \in ItemsOf(Grammar, t) <=> x = <<>>)
          /\ t # <<>> => (x \in ItemsOf(Grammar, t) <=> IsItems(Grammar, t, x))
      BY ItemsIn
    <3> QED
      BY <3>1, <3>2
  <2>4. t = <<>> <=> j = i - 1
    <3>1. t \in Seq(Chars)
      BY <2>2, Zenon DEF Texts
    <3> HIDE DEF t
    <3>2. t = <<>> => Len(t) = 0
      BY EmptySeq
    <3>3. t # <<>> => Len(t) # 0
      BY <3>1, EmptySeq
    <3> QED
      BY <2>2, <3>2, <3>3
  <2>5. ASSUME NEW k \in 1 .. Len(t)
        PROVE  /\ SubSeq(t, 1, k) = SubSeq(text, i, (i + k) - 1)
               /\ SubSeq(t, k + 1, Len(t)) = SubSeq(text, i + k, j)
    <3> DEFINE a == 1
               l == j - i + 1
    <3>1. /\ a \in 1 .. j - i + 2 /\ k \in a - 1 .. j - i + 1 /\ i + a - 1 = i
          /\ k + 1 \in 1 .. j - i + 2 /\ l \in (k + 1) - 1 .. j - i + 1
          /\ i + (k + 1) - 1 = i + k /\ i + l - 1 = j
      BY <2>2
    <3>2. l = Len(t)
      BY <2>2, Zenon
    <3> HIDE DEF a, l
    <3>3. SubSeq(t, a, k) = SubSeq(text, i + a - 1, i + k - 1)
      BY <2>1, <3>1, PartOfPart
    <3>4. SubSeq(t, k + 1, l) = SubSeq(text, i + (k + 1) - 1, i + l - 1)
      BY <2>1, <3>1, PartOfPart
    <3> HIDE DEF t
    <3>5. SubSeq(t, k + 1, Len(t)) = SubSeq(text, i + k, j)
      BY <3>1, <3>2, <3>4
    <3>6. SubSeq(t, a, k) = SubSeq(text, i, i + k - 1)
      BY <3>1, <3>3
    <3> QED
      BY <3>5, <3>6 DEF a
  <2> HIDE DEF t
  <2>6. ASSUME IsItems(Grammar, t, x) PROVE \E m \in i + 1 .. j + 1 : IsItemsAt(text, i, j, x, m)
    <3>1. PICK k \in 1 .. Len(t) :
            \E v \in Grammar[<<"value", SubSeq(t, 1, k)>>] :
              \E vs \in Grammar[<<"items", SubSeq(t, k + 1, Len(t))>>] : x = <<v>> \o vs
      BY <2>6, Zenon DEF IsItems
    <3>2. i + k \in i + 1 .. j + 1
      BY <2>1, <2>2
    <3>3. IsItemsAt(text, i, j, x, i + k)
      BY <2>5, <3>1, Zenon DEF IsItemsAt, Values, Items
    <3> QED
      BY <3>2, <3>3, Zenon
  <2>7. ASSUME NEW m \in i + 1 .. j + 1, IsItemsAt(text, i, j, x, m) PROVE IsItems(Grammar, t, x)
    <3>1. m - i \in 1 .. Len(t) /\ i + (m - i) = m
      BY <2>1, <2>2
    <3>2. /\ SubSeq(t, 1, m - i) = SubSeq(text, i, m - 1)
          /\ SubSeq(t, (m - i) + 1, Len(t)) = SubSeq(text, m, j)
      BY <2>5, <3>1, Zenon
    <3>3. \E v \in Grammar[<<"value", SubSeq(t, 1, m - i)>>] :
            \E vs \in Grammar[<<"items", SubSeq(t, (m - i) + 1, Len(t))>>] : x = <<v>> \o vs
      BY <2>7, <3>2, Zenon DEF IsItemsAt, Values, Items
    <3> QED
      BY <3>1, <3>3, Zenon DEF IsItems
  <2> QED
    BY <2>3, <2>4, <2>6, <2>7, Zenon

\* Characters as a list of pairs: nothing, or the ends of the first key and value.
<1>PairsSplit. ASSUME NEW text \in Texts, NEW i \in 1 .. Len(text) + 1, NEW j \in i - 1 .. Len(text), NEW x
               PROVE  /\ j = i - 1 => (x \in Pairs(text, i, j) <=> x = <<>>)
                      /\ j # i - 1 => (x \in Pairs(text, i, j) <=>
                           \E m \in i + 1 .. j + 1 : \E n \in m + 1 .. j + 1 : IsPairsAt(text, i, j, x, m, n))
  <2> DEFINE t == SubSeq(text, i, j)
  <2>1. text \in Seq(Chars) /\ Len(text) \in Nat
    BY LenProperties, Zenon DEF Texts
  <2>2. t \in Texts /\ Len(t) = j - i + 1
    BY PartIsText, Zenon
  <2>3. /\ t = <<>> => (x \in Pairs(text, i, j) <=> x = <<>>)
        /\ t # <<>> => (x \in Pairs(text, i, j) <=> IsPairs(Grammar, t, x))
    <3>1. Pairs(text, i, j) = PairsOf(Grammar, t)
      BY <2>2, DenotedAs, Zenon DEF Pairs
    <3> HIDE DEF t
    <3>2. /\ t = <<>> => (x \in PairsOf(Grammar, t) <=> x = <<>>)
          /\ t # <<>> => (x \in PairsOf(Grammar, t) <=> IsPairs(Grammar, t, x))
      BY PairsIn
    <3> QED
      BY <3>1, <3>2
  <2>4. t = <<>> <=> j = i - 1
    <3>1. t \in Seq(Chars)
      BY <2>2, Zenon DEF Texts
    <3> HIDE DEF t
    <3>2. t = <<>> => Len(t) = 0
      BY EmptySeq
    <3>3. t # <<>> => Len(t) # 0
      BY <3>1, EmptySeq
    <3> QED
      BY <2>2, <3>2, <3>3
  <2>5. ASSUME NEW h \in 0 .. Len(t), NEW k \in h .. Len(t)
        PROVE  SubSeq(t, h + 1, k) = SubSeq(text, i + h, (i + k) - 1)
    <3>1. /\ h + 1 \in 1 .. j - i + 2 /\ k \in (h + 1) - 1 .. j - i + 1
          /\ i + (h + 1) - 1 = i + h
      BY <2>2
    <3>2. SubSeq(t, h + 1, k) = SubSeq(text, i + (h + 1) - 1, i + k - 1)
      BY <2>1, <3>1, PartOfPart
    <3> HIDE DEF t
    <3> QED
      BY <3>1, <3>2
  <2>6. ASSUME NEW h \in 1 .. Len(t), NEW k \in h + 1 .. Len(t)
        PROVE  /\ SubSeq(t, 1, h) = SubSeq(text, i, (i + h) - 1)
               /\ SubSeq(t, h + 1, k) = SubSeq(text, i + h, (i + k) - 1)
               /\ SubSeq(t, k + 1, Len(t)) = SubSeq(text, i + k, j)
    <3>1. /\ 0 \in 0 .. Len(t) /\ h \in 0 .. Len(t) /\ k \in 0 .. Len(t)
          /\ k \in h .. Len(t) /\ Len(t) \in k .. Len(t)
          /\ 0 + 1 = 1 /\ i + 0 = i /\ (i + Len(t)) - 1 = j
      BY <2>2
    <3>2. h \in 0 .. Len(t)
      BY <3>1
    <3>3. SubSeq(t, 0 + 1, h) = SubSeq(text, i + 0, (i + h) - 1)
      BY <2>5, <3>1, <3>2, Zenon
    <3>4. SubSeq(t, h + 1, k) = SubSeq(text, i + h, (i + k) - 1)
      BY <2>5, <3>1, Zenon
    <3>5. SubSeq(t, k + 1, Len(t)) = SubSeq(text, i + k, (i + Len(t)) - 1)
      BY <2>5, <3>1, Zenon
    <3> QED
      BY <3>1, <3>3, <3>4, <3>5, Zenon
  <2> HIDE DEF t
  <2>7. ASSUME IsPairs(Grammar, t, x)
        PROVE  \E m \in i + 1 .. j + 1 : \E n \in m + 1 .. j + 1 : IsPairsAt(text, i, j, x, m, n)
    <3>1. PICK h \in 1 .. Len(t) :
            \E u \in StringsOf(SubSeq(t, 1, h)) :
              \E k \in h + 1 .. Len(t) :
                \E v \in Grammar[<<"value", SubSeq(t, h + 1, k)>>] :
                  \E ps \in Grammar[<<"pairs", SubSeq(t, k + 1, Len(t))>>] : x = <<<<u[2], v>>>> \o ps
      BY <2>7, Zenon DEF IsPairs
    <3>2. PICK u \in StringsOf(SubSeq(t, 1, h)), k \in h + 1 .. Len(t) :
            \E v \in Grammar[<<"value", SubSeq(t, h + 1, k)>>] :
              \E ps \in Grammar[<<"pairs", SubSeq(t, k + 1, Len(t))>>] : x = <<<<u[2], v>>>> \o ps
      BY <3>1, Zenon
    <3>3. i + h \in i + 1 .. j + 1 /\ i + k \in (i + h) + 1 .. j + 1
      BY <2>1, <2>2
    <3>4. IsPairsAt(text, i, j, x, i + h, i + k)
      BY <2>6, <3>2, Zenon DEF IsPairsAt, Values, Pairs
    <3> QED
      BY <3>3, <3>4, Zenon
  <2>8. ASSUME NEW m \in i + 1 .. j + 1, NEW n \in m + 1 .. j + 1, IsPairsAt(text, i, j, x, m, n)
        PROVE  IsPairs(Grammar, t, x)
    <3> DEFINE h == m - i
               k == n - i
    <3>1. h \in 1 .. Len(t) /\ k \in h + 1 .. Len(t) /\ i + h = m /\ i + k = n
      BY <2>1, <2>2
    <3> HIDE DEF h, k
    <3>2. /\ SubSeq(t, 1, h) = SubSeq(text, i, m - 1)
          /\ SubSeq(t, h + 1, k) = SubSeq(text, m, n - 1)
          /\ SubSeq(t, k + 1, Len(t)) = SubSeq(text, n, j)
      BY <2>6, <3>1, Zenon
    <3>3. \E u \in StringsOf(SubSeq(t, 1, h)) :
            \E v \in Grammar[<<"value", SubSeq(t, h + 1, k)>>] :
              \E ps \in Grammar[<<"pairs", SubSeq(t, k + 1, Len(t))>>] : x = <<<<u[2], v>>>> \o ps
      BY <2>8, <3>2, Zenon DEF IsPairsAt, Values, Pairs
    <3> QED
      BY <3>1, <3>3, Zenon DEF IsPairs
  <2> QED
    BY <2>3, <2>4, <2>7, <2>8, Zenon

\* A value is read right when what is inside it is.
<1>ValueStep. ASSUME NEW text \in Texts, NEW b, NEW p, NEW i \in 1 .. Len(text) + 2,
                     i <= Len(text) => /\ ItemsRight(text, p[<<"items", i + 1>>], i + 1)
                                       /\ PairsRight(text, p[<<"pairs", i + 1>>], i + 1)
              PROVE  ValueRight(text, DecodeValue(text, b, p, i), i)
  <2> USE <1>ValueStep
  <2>0. text \in Seq(Chars) /\ Len(text) \in Nat
    BY LenProperties, Zenon DEF Texts
  <2>1. CASE i > Len(text)
    <3>1. i .. Len(text) = {}
      BY <2>0, <2>1
    <3> QED
      BY <3>1, Zenon DEF ValueRight
  <2>2. CASE i <= Len(text)
    <3>0. i \in 1 .. Len(text)
      BY <2>0, <2>2
    <3>1. CharAt(text, b, i) = text[i]
      BY <2>2, Zenon DEF CharAt
    <3>2. /\ ~IsDigit("i") /\ ~IsDigit("l") /\ ~IsDigit("d")
          /\ "i" # "l" /\ "i" # "d" /\ "l" # "d"
      BY DEF IsDigit, Digits
    <3>3. CASE text[i] = "i"
      BY <3>0, <3>1, <3>3, <1>IntStep, Zenon DEF DecodeValue
    <3>4. CASE IsDigit(text[i])
      <4>1. DecodeValue(text, b, p, i) = DecodeString(text, i)
        BY <3>1, <3>2, <3>4, Zenon DEF DecodeValue
      <4> QED
        BY <3>0, <3>4, <4>1, <1>StringStep, Zenon
    <3>5. CASE text[i] = "l"
      <4>1. DecodeValue(text, b, p, i) = DecodeList(text, p, i)
        BY <3>1, <3>2, <3>5, Zenon DEF DecodeValue
      <4> QED
        BY <2>2, <3>0, <3>5, <4>1, <1>ListStep, Zenon
    <3>6. CASE text[i] = "d"
      <4>1. DecodeValue(text, b, p, i) = DecodeDict(text, p, i)
        BY <3>1, <3>2, <3>6, Zenon DEF DecodeValue
      <4> QED
        BY <2>2, <3>0, <3>6, <4>1, <1>DictStep, Zenon
    <3>7. CASE text[i] # "i" /\ ~IsDigit(text[i]) /\ text[i] # "l" /\ text[i] # "d"
      <4>1. DecodeValue(text, b, p, i) = Fail("InvalidString")
        BY <3>1, <3>7, Zenon DEF DecodeValue
      <4>2. ASSUME NEW j \in i .. Len(text), NEW x PROVE x \notin Values(text, i, j)
        <5>1. /\ x \notin IntegersOf(SubSeq(text, i, j)) /\ x \notin StringsOf(SubSeq(text, i, j))
              /\ ~IsList(Grammar, SubSeq(text, i, j), x) /\ ~IsDict(Grammar, SubSeq(text, i, j), x)
          BY <3>0, <3>7, <1>FirstChar
        <5> QED
          BY <3>0, <5>1, <1>ValuesSplit, Zenon
      <4> QED
        BY <4>1, <4>2, ResultFacts, Zenon DEF ValueRight
    <3> QED
      BY <3>3, <3>4, <3>5, <3>6, <3>7, Zenon
  <2> QED
    BY <2>0, <2>1, <2>2

\* A value whose characters end before the last one of the text is the one read.
<1>ValueRead. ASSUME NEW text, Len(text) \in Nat, NEW r, NEW i \in Nat, ValueRight(text, r, i),
                     NEW m \in i + 1 .. Len(text), NEW x \in Values(text, i, m - 1)
              PROVE  r.valid /\ r.index = m /\ x = r.value
  <2> USE <1>ValueRead
  <2>1. m - 1 \in i .. Len(text) /\ m - 1 # Len(text) /\ (m - 1) + 1 = m
    OBVIOUS
  <2> QED
    BY <2>1, Zenon DEF ValueRight

\* The value that was read is one of its characters.
<1>ReadValue. ASSUME NEW text, Len(text) \in Nat, NEW r, NEW i \in Nat, ValueRight(text, r, i),
                     r.valid, r.index \in i + 1 .. Len(text) + 1
              PROVE  r.value \in Values(text, i, r.index - 1)
  <2> USE <1>ReadValue
  <2> DEFINE n == r.index
  <2>1. n - 1 \in i .. Len(text) /\ (n - 1) + 1 = n
    OBVIOUS
  <2> QED
    BY <2>1, Zenon DEF ValueRight

\* Items are read right when the value in front of them and the items behind it are.
<1>ItemsStep. ASSUME NEW text \in Texts, NEW p, NEW i \in 1 .. Len(text) + 2,
                     ValueRight(text, p[<<"value", i>>], i), Bounded(text, p[<<"value", i>>], i),
                     i <= Len(text) /\ text[i] = "e" => ~p[<<"value", i>>].valid,
                     \A k \in i + 1 .. Len(text) + 2 : ItemsRight(text, p[<<"items", k>>], k)
              PROVE  ItemsRight(text, DecodeItems(text, p, i), i)
  <2> USE <1>ItemsStep
  <2> DEFINE R == DecodeItems(text, p, i)
             r == p[<<"value", i>>]
             rest == p[<<"items", r.index>>]
  <2>0. text \in Seq(Chars) /\ Len(text) \in Nat /\ i \in Nat
    BY LenProperties DEF Texts
  <2>1. CASE i > Len(text)
    <3>1. ~R.valid
      BY <2>1, ResultFacts, Zenon DEF DecodeItems
    <3>2. i - 1 .. Len(text) - 1 = {}
      BY <2>0, <2>1
    <3> QED
      BY <3>1, <3>2, Zenon DEF ItemsRight, EndRight
  <2>2. CASE i <= Len(text) /\ text[i] = "e"
    <3>1. R = Ok(<<>>, i + 1)
      BY <2>0, <2>2 DEF DecodeItems
    <3> HIDE DEF R
    <3>2. R.valid /\ R.value = <<>> /\ R.index = i + 1
      BY <3>1, ResultFacts, Zenon
    <3>3. EndRight(text, R, i)
      <4>1. R.index - 1 = i /\ i \in i .. Len(text)
        BY <2>0, <2>2, <3>2
      <4> QED
        BY <2>2, <4>1, Zenon DEF EndRight
    <3>4. ASSUME NEW j \in i - 1 .. Len(text) - 1, NEW x
          PROVE  x \in Items(text, i, j) <=> R.valid /\ R.index = j + 2 /\ x = R.value
      <4>0. i \in 1 .. Len(text) + 1 /\ j \in i - 1 .. Len(text) /\ j \in Int
        BY <2>0, <2>2
      <4>1. CASE j = i - 1
        <5>1. R.index = j + 2
          BY <2>0, <3>2, <4>1
        <5>2. x \in Items(text, i, j) <=> x = <<>>
          BY <4>0, <4>1, <1>ItemsSplit
        <5> QED
          BY <3>2, <5>1, <5>2, Zenon
      <4>2. CASE j # i - 1
        <5>1. R.index # j + 2
          BY <2>0, <3>2, <4>0, <4>2
        <5>2. ASSUME x \in Items(text, i, j) PROVE FALSE
          <6>1. PICK m \in i + 1 .. j + 1 : IsItemsAt(text, i, j, x, m)
            BY <4>0, <4>2, <5>2, <1>ItemsSplit, Zenon
          <6>2. PICK v \in Values(text, i, m - 1) : TRUE
            BY <6>1, Zenon DEF IsItemsAt
          <6>3. m \in i + 1 .. Len(text)
            BY <2>0, <4>0
          <6>4. r.valid
            BY <2>0, <6>2, <6>3, <1>ValueRead, Zenon
          <6> QED
            BY <2>2, <6>4, Zenon
        <5> QED
          BY <5>1, <5>2, Zenon
      <4> QED
        BY <4>1, <4>2, Zenon
    <3> QED
      BY <3>3, <3>4, Zenon DEF ItemsRight, R
  <2>3. CASE i <= Len(text) /\ text[i] # "e"
    <3>1. /\ R.valid => r.valid /\ rest.valid
          /\ r.valid /\ rest.valid => R = Ok(<<r.value>> \o rest.value, rest.index)
      <4>1. R = IF ~r.valid THEN r ELSE IF ~rest.valid THEN rest
                ELSE Ok(<<r.value>> \o rest.value, rest.index)
        BY <2>0, <2>3 DEF DecodeItems
      <4> HIDE DEF R, r, rest
      <4> QED
        BY <4>1, Zenon
    <3>2. r.valid => r.index \in i + 1 .. Len(text) + 2
      BY Zenon DEF Bounded
    <3>3. r.valid => ItemsRight(text, rest, r.index)
      BY <3>2, Zenon
    <3>5. ValueRight(text, r, i)
      OBVIOUS
    <3> HIDE DEF R, r, rest
    <3>4. r.valid /\ rest.valid => R.valid /\ R.value = <<r.value>> \o rest.value /\ R.index = rest.index
      <4> DEFINE v == <<r.value>> \o rest.value
      <4>1. Ok(v, rest.index).valid /\ Ok(v, rest.index).value = v /\ Ok(v, rest.index).index = rest.index
        BY ResultFacts, Zenon
      <4> QED
        BY <3>1, <4>1, Zenon
    <3>6. EndRight(text, R, i)
      <4> SUFFICES ASSUME R.valid PROVE R.index - 1 \in i .. Len(text) /\ text[R.index - 1] = "e"
        BY Zenon DEF EndRight
      <4>1. r.valid /\ rest.valid /\ R.index = rest.index
        BY <3>1, <3>4, Zenon
      <4>2. rest.index - 1 \in r.index .. Len(text) /\ text[rest.index - 1] = "e"
        BY <3>3, <4>1, Zenon DEF ItemsRight, EndRight
      <4>3. rest.index - 1 \in i .. Len(text)
        BY <2>0, <3>2, <4>1, <4>2
      <4> QED
        BY <4>1, <4>2, <4>3, Zenon
    <3>7. ASSUME NEW j \in i - 1 .. Len(text) - 1, NEW x, text[j + 1] = "e"
          PROVE  x \in Items(text, i, j) <=> R.valid /\ R.index = j + 2 /\ x = R.value
      <4>0. i \in 1 .. Len(text) + 1 /\ j \in i - 1 .. Len(text) /\ j \in Int
        BY <2>0, <2>3
      <4>1. j # i - 1
        <5>1. j = i - 1 => j + 1 = i
          BY <2>0
        <5> QED
          BY <2>3, <3>7, <5>1, Zenon
      <4>2. ASSUME x \in Items(text, i, j) PROVE R.valid /\ R.index = j + 2 /\ x = R.value
        <5>1. PICK m \in i + 1 .. j + 1 : IsItemsAt(text, i, j, x, m)
          BY <4>0, <4>1, <4>2, <1>ItemsSplit
        <5>2. PICK v \in Values(text, i, m - 1), vs \in Items(text, m, j) : x = <<v>> \o vs
          BY <5>1, Zenon DEF IsItemsAt
        <5>3. m \in i + 1 .. Len(text) /\ j \in m - 1 .. Len(text) - 1
          BY <2>0, <4>0
        <5>4. r.valid /\ r.index = m /\ v = r.value
          BY <2>0, <3>5, <5>2, <5>3, <1>ValueRead, Zenon
        <5>5. rest.valid /\ rest.index = j + 2 /\ vs = rest.value
          BY <3>3, <3>7, <5>2, <5>3, <5>4, Zenon DEF ItemsRight
        <5> QED
          BY <3>4, <5>2, <5>4, <5>5, Zenon
      <4>3. ASSUME R.valid, R.index = j + 2, x = R.value PROVE x \in Items(text, i, j)
        <5>1. r.valid /\ rest.valid /\ rest.index = j + 2 /\ x = <<r.value>> \o rest.value
          BY <3>1, <3>4, <4>3, Zenon
        <5>2. rest.index - 1 \in r.index .. Len(text)
          BY <3>3, <5>1, Zenon DEF ItemsRight, EndRight
        <5>3. r.index \in i + 1 .. Len(text) + 1 /\ r.index \in i + 1 .. j + 1 /\ j \in r.index - 1 .. Len(text) - 1
          BY <2>0, <3>2, <4>0, <5>1, <5>2
        <5>4. r.value \in Values(text, i, r.index - 1)
          BY <2>0, <3>5, <5>1, <5>3, <1>ReadValue, Zenon
        <5>5. rest.value \in Items(text, r.index, j)
          BY <3>3, <3>7, <5>1, <5>3, Zenon DEF ItemsRight
        <5>6. IsItemsAt(text, i, j, x, r.index)
          BY <5>1, <5>4, <5>5, Zenon DEF IsItemsAt
        <5> QED
          BY <4>0, <4>1, <5>3, <5>6, <1>ItemsSplit
      <4> QED
        BY <4>2, <4>3, Zenon
    <3> QED
      BY <3>6, <3>7, Zenon DEF ItemsRight, R
  <2> QED
    BY <2>0, <2>1, <2>2, <2>3

\* The strings are the values with that tag.
<1>StringValues. ASSUME NEW text \in Texts, NEW i \in 1 .. Len(text), NEW j \in i .. Len(text), NEW x
                 PROVE  x \in StringsOf(SubSeq(text, i, j)) <=> x \in Values(text, i, j) /\ x[1] = "String"
  <2> DEFINE t == SubSeq(text, i, j)
  <2>1. x \in StringsOf(t) => x[1] = "String"
    BY DEF StringsOf
  <2>2. x \in IntegersOf(t) => x[1] # "String"
    BY DEF IntegersOf
  <2>3. IsList(Grammar, t, x) => x[1] # "String"
    BY DEF IsList
  <2>4. IsDict(Grammar, t, x) => x[1] # "String"
    BY DEF IsDict
  <2>5. x \in Values(text, i, j) <=>
          \/ x \in IntegersOf(t) \/ x \in StringsOf(t) \/ IsList(Grammar, t, x) \/ IsDict(Grammar, t, x)
    BY <1>ValuesSplit, Zenon
  <2> HIDE DEF t
  <2>6. x \in StringsOf(t) <=> x \in Values(text, i, j) /\ x[1] = "String"
    BY <2>1, <2>2, <2>3, <2>4, <2>5, Zenon
  <2> QED
    BY <2>6, Zenon DEF t

\* A pair in front of pairs, in the map and in the list of keys.
<1>PairInFront. ASSUME NEW w, NEW ps, IsPairsOf(w, ps), NEW s, NEW v
                PROVE  IsPairsOf([keys |-> <<s>> \o w.keys, dict |-> Insert(w.dict, s, v)], <<<<s, v>>>> \o ps)
  <2> USE <1>PairInFront
  <2> DEFINE z == [keys |-> <<s>> \o w.keys, dict |-> Insert(w.dict, s, v)]
             q == <<s, v>>
  <2>1. PICK S : ps \in Seq(S)
    BY Zenon DEF IsPairsOf
  <2>2. z.keys = <<s>> \o w.keys /\ z.dict = Insert(w.dict, s, v)
    OBVIOUS
  <2>3. <<s>> \o w.keys = KeysOf(<<<<s, v>>>> \o ps)
    BY <2>1, KeysCons, Zenon DEF IsPairsOf
  <2>4. Insert(w.dict, s, v) = DictOf(<<<<s, v>>>> \o ps)
    BY <2>1, DictCons, Zenon DEF IsPairsOf
  <2>5. <<<<s, v>>>> \o ps \in Seq(S \union {<<s, v>>})
    <3> HIDE DEF q
    <3>1. <<q>> \o ps \in Seq(S \union {q})
      BY <2>1, ConsFacts
    <3> QED
      BY <3>1, Zenon DEF q
  <2> HIDE DEF z
  <2>6. IsPairsOf(z, <<<<s, v>>>> \o ps)
    BY <2>2, <2>3, <2>4, <2>5, Zenon DEF IsPairsOf
  <2> QED
    BY <2>6, Zenon DEF z

\* The end of the pairs of a dictionary.
<1>PairsEnd. ASSUME NEW text \in Texts, NEW r, NEW i \in 1 .. Len(text), text[i] = "e",
                    ValueRight(text, r, i), ~r.valid
             PROVE  PairsRight(text, Ok([keys |-> <<>>, dict |-> [s \in {} |-> NUL]], i + 1), i)
  <2> USE <1>PairsEnd
  <2> DEFINE z == [keys |-> <<>>, dict |-> [s \in {} |-> NUL]]
             R == Ok(z, i + 1)
  <2>0. Len(text) \in Nat /\ i \in Nat
    BY LenProperties DEF Texts
  <2>1. IsPairsOf(z, <<>>)
    <3>1. z.keys = <<>> /\ z.dict = [s \in {} |-> NUL] /\ <<>> \in Seq({})
      OBVIOUS
    <3> QED
      BY <3>1, NoPairs, Zenon DEF IsPairsOf
  <2> HIDE DEF z
  <2>2. R.valid /\ R.value = z /\ R.index = i + 1
    BY ResultFacts, Zenon
  <2> HIDE DEF R
  <2>3. EndRight(text, R, i)
    <3>1. R.index - 1 = i /\ i \in i .. Len(text)
      BY <2>0, <2>2
    <3> QED
      BY <3>1, Zenon DEF EndRight
  <2>4. ASSUME NEW j \in i - 1 .. Len(text) - 1
        PROVE  /\ R.valid /\ R.index = j + 2 => \E ps \in Pairs(text, i, j) : IsPairsOf(R.value, ps)
               /\ \A ps \in Pairs(text, i, j) : R.valid /\ R.index = j + 2 /\ IsPairsOf(R.value, ps)
               /\ \A ps, qs \in Pairs(text, i, j) : ps = qs
    <3>0. i \in 1 .. Len(text) + 1 /\ j \in i - 1 .. Len(text) /\ j \in Int
      BY <2>0
    <3>1. CASE j = i - 1
      <4>1. R.index = j + 2
        BY <2>0, <2>2, <3>1
      <4>2. \A x : x \in Pairs(text, i, j) <=> x = <<>>
        BY <3>0, <3>1, <1>PairsSplit
      <4>3. <<>> \in Pairs(text, i, j) /\ IsPairsOf(R.value, <<>>)
        BY <2>1, <2>2, <4>2, Zenon
      <4>4. \A ps \in Pairs(text, i, j) : ps = <<>>
        BY <4>2, Zenon
      <4> QED
        BY <2>2, <4>1, <4>3, <4>4
    <3>2. CASE j # i - 1
      <4>1. R.index # j + 2
        BY <2>0, <2>2, <3>0, <3>2
      <4>2. ASSUME NEW x \in Pairs(text, i, j) PROVE FALSE
        <5>1. PICK m \in i + 1 .. j + 1 : \E n \in m + 1 .. j + 1 : IsPairsAt(text, i, j, x, m, n)
          BY <3>0, <3>2, <1>PairsSplit
        <5>2. PICK u \in StringsOf(SubSeq(text, i, m - 1)) : TRUE
          BY <5>1, Zenon DEF IsPairsAt
        <5>3. m \in i + 1 .. Len(text) /\ m - 1 \in i .. Len(text)
          BY <2>0, <3>0
        <5>4. u \in Values(text, i, m - 1)
          BY <5>2, <5>3, <1>StringValues, Zenon
        <5> QED
          BY <2>0, <5>3, <5>4, <1>ValueRead, Zenon
      <4> QED
        BY <4>1, <4>2, Zenon
    <3> QED
      BY <3>1, <3>2, Zenon
  <2>5. PairsRight(text, R, i)
    BY <2>3, <2>4, Zenon DEF PairsRight
  <2> QED
    BY <2>5, Zenon DEF R, z

\* Pairs are read right when the key and the value in front of them and the
\* pairs behind those are.
<1>PairsStep. ASSUME NEW text \in Texts, NEW p, NEW i \in 1 .. Len(text) + 2,
                     \A k \in i .. Len(text) + 2 :
                       ValueRight(text, p[<<"value", k>>], k) /\ Bounded(text, p[<<"value", k>>], k),
                     i <= Len(text) /\ text[i] = "e" => ~p[<<"value", i>>].valid,
                     \A k \in i + 1 .. Len(text) + 2 : PairsRight(text, p[<<"pairs", k>>], k)
              PROVE  PairsRight(text, DecodePairs(text, p, i), i)
  <2> USE <1>PairsStep
  <2> DEFINE R == DecodePairs(text, p, i)
             key == p[<<"value", i>>]
             r == p[<<"value", key.index>>]
             rest == p[<<"pairs", r.index>>]
             z == [keys |-> <<key.value[2]>> \o rest.value.keys,
                   dict |-> Insert(rest.value.dict, key.value[2], r.value)]
  <2>0. text \in Seq(Chars) /\ Len(text) \in Nat /\ i \in Nat /\ i \in i .. Len(text) + 2
    BY LenProperties DEF Texts
  <2>1. CASE i > Len(text)
    <3>1. ~R.valid
      BY <2>1, ResultFacts, Zenon DEF DecodePairs
    <3>2. i - 1 .. Len(text) - 1 = {}
      BY <2>0, <2>1
    <3> QED
      BY <3>1, <3>2, Zenon DEF PairsRight, EndRight
  <2>2. CASE i <= Len(text) /\ text[i] = "e"
    <3>1. R = Ok([keys |-> <<>>, dict |-> [s \in {} |-> NUL]], i + 1)
      BY <2>0, <2>2 DEF DecodePairs
    <3>2. i \in 1 .. Len(text)
      BY <2>0, <2>2
    <3> QED
      BY <2>0, <2>2, <3>1, <3>2, <1>PairsEnd, Zenon
  <2>3. CASE i <= Len(text) /\ text[i] # "e"
    <3>1. /\ R.valid => key.valid /\ key.value[1] = "String" /\ r.valid /\ rest.valid
          /\ key.valid /\ key.value[1] = "String" /\ r.valid /\ rest.valid => R = Ok(z, rest.index)
      <4>1. R = IF ~key.valid THEN key ELSE IF key.value[1] # "String" THEN Fail("DictKey")
                ELSE IF ~r.valid THEN r ELSE IF ~rest.valid THEN rest ELSE Ok(z, rest.index)
        <5>1. ~(i > Len(text)) /\ text[i] # "e"
          BY <2>0, <2>3
        <5> QED
          BY <5>1, Zenon DEF DecodePairs
      <4>2. ~Fail("DictKey").valid
        BY ResultFacts, Zenon
      <4> HIDE DEF R, key, r, rest, z
      <4> QED
        BY <4>1, <4>2, Zenon
    <3>2. ValueRight(text, key, i) /\ (key.valid => key.index \in i + 1 .. Len(text) + 2)
      BY <2>0, Zenon DEF Bounded
    <3>3. key.valid => /\ ValueRight(text, r, key.index)
                       /\ r.valid => r.index \in key.index + 1 .. Len(text) + 2
      <4>1. key.valid => key.index \in i .. Len(text) + 2
        BY <2>0, <3>2
      <4> QED
        BY <4>1, Zenon DEF Bounded
    <3>4. key.valid /\ r.valid => r.index \in i + 1 .. Len(text) + 2 /\ PairsRight(text, rest, r.index)
      <4>1. key.valid /\ r.valid => r.index \in i + 1 .. Len(text) + 2
        BY <2>0, <3>2, <3>3
      <4> QED
        BY <4>1, Zenon
    <3> HIDE DEF R, key, r, rest
    <3>5. ASSUME NEW ps, IsPairsOf(rest.value, ps)
          PROVE  IsPairsOf(z, <<<<key.value[2], r.value>>>> \o ps)
      BY <3>5, <1>PairInFront, Zenon
    <3> HIDE DEF z
    <3>6. Ok(z, rest.index).valid /\ Ok(z, rest.index).value = z /\ Ok(z, rest.index).index = rest.index
      BY ResultFacts, Zenon
    <3>7. EndRight(text, R, i)
      <4> SUFFICES ASSUME R.valid PROVE R.index - 1 \in i .. Len(text) /\ text[R.index - 1] = "e"
        BY Zenon DEF EndRight
      <4>1. key.valid /\ r.valid /\ rest.valid /\ R.index = rest.index
        BY <3>1, <3>6, Zenon
      <4>2. rest.index - 1 \in r.index .. Len(text) /\ text[rest.index - 1] = "e"
        BY <3>4, <4>1, Zenon DEF PairsRight, EndRight
      <4>3. rest.index - 1 \in i .. Len(text)
        BY <2>0, <3>4, <4>1, <4>2
      <4> QED
        BY <4>1, <4>2, <4>3, Zenon
    <3>8. ASSUME NEW j \in i - 1 .. Len(text) - 1, text[j + 1] = "e"
          PROVE  /\ R.valid /\ R.index = j + 2 => \E ps \in Pairs(text, i, j) : IsPairsOf(R.value, ps)
                 /\ \A ps \in Pairs(text, i, j) : R.valid /\ R.index = j + 2 /\ IsPairsOf(R.value, ps)
                 /\ \A ps, qs \in Pairs(text, i, j) : ps = qs
      <4>0. i \in 1 .. Len(text) + 1 /\ j \in i - 1 .. Len(text) /\ j \in Int
        BY <2>0, <2>3
      <4>1. j # i - 1
        <5>1. j = i - 1 => j + 1 = i
          BY <2>0
        <5> QED
          BY <2>3, <3>8, <5>1, Zenon
      <4> DEFINE Tail1(x, qs) == qs \in Pairs(text, r.index, j) /\ x = <<<<key.value[2], r.value>>>> \o qs
      <4>2. ASSUME NEW x \in Pairs(text, i, j)
            PROVE  /\ key.valid /\ key.value[1] = "String" /\ r.valid
                   /\ j \in r.index - 1 .. Len(text) - 1
                   /\ \E qs : Tail1(x, qs)
        <5>1. PICK m \in i + 1 .. j + 1 : \E n \in m + 1 .. j + 1 : IsPairsAt(text, i, j, x, m, n)
          BY <4>0, <4>1, <1>PairsSplit
        <5>2. PICK n \in m + 1 .. j + 1 : IsPairsAt(text, i, j, x, m, n)
          BY <5>1, Zenon
        <5>3. PICK u \in StringsOf(SubSeq(text, i, m - 1)), v \in Values(text, m, n - 1),
                   qs \in Pairs(text, n, j) : x = <<<<u[2], v>>>> \o qs
          BY <5>2, Zenon DEF IsPairsAt
        <5>4. /\ i \in 1 .. Len(text) /\ m \in i + 1 .. Len(text) /\ m - 1 \in i .. Len(text) /\ m \in Nat
              /\ n \in m + 1 .. Len(text) /\ j \in n - 1 .. Len(text) - 1
          BY <2>0, <2>3, <4>0
        <5>5. u \in Values(text, i, m - 1) /\ u[1] = "String"
          BY <5>3, <5>4, <1>StringValues, Zenon
        <5>6. key.valid /\ key.index = m /\ u = key.value
          BY <2>0, <3>2, <5>4, <5>5, <1>ValueRead, Zenon
        <5>7. r.valid /\ r.index = n /\ v = r.value
          <6>1. ValueRight(text, r, m)
            BY <3>3, <5>6, Zenon
          <6>2. m \in Nat /\ n \in m + 1 .. Len(text) /\ v \in Values(text, m, n - 1) /\ Len(text) \in Nat
            BY <2>0, <5>3, <5>4, Zenon
          <6> QED
            BY <6>1, <6>2, <1>ValueRead
        <5> QED
          BY <5>3, <5>4, <5>5, <5>6, <5>7, Zenon
      <4>3. ASSUME NEW x \in Pairs(text, i, j) PROVE R.valid /\ R.index = j + 2 /\ IsPairsOf(R.value, x)
        <5>1. PICK qs : Tail1(x, qs)
          BY <4>2, Zenon
        <5>2. rest.valid /\ rest.index = j + 2 /\ IsPairsOf(rest.value, qs)
          BY <3>4, <3>8, <4>2, <5>1, Zenon DEF PairsRight
        <5>3. IsPairsOf(z, x)
          BY <3>5, <5>1, <5>2, Zenon
        <5>4. R = Ok(z, rest.index)
          BY <3>1, <4>2, <5>2, Zenon
        <5> QED
          BY <3>6, <5>2, <5>3, <5>4
      <4>4. ASSUME NEW x \in Pairs(text, i, j), NEW y \in Pairs(text, i, j) PROVE x = y
        <5>1. PICK qs : Tail1(x, qs)
          BY <4>2, Zenon
        <5>2. PICK os : Tail1(y, os)
          BY <4>2, Zenon
        <5>3. \A ps, ns \in Pairs(text, r.index, j) : ps = ns
          BY <3>4, <3>8, <4>2, Zenon DEF PairsRight
        <5> QED
          BY <5>1, <5>2, <5>3, Zenon
      <4>5. ASSUME R.valid, R.index = j + 2
            PROVE  \E ps \in Pairs(text, i, j) : IsPairsOf(R.value, ps)
        <5>1. /\ key.valid /\ key.value[1] = "String" /\ r.valid /\ rest.valid
              /\ rest.index = j + 2 /\ R.value = z
          BY <3>1, <3>6, <4>5, Zenon
        <5>2. rest.index - 1 \in r.index .. Len(text)
          BY <3>4, <5>1, Zenon DEF PairsRight, EndRight
        <5>3. /\ key.index \in i + 1 .. j + 1 /\ r.index \in key.index + 1 .. j + 1
              /\ key.index \in i + 1 .. Len(text) + 1 /\ r.index \in key.index + 1 .. Len(text) + 1
              /\ j \in r.index - 1 .. Len(text) - 1 /\ key.index \in Nat
              /\ i \in 1 .. Len(text) /\ key.index - 1 \in i .. Len(text)
          <6>1. key.index \in i + 1 .. Len(text) + 2 /\ r.index \in key.index + 1 .. Len(text) + 2
            BY <3>2, <3>3, <5>1, Zenon
          <6>2. (j + 2) - 1 \in r.index .. Len(text)
            BY <5>1, <5>2, Zenon
          <6>3. ASSUME NEW a \in i + 1 .. Len(text) + 2, NEW c \in a + 1 .. Len(text) + 2,
                       (j + 2) - 1 \in c .. Len(text)
                PROVE  /\ a \in i + 1 .. j + 1 /\ c \in a + 1 .. j + 1
                       /\ a \in i + 1 .. Len(text) + 1 /\ c \in a + 1 .. Len(text) + 1
                       /\ j \in c - 1 .. Len(text) - 1 /\ a \in Nat
                       /\ i \in 1 .. Len(text) /\ a - 1 \in i .. Len(text)
            BY <2>0, <2>3, <4>0, <6>3
          <6> QED
            BY <6>1, <6>2, <6>3, Zenon
        <5>4. key.value \in Values(text, i, key.index - 1)
          BY <2>0, <3>2, <5>1, <5>3, <1>ReadValue, Zenon
        <5>5. r.value \in Values(text, key.index, r.index - 1)
          BY <2>0, <3>3, <5>1, <5>3, <1>ReadValue, Zenon
        <5>6. key.value \in StringsOf(SubSeq(text, i, key.index - 1))
          BY <5>1, <5>3, <5>4, <1>StringValues, Zenon
        <5>7. PICK qs \in Pairs(text, r.index, j) : IsPairsOf(rest.value, qs)
          BY <3>4, <3>8, <5>1, <5>3, Zenon DEF PairsRight
        <5> DEFINE x == <<<<key.value[2], r.value>>>> \o qs
        <5>8. IsPairsAt(text, i, j, x, key.index, r.index)
          BY <5>5, <5>6, Zenon DEF IsPairsAt
        <5>9. IsPairsOf(R.value, x)
          BY <3>5, <5>1, <5>7, Zenon
        <5> HIDE DEF x
        <5>10. x \in Pairs(text, i, j)
          <6>1. \E m \in i + 1 .. j + 1 : \E n \in m + 1 .. j + 1 : IsPairsAt(text, i, j, x, m, n)
            BY <5>3, <5>8, Zenon
          <6> QED
            BY <4>0, <4>1, <6>1, <1>PairsSplit
        <5> QED
          BY <5>9, <5>10, Zenon
      <4> QED
        BY <4>3, <4>4, <4>5, Zenon
    <3> QED
      BY <3>7, <3>8, Zenon DEF PairsRight, R
  <2> QED
    BY <2>0, <2>1, <2>2, <2>3

\* At i, when it is behind i.
<1>RightStep. ASSUME NEW text \in Texts, NEW b, NEW i \in 1 .. Len(text) + 2,
                     \A k \in i + 1 .. Len(text) + 2 : RightAt(text, Parser(text, b), k)
              PROVE  RightAt(text, Parser(text, b), i)
  <2> USE <1>RightStep
  <2> DEFINE p == Parser(text, b)
  <2>0. text \in Seq(Chars) /\ Len(text) \in Nat /\ i \in Nat
    BY LenProperties DEF Texts
  <2>1. \A k \in 1 .. Len(text) + 2 :
          /\ p[<<"value", k>>] = DecodeValue(text, b, p, k)
          /\ p[<<"items", k>>] = DecodeItems(text, p, k)
          /\ p[<<"pairs", k>>] = DecodePairs(text, p, k)
          /\ Bounded(text, p[<<"value", k>>], k)
    <3>1. "value" \in Kinds
      BY DEF Kinds
    <3> QED
      BY <2>0, <3>1, ParserEquation, Zenon
  <2>2. \A k \in i + 1 .. Len(text) + 2 : RightAt(text, p, k)
    OBVIOUS
  <2> HIDE DEF p
  <2>3. ValueRight(text, p[<<"value", i>>], i)
    <3>1. i <= Len(text) => /\ ItemsRight(text, p[<<"items", i + 1>>], i + 1)
                            /\ PairsRight(text, p[<<"pairs", i + 1>>], i + 1)
      <4>1. i <= Len(text) => i + 1 \in i + 1 .. Len(text) + 2
        BY <2>0
      <4> QED
        BY <2>2, <4>1, Zenon DEF RightAt
    <3>2. ValueRight(text, DecodeValue(text, b, p, i), i)
      BY <3>1, <1>ValueStep, Zenon
    <3> QED
      BY <2>1, <3>2, Zenon
  <2>4. i <= Len(text) /\ text[i] = "e" => ~p[<<"value", i>>].valid
    <3> SUFFICES ASSUME i <= Len(text), text[i] = "e" PROVE ~p[<<"value", i>>].valid
      BY Zenon
    <3>1. CharAt(text, b, i) = "e"
      BY Zenon DEF CharAt
    <3>2. ~IsDigit("e") /\ "e" # "i" /\ "e" # "l" /\ "e" # "d"
      BY DEF IsDigit, Digits
    <3>3. DecodeValue(text, b, p, i) = Fail("InvalidString")
      BY <3>1, <3>2, Zenon DEF DecodeValue
    <3>4. p[<<"value", i>>] = Fail("InvalidString")
      BY <2>1, <3>3, Zenon
    <3> QED
      BY <3>4, ResultFacts, Zenon
  <2>5. \A k \in i .. Len(text) + 2 :
          ValueRight(text, p[<<"value", k>>], k) /\ Bounded(text, p[<<"value", k>>], k)
    <3> SUFFICES ASSUME NEW k \in i .. Len(text) + 2
                 PROVE  ValueRight(text, p[<<"value", k>>], k) /\ Bounded(text, p[<<"value", k>>], k)
      BY Zenon
    <3>1. k \in 1 .. Len(text) + 2 /\ (k = i \/ k \in i + 1 .. Len(text) + 2)
      BY <2>0
    <3> QED
      BY <2>1, <2>2, <2>3, <3>1, Zenon DEF RightAt
  <2>6. ItemsRight(text, p[<<"items", i>>], i)
    <3>1. ItemsRight(text, DecodeItems(text, p, i), i)
      BY <2>1, <2>2, <2>3, <2>4, <1>ItemsStep, Zenon DEF RightAt
    <3> QED
      BY <2>1, <3>1, Zenon
  <2>7. PairsRight(text, p[<<"pairs", i>>], i)
    <3>1. PairsRight(text, DecodePairs(text, p, i), i)
      BY <2>2, <2>4, <2>5, <1>PairsStep, Zenon DEF RightAt
    <3> QED
      BY <2>1, <3>1, Zenon
  <2> QED
    BY <2>3, <2>6, <2>7, Zenon DEF RightAt, p

\* Everywhere: the parser reads what the grammar says.
<1>ParserRight. ASSUME NEW text \in Texts, NEW b, NEW i \in 1 .. Len(text) + 2
                PROVE  RightAt(text, Parser(text, b), i)
  <2> DEFINE p == Parser(text, b)
             N == Len(text)
             S == {n \in Nat : n <= N + 1 => RightAt(text, p, (N + 2) - n)}
  <2>0. N \in Nat
    BY LenProperties DEF Texts
  <2>1. ASSUME NEW n \in Nat, \A m \in Nat : m < n => m \in S PROVE n \in S
    <3> SUFFICES ASSUME n <= N + 1 PROVE RightAt(text, p, (N + 2) - n)
      BY Zenon
    <3>1. (N + 2) - n \in 1 .. N + 2
      BY <2>0
    <3>2. ASSUME NEW k \in (N + 2) - n + 1 .. N + 2 PROVE RightAt(text, p, k)
      <4>1. /\ (N + 2) - k \in Nat /\ (N + 2) - k < n /\ (N + 2) - k <= N + 1
            /\ (N + 2) - ((N + 2) - k) = k
        BY <2>0
      <4>2. (N + 2) - k \in S
        BY <2>1, <4>1, Zenon
      <4>3. RightAt(text, p, (N + 2) - ((N + 2) - k))
        BY <4>1, <4>2, Zenon
      <4> QED
        BY <4>1, <4>3, Zenon
    <3> QED
      BY <3>1, <3>2, <1>RightStep, Zenon
  <2> HIDE DEF S
  <2>2. \A n \in Nat : n \in S
    BY <2>1, Induction, Zenon
  <2>3. /\ (N + 2) - i \in Nat /\ (N + 2) - i <= N + 1
        /\ (N + 2) - ((N + 2) - i) = i
    BY <2>0
  <2>4. RightAt(text, p, (N + 2) - ((N + 2) - i))
    BY <2>2, <2>3, Zenon DEF S
  <2> QED
    BY <2>3, <2>4, Zenon

\* Nothing denotes nothing.
<1>EmptyText. ASSUME NEW x
              PROVE  x \notin Denoted(<<>>)
  <2>1. <<>> \in Texts /\ Len(<<>>) = 0
    BY LongAssumption DEF Texts
  <2>2. ~Framed(<<>>, "i") /\ ~Framed(<<>>, "l") /\ ~Framed(<<>>, "d")
    BY <2>1 DEF Framed
  <2>3. x \notin IntegersOf(<<>>)
    BY <2>2, Zenon DEF IntegersOf
  <2>4. x \notin StringsOf(<<>>)
    BY <2>1 DEF StringsOf
  <2>5. ~IsList(Grammar, <<>>, x) /\ ~IsDict(Grammar, <<>>, x)
    BY <2>2, Zenon DEF IsList, IsDict
  <2> QED
    BY <2>1, <2>3, <2>4, <2>5, DenotedAs, ValuesIn, Zenon DEF Denoted

<1> SUFFICES ASSUME NEW text \in Texts, NEW b
             PROVE  LET r == Decode(text, b)
                    IN  IF r.valid THEN Denoted(text) = {r.value}
                                   ELSE Denoted(text) \subseteq {<<"String", <<>>>>}
  BY Zenon
<1> DEFINE q == Parser(text, b)[<<"value", 1>>]
           N == Len(text)
           r == Decode(text, b)
<1>0. text \in Seq(Chars) /\ N \in Nat
  BY LenProperties DEF Texts
<1>1. ValueRight(text, q, 1)
  <2>1. 1 \in 1 .. N + 2
    BY <1>0
  <2> QED
    BY <2>1, <1>ParserRight, Zenon DEF RightAt
<1>2. r = IF q.valid /\ q.index # N + 1 THEN Fail("InvalidString") ELSE q
  BY Zenon DEF Decode
<1>3. ~Fail("InvalidString").valid
  BY ResultFacts, Zenon
<1>4. /\ r.valid => q.valid /\ q.index = N + 1 /\ r.value = q.value
      /\ ~r.valid => ~(q.valid /\ q.index = N + 1)
  <2> HIDE DEF r, q
  <2> QED
    BY <1>2, <1>3, Zenon
<1>5. CASE text = <<>>
  <2>1. N = 0 /\ 1 \in 1 .. N + 2
    BY <1>5
  <2>2. CharAt(text, b, 1) = NUL
    BY <2>1 DEF CharAt
  <2>3. ~IsDigit(NUL) /\ NUL # "i" /\ NUL # "l" /\ NUL # "d"
    BY DEF IsDigit, Digits, NUL
  <2>4. q = DecodeValue(text, b, Parser(text, b), 1)
    <3>1. \A i \in 1 .. N + 2 :
            Parser(text, b)[<<"value", i>>] = DecodeValue(text, b, Parser(text, b), i)
      BY <1>0, ParserEquation, Zenon
    <3> QED
      BY <2>1, <3>1, Zenon
  <2>5. q = Fail("InvalidString")
    BY <2>2, <2>3, <2>4, Zenon DEF DecodeValue
  <2>6. ~r.valid
    BY <1>3, <1>4, <2>5, Zenon
  <2>7. Denoted(text) = {}
    BY <1>5, <1>EmptyText, Zenon
  <2> QED
    BY <2>6, <2>7, Zenon
<1>6. CASE text # <<>>
  <2>1. N # 0
    BY <1>0, <1>6, EmptySeq
  <2>2. N \in 1 .. N
    BY <1>0, <2>1
  <2>3. SubSeq(text, 1, N) = text
    BY <1>0, SubSeqFull, Zenon
  <2>4. Values(text, 1, N) = Denoted(text)
    BY <2>3, Zenon DEF Values, Denoted
  <2> HIDE DEF q
  <2>5. \A x : /\ q.valid /\ q.index = N + 1 /\ x = q.value => x \in Denoted(text)
               /\ x \in Denoted(text) => \/ q.valid /\ q.index = N + 1 /\ x = q.value
                                         \/ ~q.valid /\ x = <<"String", <<>>>>
    <3>1. ASSUME NEW x
          PROVE  /\ q.valid /\ q.index = N + 1 /\ x = q.value => x \in Values(text, 1, N)
                 /\ x \in Values(text, 1, N) => \/ q.valid /\ q.index = N + 1 /\ x = q.value
                                                \/ ~q.valid /\ x = <<"String", <<>>>>
      <4>1. \A j \in 1 .. N :
              /\ q.valid /\ q.index = j + 1 /\ x = q.value => x \in Values(text, 1, j)
              /\ x \in Values(text, 1, j) => \/ q.valid /\ q.index = j + 1 /\ x = q.value
                                             \/ ~q.valid /\ x = <<"String", <<>>>>
        BY <1>1 DEF ValueRight
      <4> HIDE DEF N
      <4> QED
        BY <2>2, <4>1, Zenon
    <3> QED
      BY <2>4, <3>1
  <2> HIDE DEF r
  <2>6. ASSUME r.valid PROVE Denoted(text) = {r.value}
    <3>1. q.valid /\ q.index = N + 1 /\ r.value = q.value
      BY <1>4, <2>6, Zenon
    <3>2. \A x : x \in Denoted(text) <=> x = r.value
      BY <2>5, <3>1, Zenon
    <3> QED
      BY <3>2, Zenon
  <2>7. ASSUME ~r.valid PROVE Denoted(text) \subseteq {<<"String", <<>>>>}
    BY <1>4, <2>5, <2>7, Zenon
  <2> QED
    BY <2>6, <2>7, Zenon DEF r
<1> QED
  BY <1>5, <1>6, Zenon

-----------------------------------------------------------------------------
(* Sorted keys *)

\* The values of f from i on, of those up to n.
ValuesFrom(f, i, n) == {f[j] : j \in i .. n}

\* The first n values of f are in order.
Increasing(f, n) == \A j, k \in 1 .. n : Less(f[j], f[k]) <=> j < k

\* What a function g that sorts makes of S.
SortBy(g, S) == IF S = {} THEN <<>> ELSE <<Least(S)>> \o g[S \ {Least(S)}]

\* g sorts the subsets of K.
IsSort(g, K) == g = [S \in SUBSET K |-> SortBy(g, S)]

\* Keys that are in order are the sorted keys.
LEMMA SortedIs ==
  \A n \in Nat : \A f :
    f = [k \in 1 .. n |-> f[k]] /\ Increasing(f, n) =>
      SortedKeys(ValuesFrom(f, 1, n)) = f

\* A part of a sequence is its first element and the part behind it.
<1>SubSeqFront. ASSUME NEW C, NEW s \in Seq(C), NEW i \in 1 .. Len(s)
                PROVE  <<s[i]>> \o SubSeq(s, i + 1, Len(s)) = SubSeq(s, i, Len(s))
  <2> DEFINE n == Len(s)
             t == SubSeq(s, i + 1, n)
             u == <<s[i]>>
             v == SubSeq(s, i, n)
  <2>1. t \in Seq(C) /\ Len(t) = n - i /\ \A k \in 1 .. n - i : t[k] = s[i + k]
    OBVIOUS
  <2>2. v \in Seq(C) /\ Len(v) = n - i + 1 /\ \A k \in 1 .. n - i + 1 : v[k] = s[i + k - 1]
    OBVIOUS
  <2>3. u \in Seq(C) /\ Len(u) = 1 /\ u[1] = s[i] /\ n \in Nat /\ i \in 1 .. n
    OBVIOUS
  <2> HIDE DEF n, t, u, v
  <2>4. /\ u \o t \in Seq(C) /\ Len(u \o t) = Len(u) + Len(t)
        /\ \A k \in 1 .. Len(u) + Len(t) : (u \o t)[k] = IF k <= Len(u) THEN u[k] ELSE t[k - Len(u)]
    BY <2>1, <2>3, ConcatProperties, Zenon
  <2>5. /\ Len(u \o t) = n - i + 1
        /\ \A k \in 1 .. n - i + 1 : (u \o t)[k] = s[i + k - 1]
    BY <2>1, <2>3, <2>4
  <2>6. u \o t = v
    BY <2>2, <2>4, <2>5, SeqEqual, Zenon
  <2> QED
    BY <2>6, Zenon DEF n, t, u, v

\* The least of some values is the first of them, the others are behind it.
<1>LeastIsFirst. ASSUME NEW n \in Nat, NEW f, Increasing(f, n),
                        NEW i \in 1 .. n + 1, NEW S \in SUBSET ValuesFrom(f, i, n), S # {}
                 PROVE  \E j \in i .. n : f[j] \in S /\ Least(S) = f[j] /\ S \ {f[j]} \in SUBSET ValuesFrom(f, j + 1, n)
  <2> USE <1>LeastIsFirst
  <2> DEFINE J == {j \in i .. n : f[j] \in S}
  <2>1. J \subseteq Nat /\ \A j \in J : j \in 1 .. n /\ j \in i .. n
    OBVIOUS
  <2>2. ASSUME NEW x \in S PROVE \E m \in J : x = f[m]
    BY Zenon DEF ValuesFrom
  <2>3. J # {}
    BY <2>2, Zenon
  <2>4. PICK j \in J : \A m \in J : j <= m
    BY <2>1, <2>3, LeastOf, Zenon
  <2>5. f[j] \in S /\ j \in i .. n
    BY Zenon
  <2> HIDE DEF J
  <2>6. ASSUME NEW m \in J PROVE ~ (m < j)
    BY <2>1, <2>4
  <2>7. \A x \in S : ~Less(x, f[j])
    BY <2>1, <2>2, <2>6, Zenon DEF Increasing
  <2>8. ASSUME NEW k \in S, \A x \in S : ~Less(x, k) PROVE k = f[j]
    <3>1. PICK m \in J : k = f[m]
      BY <2>2, Zenon
    <3>2. ~ (j < m)
      BY <2>1, <2>5, <2>8, <3>1, Zenon DEF Increasing
    <3>3. m = j
      BY <2>1, <2>6, <3>2
    <3> QED
      BY <3>1, <3>3, Zenon
  <2>9. Least(S) = f[j]
    BY <2>5, <2>7, <2>8, Zenon DEF Least
  <2>10. ASSUME NEW x \in S, x # f[j] PROVE x \in ValuesFrom(f, j + 1, n)
    <3>1. PICK m \in J : x = f[m]
      BY <2>2, Zenon
    <3>2. m # j
      BY <2>10, <3>1, Zenon
    <3>3. m \in j + 1 .. n
      BY <2>1, <2>6, <3>2
    <3> QED
      BY <3>1, <3>3, Zenon DEF ValuesFrom
  <2> QED
    BY <2>5, <2>9, <2>10, Zenon

\* There is a function that sorts the sets of these values.
<1>SortExists. ASSUME NEW n \in Nat, NEW f, Increasing(f, n)
               PROVE  \E g : IsSort(g, ValuesFrom(f, 1, n))
  <2> USE <1>SortExists
  <2> DEFINE V(i) == ValuesFrom(f, i, n)
             D == {k \in Nat : k <= n => \E g : IsSort(g, V(n + 1 - k))}
  <2>1. 0 \in D
    <3> DEFINE g == [S \in SUBSET V(n + 1) |-> <<>>]
    <3>1. n + 1 - 0 = n + 1 /\ n + 1 .. n = {}
      OBVIOUS
    <3>2. V(n + 1) = {}
      BY <3>1, Zenon DEF ValuesFrom
    <3>3. ASSUME NEW S \in SUBSET V(n + 1) PROVE SortBy(g, S) = <<>>
      BY <3>2, Zenon DEF SortBy
    <3> HIDE DEF V
    <3>4. g = [S \in SUBSET V(n + 1) |-> SortBy(g, S)]
      BY <3>3, Zenon
    <3>5. IsSort(g, V(n + 1))
      BY <3>4, Zenon DEF IsSort
    <3> HIDE DEF g
    <3> QED
      BY <3>1, <3>5, Zenon
  <2>2. ASSUME NEW k \in Nat, k \in D PROVE k + 1 \in D
    <3>0. k + 1 \in Nat
      OBVIOUS
    <3> SUFFICES ASSUME k + 1 <= n PROVE \E g : IsSort(g, V(n + 1 - (k + 1)))
      BY <3>0, Zenon
    <3> DEFINE i == n - k
    <3>1. /\ i \in 1 .. n + 1 /\ k <= n /\ n + 1 - (k + 1) = i /\ n + 1 - k = i + 1
          /\ i \in Nat /\ \A j \in i .. n : j + 1 .. n \subseteq i + 1 .. n
      OBVIOUS
    <3> HIDE DEF i
    <3>2. PICK g : IsSort(g, V(i + 1))
      BY <2>2, <3>1, Zenon
    <3> DEFINE h == [S \in SUBSET V(i) |-> SortBy(g, S)]
    <3>3. \A j \in i .. n : V(j + 1) \subseteq V(i + 1)
      BY <3>1, Zenon DEF ValuesFrom
    <3>4. V(i + 1) \subseteq V(i)
      <4>1. i + 1 .. n \subseteq i .. n
        BY <3>1
      <4> QED
        BY <4>1, Zenon DEF ValuesFrom
    <3>5. ASSUME NEW S \in SUBSET V(i + 1) PROVE h[S] = g[S]
      <4>1. S \in SUBSET V(i)
        BY <3>4, Zenon
      <4> HIDE DEF V
      <4>2. h[S] = SortBy(g, S)
        BY <4>1, Zenon
      <4>3. g[S] = SortBy(g, S)
        BY <3>2, Zenon DEF IsSort
      <4> QED
        BY <4>2, <4>3, Zenon
    <3> HIDE DEF h
    <3>6. ASSUME NEW S \in SUBSET V(i) PROVE SortBy(g, S) = SortBy(h, S)
      <4>1. CASE S = {}
        BY <4>1, Zenon DEF SortBy
      <4>2. CASE S # {}
        <5>1. PICK j \in i .. n : Least(S) = f[j] /\ S \ {f[j]} \in SUBSET V(j + 1)
          BY <3>1, <4>2, <1>LeastIsFirst, Zenon
        <5>2. S \ {Least(S)} \in SUBSET V(i + 1)
          BY <3>3, <5>1, Zenon
        <5>3. h[S \ {Least(S)}] = g[S \ {Least(S)}]
          BY <3>5, <5>2, Zenon
        <5> QED
          BY <4>2, <5>3, Zenon DEF SortBy
      <4> QED
        BY <4>1, <4>2, Zenon
    <3> HIDE DEF V
    <3>7. h = [S \in SUBSET V(i) |-> SortBy(h, S)]
      BY <3>6, Zenon DEF h
    <3>8. IsSort(h, V(i))
      BY <3>7, Zenon DEF IsSort
    <3> QED
      BY <3>1, <3>8, Zenon
  <2> HIDE DEF D, V
  <2>3. \A k \in Nat : k \in D
    BY <2>1, <2>2, Stepwise, Zenon
  <2>4. n <= n /\ n + 1 - n = 1
    OBVIOUS
  <2>5. \E g : IsSort(g, V(1))
    BY <2>3, <2>4, Zenon DEF D
  <2> QED
    BY <2>5, Zenon DEF V

<1> SUFFICES ASSUME NEW n \in Nat, NEW f, f = [k \in 1 .. n |-> f[k]], Increasing(f, n)
             PROVE  SortedKeys(ValuesFrom(f, 1, n)) = f
  BY Zenon
<1> DEFINE V(i) == ValuesFrom(f, i, n)
           g == CHOOSE g : IsSort(g, V(1))
<1>1. IsSort(g, V(1))
  BY <1>SortExists, Zenon
<1>2. SortedKeys(V(1)) = g[V(1)]
  BY Zenon DEF SortedKeys, IsSort, SortBy
<1> HIDE DEF g
<1>3. f \in [1 .. n -> V(1)]
  BY Zenon DEF ValuesFrom
<1>4. f \in Seq(V(1)) /\ Len(f) = n
  BY <1>3, FunctionIsSeq, Zenon
<1>5. ASSUME NEW i \in 1 .. n + 1 PROVE V(i) \in SUBSET V(1)
  <2>1. i .. n \subseteq 1 .. n
    OBVIOUS
  <2> QED
    BY <2>1, Zenon DEF ValuesFrom
<1>6. ASSUME NEW i \in 1 .. n PROVE V(i) # {} /\ Least(V(i)) = f[i] /\ V(i) \ {f[i]} = V(i + 1)
  <2>1. i \in i .. n /\ i \in 1 .. n + 1 /\ i + 1 .. n \subseteq i .. n /\ \A j \in i + 1 .. n : j \in 1 .. n /\ j # i
    OBVIOUS
  <2>2. f[i] \in V(i)
    BY <2>1, Zenon DEF ValuesFrom
  <2>3. PICK j \in i .. n : Least(V(i)) = f[j] /\ V(i) \ {f[j]} \in SUBSET V(j + 1)
    BY <2>1, <2>2, <1>LeastIsFirst, Zenon
  <2>4. ASSUME j # i PROVE FALSE
    <3>1. f[i] # f[j]
      <4>1. i < j /\ j \in 1 .. n /\ ~(i < i)
        BY <2>4
      <4> QED
        BY <4>1, Zenon DEF Increasing
    <3>2. f[i] \in V(j + 1)
      BY <2>2, <2>3, <3>1, Zenon
    <3>3. PICK m \in j + 1 .. n : f[i] = f[m]
      BY <3>2, Zenon DEF ValuesFrom
    <3>4. i < m /\ m \in 1 .. n /\ ~(i < i)
      BY <3>3
    <3> QED
      BY <3>3, <3>4, Zenon DEF Increasing
  <2>5. V(i + 1) \subseteq V(i)
    BY <2>1, Zenon DEF ValuesFrom
  <2>6. f[i] \notin V(i + 1)
    <3> SUFFICES ASSUME NEW m \in i + 1 .. n, f[i] = f[m] PROVE FALSE
      BY Zenon DEF ValuesFrom
    <3>1. i < m /\ m \in 1 .. n /\ ~(i < i)
      OBVIOUS
    <3> QED
      BY <3>1, Zenon DEF Increasing
  <2> QED
    BY <2>2, <2>3, <2>4, <2>5, <2>6, Zenon
<1> DEFINE D == {k \in Nat : k <= n => g[V(n + 1 - k)] = SubSeq(f, n + 1 - k, n)}
<1>7. 0 \in D
  <2>1. n + 1 - 0 = n + 1 /\ n + 1 .. n = {} /\ n + 1 \in 1 .. n + 1 /\ SubSeq(f, n + 1, n) = <<>>
    OBVIOUS
  <2>2. V(n + 1) = {}
    BY <2>1, Zenon DEF ValuesFrom
  <2> HIDE DEF V
  <2>3. g[V(n + 1)] = <<>>
    BY <1>1, <1>5, <2>1, <2>2, Zenon DEF IsSort, SortBy
  <2> QED
    BY <2>1, <2>3, Zenon
<1>8. ASSUME NEW k \in Nat, k \in D PROVE k + 1 \in D
  <2>0. k + 1 \in Nat
    OBVIOUS
  <2> SUFFICES ASSUME k + 1 <= n PROVE g[V(n + 1 - (k + 1))] = SubSeq(f, n + 1 - (k + 1), n)
    BY <2>0, Zenon
  <2> DEFINE i == n - k
  <2>1. i \in 1 .. n /\ i \in 1 .. n + 1 /\ k <= n /\ n + 1 - (k + 1) = i /\ n + 1 - k = i + 1
    OBVIOUS
  <2> HIDE DEF i
  <2>2. g[V(i + 1)] = SubSeq(f, i + 1, n)
    BY <1>8, <2>1, Zenon
  <2>3. V(i) # {} /\ Least(V(i)) = f[i] /\ V(i) \ {f[i]} = V(i + 1) /\ V(i) \in SUBSET V(1)
    BY <1>5, <1>6, <2>1, Zenon
  <2> HIDE DEF V
  <2>4. g[V(i)] = SortBy(g, V(i))
    BY <1>1, <2>3, Zenon DEF IsSort
  <2>5. g[V(i)] = <<f[i]>> \o SubSeq(f, i + 1, n)
    BY <2>2, <2>3, <2>4, Zenon DEF SortBy
  <2>6. <<f[i]>> \o SubSeq(f, i + 1, n) = SubSeq(f, i, n)
    BY <1>4, <2>1, <1>SubSeqFront, Zenon
  <2> QED
    BY <2>1, <2>5, <2>6, Zenon
<1> HIDE DEF D, V
<1>9. \A k \in Nat : k \in D
  BY <1>7, <1>8, Stepwise, Zenon
<1>10. n <= n /\ n + 1 - n = 1
  OBVIOUS
<1>11. g[V(1)] = SubSeq(f, 1, n)
  BY <1>9, <1>10, Zenon DEF D
<1>12. SubSeq(f, 1, n) = f
  BY <1>4, SubSeqFull, Zenon
<1> QED
  BY <1>2, <1>11, <1>12, Zenon DEF V

-----------------------------------------------------------------------------
(* Characters *)

\* The alphabet is a sequence with the digits and the ":" at its begin.
LEMMA AlphabetFacts ==
  /\ \E S : Alphabet \in Seq(S)
  /\ Len(Alphabet) \in Nat /\ Len(Alphabet) >= 13
  /\ DOMAIN Alphabet = 1 .. Len(Alphabet)
  /\ \A d \in 1 .. 10 : Alphabet[d + 2] = Digits[d]
  /\ Alphabet[13] = ":"
<1> DEFINE A == <<NUL, "-">>
           B == A \o Digits
           C == B \o <<":">>
           D == C \o Letters
           S == STRING \union {NUL, "-", ":"} \union {Digits[d] : d \in 1 .. 10}
<1>1. Digits \in Seq(S) /\ Len(Digits) = 10
  <2>1. \A d \in 1 .. 10 : Digits[d] \in S
    BY Zenon
  <2>2. Len(Digits) = 10 /\ Digits = [d \in 1 .. 10 |-> Digits[d]]
    BY DEF Digits
  <2> HIDE DEF S
  <2> QED
    BY <2>1, <2>2
<1>2. A \in Seq(S) /\ Len(A) = 2 /\ <<":">> \in Seq(S) /\ Len(<<":">>) = 1 /\ <<":">>[1] = ":"
  <2>1. NUL \in S /\ "-" \in S /\ ":" \in S
    BY Zenon
  <2> HIDE DEF S
  <2> QED
    BY <2>1
<1>3. Letters \in Seq(S) /\ Len(Letters) \in Nat
  <2>1. STRING \subseteq S
    BY Zenon
  <2> HIDE DEF S
  <2> QED
    BY <2>1, LettersAssumption, LenProperties, SeqMonotonic, Zenon
<1> HIDE DEF A, S
<1>4. /\ B \in Seq(S) /\ Len(B) = 12
      /\ \A d \in 1 .. 10 : B[d + 2] = Digits[d]
  <2>1. /\ B \in Seq(S) /\ Len(B) = Len(A) + Len(Digits)
        /\ \A k \in 1 .. Len(A) + Len(Digits) : B[k] = IF k <= Len(A) THEN A[k] ELSE Digits[k - Len(A)]
    BY <1>1, <1>2, ConcatProperties, Zenon
  <2> HIDE DEF B
  <2>2. \A d \in 1 .. 10 : d + 2 \in 1 .. 12 /\ ~(d + 2 <= 2) /\ (d + 2) - 2 = d
    OBVIOUS
  <2> QED
    BY <1>1, <1>2, <2>1, <2>2
<1> HIDE DEF B
<1>5. /\ C \in Seq(S) /\ Len(C) = 13
      /\ \A d \in 1 .. 10 : C[d + 2] = Digits[d]
      /\ C[13] = ":"
  <2> DEFINE E == <<":">>
  <2>1. E \in Seq(S) /\ Len(E) = 1 /\ E[1] = ":"
    BY <1>2
  <2> HIDE DEF E
  <2> DEFINE F == B \o E
  <2>2. /\ F \in Seq(S) /\ Len(F) = Len(B) + Len(E)
        /\ \A k \in 1 .. Len(B) + Len(E) : F[k] = IF k <= Len(B) THEN B[k] ELSE E[k - Len(B)]
    BY <1>4, <2>1, ConcatProperties, Zenon
  <2>3. C = F
    BY Zenon DEF E
  <2> HIDE DEF C, F
  <2>4. /\ C \in Seq(S) /\ Len(C) = 13
        /\ \A k \in 1 .. 13 : C[k] = IF k <= 12 THEN B[k] ELSE E[k - 12]
    BY <1>4, <2>1, <2>2, <2>3
  <2>5. \A d \in 1 .. 10 : d + 2 \in 1 .. 13 /\ d + 2 <= 12
    OBVIOUS
  <2>6. C[13] = E[13 - 12] /\ 13 - 12 = 1
    BY <2>4
  <2>7. \A d \in 1 .. 10 : C[d + 2] = B[d + 2]
    BY <2>4, <2>5, Zenon
  <2>8. C[13] = ":"
    BY <2>1, <2>6, Zenon
  <2> QED
    BY <1>4, <2>4, <2>7, <2>8, Zenon
<1> HIDE DEF C
<1>6. /\ D \in Seq(S) /\ Len(D) = Len(C) + Len(Letters)
      /\ \A k \in 1 .. Len(C) + Len(Letters) : D[k] = IF k <= Len(C) THEN C[k] ELSE Letters[k - Len(C)]
  BY <1>3, <1>5, ConcatProperties, Zenon
<1>7. Alphabet = D
  BY Zenon DEF Alphabet, A, B, C
<1> HIDE DEF D
<1>8. Len(D) \in Nat /\ Len(D) >= 13 /\ DOMAIN D = 1 .. Len(D)
  BY <1>3, <1>5, <1>6, LenProperties
<1>9. \A k \in 1 .. 13 : D[k] = C[k]
  BY <1>3, <1>5, <1>6
<1>10. (\A d \in 1 .. 10 : D[d + 2] = Digits[d]) /\ D[13] = ":"
  BY <1>5, <1>9
<1> QED
  BY <1>6, <1>7, <1>8, <1>10

\* A character has its place in the alphabet.
LEMMA RankFacts ==
  ASSUME NEW c \in Chars
  PROVE  Rank(c) \in 1 .. Len(Alphabet) /\ Alphabet[Rank(c)] = c
<1>1. DOMAIN Alphabet = 1 .. Len(Alphabet)
  BY AlphabetFacts
<1>2. \E n \in DOMAIN Alphabet : Alphabet[n] = c
  BY Zenon DEF Chars
<1>3. Rank(c) \in DOMAIN Alphabet /\ Alphabet[Rank(c)] = c
  BY <1>2, Zenon DEF Rank
<1> QED
  BY <1>1, <1>3, Zenon

\* Digits and ":" are characters.
LEMMA CharFacts ==
  /\ \A d \in 1 .. 10 : Digits[d] \in Chars
  /\ ":" \in Chars
<1>1. DOMAIN Alphabet = 1 .. Len(Alphabet)
  BY AlphabetFacts
<1>2. \A d \in 1 .. 10 : d + 2 \in DOMAIN Alphabet
  BY <1>1, AlphabetFacts
<1>3. 13 \in DOMAIN Alphabet
  BY <1>1, AlphabetFacts
<1>4. \A d \in 1 .. 10 : Alphabet[d + 2] = Digits[d]
  BY AlphabetFacts
<1>5. Alphabet[13] = ":"
  BY AlphabetFacts
<1>6. \A d \in 1 .. 10 : Digits[d] \in Chars
  BY <1>2, <1>4, Zenon DEF Chars
<1>7. ":" \in Chars
  BY <1>3, <1>5, Zenon DEF Chars
<1> QED
  BY <1>6, <1>7, Zenon

-----------------------------------------------------------------------------
(* Numerals *)

\* The equation of Numeral at n.
NumeralBy(f, n) ==
  IF n < 10 THEN <<Digits[n + 1]>> ELSE Append(f[n \div 10], Digits[(n % 10) + 1])

IsNumerals(f, D) == f = [n \in D |-> NumeralBy(f, n)]

\* What a numeral is: digits whose number is n.
IsNumeralOf(s, n) ==
  /\ s \in Seq(Chars)
  /\ s # <<>>
  /\ \A k \in 1 .. Len(s) : IsDigit(s[k])
  /\ Decimal(s) = n

\* std::to_string writes what std::stol reads.
LEMMA NumeralRight ==
  \A n \in Nat :
    IsNumeralOf(Numeral[n], n)

\* The numeral of n depends on that of a smaller number.
<1>TenthFacts. ASSUME NEW n \in Nat
               PROVE  n \div 10 \in Nat /\ n % 10 \in 0 .. 9 /\ n = 10 * (n \div 10) + (n % 10)
                      /\ (n >= 10 => n \div 10 < n)
  OBVIOUS

<1>NumeralFrame. ASSUME NEW n \in Nat, NEW f, NEW g, n >= 10 => f[n \div 10] = g[n \div 10]
                 PROVE  NumeralBy(f, n) = NumeralBy(g, n)
  <2>1. n < 10 \/ n >= 10
    OBVIOUS
  <2> QED
    BY <1>NumeralFrame, <2>1, Zenon DEF NumeralBy

\* There are numerals up to any number.
<1>NumeralsUpto. \A n \in Nat : \E f : IsNumerals(f, 0 .. n)
  <2> DEFINE S == {n \in Nat : \E f : IsNumerals(f, 0 .. n)}
  <2>1. 0 \in S
    <3> DEFINE f == [k \in 0 .. 0 |-> <<Digits[k + 1]>>]
    <3>1. \A k \in 0 .. 0 : k < 10
      OBVIOUS
    <3>2. \A k \in 0 .. 0 : NumeralBy(f, k) = <<Digits[k + 1]>>
      BY <3>1, Zenon DEF NumeralBy
    <3>3. IsNumerals(f, 0 .. 0)
      BY <3>2, Zenon DEF IsNumerals
    <3> HIDE DEF f
    <3>4. 0 \in Nat
      OBVIOUS
    <3> QED
      BY <3>3, <3>4, Zenon
  <2>2. ASSUME NEW n \in Nat, n \in S PROVE n + 1 \in S
    <3>1. PICK f : IsNumerals(f, 0 .. n)
      BY <2>2, Zenon
    <3> DEFINE g == [k \in 0 .. n + 1 |-> IF k <= n THEN f[k] ELSE NumeralBy(f, k)]
    <3>2. \A k \in 0 .. n : f[k] = NumeralBy(f, k)
      BY <3>1, Zenon DEF IsNumerals
    <3>3. ASSUME NEW k \in 0 .. n + 1 PROVE g[k] = NumeralBy(g, k)
      <4>1. k \in Nat /\ (k >= 10 => k \div 10 \in 0 .. n + 1 /\ k \div 10 <= n)
        <5>1. k \in Nat
          OBVIOUS
        <5>2. k \div 10 \in Nat /\ (k >= 10 => k \div 10 < k)
          BY <5>1, <1>TenthFacts
        <5> QED
          BY <5>1, <5>2
      <4>2. k >= 10 => g[k \div 10] = f[k \div 10]
        BY <4>1, Zenon
      <4>3. g[k] = NumeralBy(f, k)
        <5>1. k <= n => k \in 0 .. n
          OBVIOUS
        <5> QED
          BY <3>2, <5>1, Zenon
      <4> HIDE DEF g
      <4>4. NumeralBy(g, k) = NumeralBy(f, k)
        BY <4>1, <4>2, <1>NumeralFrame, Zenon
      <4> QED
        BY <4>3, <4>4, Zenon
    <3>4. g = [k \in 0 .. n + 1 |-> g[k]]
      BY Zenon
    <3> HIDE DEF g
    <3>5. IsNumerals(g, 0 .. n + 1)
      BY <3>3, <3>4, Zenon DEF IsNumerals
    <3>6. n + 1 \in Nat
      OBVIOUS
    <3> QED
      BY <3>5, <3>6, Zenon
  <2> HIDE DEF S
  <2>3. \A n \in Nat : n \in S
    BY <2>1, <2>2, Stepwise, Zenon
  <2> QED
    BY <2>3, Zenon DEF S

\* They do not depend on how far they go.
<1>NumeralsUnique. ASSUME NEW m \in Nat, NEW n \in Nat, m <= n,
                          NEW f, NEW g, IsNumerals(f, 0 .. m), IsNumerals(g, 0 .. n)
                   PROVE  \A k \in 0 .. m : f[k] = g[k]
  <2> USE <1>NumeralsUnique
  <2> DEFINE S == {k \in Nat : k <= m => f[k] = g[k]}
  <2>1. (\A k \in 0 .. m : f[k] = NumeralBy(f, k)) /\ (\A k \in 0 .. n : g[k] = NumeralBy(g, k))
    BY Zenon DEF IsNumerals
  <2>2. ASSUME NEW k \in Nat, \A j \in Nat : j < k => j \in S PROVE k \in S
    <3> SUFFICES ASSUME k <= m PROVE f[k] = g[k]
      BY Zenon
    <3>1. k \in 0 .. m /\ k \in 0 .. n
      OBVIOUS
    <3>2. k >= 10 => k \div 10 \in Nat /\ k \div 10 < k /\ k \div 10 <= m
      BY <1>TenthFacts
    <3>3. k >= 10 => f[k \div 10] = g[k \div 10]
      BY <2>2, <3>2, Zenon
    <3>4. NumeralBy(f, k) = NumeralBy(g, k)
      BY <3>3, <1>NumeralFrame, Zenon
    <3> QED
      BY <2>1, <3>1, <3>4, Zenon
  <2> HIDE DEF S
  <2>3. \A k \in Nat : k \in S
    BY <2>2, Induction, Zenon
  <2>4. ASSUME NEW k \in 0 .. m PROVE f[k] = g[k]
    <3>1. k \in Nat /\ k <= m
      OBVIOUS
    <3> QED
      BY <2>3, <3>1, Zenon DEF S
  <2> QED
    BY <2>4, Zenon

\* The equation of Numeral holds for every number.
<1>NumeralEquation. ASSUME NEW n \in Nat
                    PROVE  Numeral[n] = NumeralBy(Numeral, n)
  <2> DEFINE Up(k) == CHOOSE f : IsNumerals(f, 0 .. k)
             g == [k \in Nat |-> Up(k)[k]]
  <2>1. \A k \in Nat : IsNumerals(Up(k), 0 .. k)
    BY <1>NumeralsUpto, Zenon
  <2> HIDE DEF Up
  <2>2. ASSUME NEW k \in Nat PROVE g[k] = NumeralBy(g, k)
    <3>1. k \in 0 .. k
      OBVIOUS
    <3>2. g[k] = NumeralBy(Up(k), k)
      BY <2>1, <3>1, Zenon DEF IsNumerals
    <3>3. ASSUME k >= 10 PROVE Up(k)[k \div 10] = g[k \div 10]
      <4> DEFINE j == k \div 10
      <4>1. j \in Nat /\ j <= k /\ j \in 0 .. j
        BY <3>3, <1>TenthFacts
      <4> HIDE DEF j
      <4>2. IsNumerals(Up(j), 0 .. j) /\ IsNumerals(Up(k), 0 .. k)
        BY <2>1, <4>1, Zenon
      <4>3. \A i \in 0 .. j : Up(j)[i] = Up(k)[i]
        BY <4>1, <4>2, <1>NumeralsUnique
      <4>4. Up(k)[j] = g[j]
        BY <4>1, <4>3, Zenon
      <4> QED
        BY <4>4, Zenon DEF j
    <3>4. NumeralBy(Up(k), k) = NumeralBy(g, k)
      BY <3>3, <1>NumeralFrame, Zenon
    <3> QED
      BY <3>2, <3>4, Zenon
  <2>3. g = [k \in Nat |-> g[k]]
    BY Zenon
  <2> HIDE DEF g
  <2>4. IsNumerals(g, Nat)
    BY <2>2, <2>3, Zenon DEF IsNumerals
  <2>5. IsNumerals(Numeral, Nat)
    BY <2>4, Zenon DEF Numeral, IsNumerals, NumeralBy
  <2> QED
    BY <2>5, Zenon DEF IsNumerals

\* A digit more.
<1>DecimalAppend. ASSUME NEW S, NEW s \in Seq(S), NEW c \in S
                  PROVE  Decimal(Append(s, c)) = 10 * Decimal(s) + DigitOf(c)
  <2> DEFINE t == Append(s, c)
             n == Len(s)
  <2>1. /\ n \in Nat /\ t \in Seq(S) /\ Len(t) = n + 1 /\ t[n + 1] = c
        /\ \A k \in 1 .. n : t[k] = s[k]
    BY LenProperties, AppendProperties
  <2> HIDE DEF t
  <2>2. Len(t) \in Nat /\ n <= Len(t)
    BY <2>1
  <2>3. PICK f : IsPrefixValue(f, s, n) /\ Decimal(s) = f[n]
    BY <2>1, DecimalOf, Zenon
  <2>4. PICK g : IsPrefixValue(g, t, Len(t)) /\ Decimal(t) = g[Len(t)]
    BY <2>2, DecimalOf, Zenon
  <2>5. \A k \in 0 .. n : f[k] = g[k]
    <3>1. \A k \in 1 .. n : s[k] = t[k]
      BY <2>1, Zenon
    <3> DEFINE m == Len(t)
    <3>2. n \in Nat /\ m \in Nat /\ n <= m
      BY <2>1, <2>2, Zenon
    <3>3. IsPrefixValue(f, s, n) /\ IsPrefixValue(g, t, m)
      BY <2>3, <2>4, Zenon
    <3> HIDE DEF n, m
    <3> QED
      BY <3>1, <3>2, <3>3, PrefixValueUnique
  <2>6. \A k \in 0 .. Len(t) : g[k] = IF k = 0 THEN 0 ELSE 10 * g[k - 1] + DigitOf(t[k])
    BY <2>4, Zenon DEF IsPrefixValue
  <2>7. g[n + 1] = 10 * g[n] + DigitOf(t[n + 1])
    <3>1. n + 1 \in 0 .. Len(t) /\ n + 1 # 0 /\ (n + 1) - 1 = n
      BY <2>1
    <3> QED
      BY <2>6, <3>1, Zenon
  <2>8. n \in 0 .. n
    BY <2>1
  <2>9. Decimal(t) = 10 * Decimal(s) + DigitOf(c)
    BY <2>1, <2>3, <2>4, <2>5, <2>7, <2>8, Zenon
  <2> QED
    BY <2>9, Zenon DEF t

\* One digit.
<1>SingleDigit. ASSUME NEW d \in 0 .. 9
                PROVE  IsNumeralOf(<<Digits[d + 1]>>, d)
  <2> DEFINE c == Digits[d + 1]
  <2>1. IsDigit(c) /\ DigitOf(c) = d /\ c \in Chars
    <3>1. d + 1 \in 1 .. 10
      OBVIOUS
    <3> QED
      BY <3>1, DigitFacts, CharFacts, Zenon
  <2> HIDE DEF c
  <2>2. /\ <<c>> \in Seq(Chars) /\ <<c>> # <<>> /\ Len(<<c>>) = 1 /\ <<c>>[1] = c
        /\ Append(<<>>, c) = <<c>> /\ <<>> \in Seq(Chars) /\ Len(<<>>) = 0
    BY <2>1
  <2>3. \A k \in 1 .. Len(<<c>>) : IsDigit(<<c>>[k])
    <3>1. \A k \in 1 .. 1 : k = 1
      OBVIOUS
    <3> QED
      BY <2>1, <2>2, <3>1, Zenon
  <2>4. Decimal(<<>>) = 0
    <3>1. PICK f : IsPrefixValue(f, <<>>, Len(<<>>)) /\ Decimal(<<>>) = f[Len(<<>>)]
      BY <2>2, DecimalOf
    <3>2. 0 \in 0 .. 0
      OBVIOUS
    <3>3. f[0] = 0
      BY <2>2, <3>1, <3>2, Zenon DEF IsPrefixValue
    <3> QED
      BY <2>2, <3>1, <3>3, Zenon
  <2>5. Decimal(Append(<<>>, c)) = 10 * Decimal(<<>>) + DigitOf(c)
    BY <2>1, <2>2, <1>DecimalAppend, Zenon
  <2>6. Decimal(<<c>>) = d
    <3>1. Decimal(<<c>>) = 10 * 0 + d
      BY <2>1, <2>2, <2>4, <2>5, Zenon
    <3> QED
      BY <3>1
  <2>7. IsNumeralOf(<<c>>, d)
    BY <2>2, <2>3, <2>6, Zenon DEF IsNumeralOf
  <2> QED
    BY <2>7, Zenon DEF c

\* A digit more.
<1>MoreDigits. ASSUME NEW s, NEW n \in Nat, IsNumeralOf(s, n), NEW d \in 0 .. 9
               PROVE  IsNumeralOf(Append(s, Digits[d + 1]), 10 * n + d)
  <2> USE <1>MoreDigits
  <2> DEFINE c == Digits[d + 1]
             t == Append(s, c)
  <2>1. IsDigit(c) /\ DigitOf(c) = d /\ c \in Chars
    <3>1. d + 1 \in 1 .. 10
      OBVIOUS
    <3> QED
      BY <3>1, DigitFacts, CharFacts, Zenon
  <2> HIDE DEF c
  <2>2. s \in Seq(Chars) /\ Len(s) \in Nat /\ Decimal(s) = n /\ \A k \in 1 .. Len(s) : IsDigit(s[k])
    BY LenProperties, Zenon DEF IsNumeralOf
  <2>3. /\ t \in Seq(Chars) /\ Len(t) = Len(s) + 1 /\ t[Len(s) + 1] = c
        /\ \A k \in 1 .. Len(s) : t[k] = s[k]
    BY <2>1, <2>2, LenProperties, AppendProperties
  <2>4. Decimal(t) = 10 * n + d
    BY <2>1, <2>2, <1>DecimalAppend, Zenon
  <2> HIDE DEF t
  <2>5. t # <<>>
    BY <2>2, <2>3, EmptySeq
  <2>6. ASSUME NEW k \in 1 .. Len(t) PROVE IsDigit(t[k])
    <3>1. k \in 1 .. Len(s) \/ k = Len(s) + 1
      BY <2>2, <2>3
    <3> QED
      BY <2>1, <2>2, <2>3, <3>1, Zenon
  <2>7. IsNumeralOf(t, 10 * n + d)
    BY <2>3, <2>4, <2>5, <2>6, Zenon DEF IsNumeralOf
  <2> QED
    BY <2>7, Zenon DEF t, c

<1> SUFFICES ASSUME NEW n \in Nat
             PROVE  IsNumeralOf(Numeral[n], n)
  BY Zenon
<1> DEFINE S == {k \in Nat : IsNumeralOf(Numeral[k], k)}
<1>1. ASSUME NEW k \in Nat, \A j \in Nat : j < k => j \in S PROVE k \in S
  <2>1. Numeral[k] = NumeralBy(Numeral, k)
    BY <1>NumeralEquation, Zenon
  <2>2. CASE k < 10
    <3>1. k \in 0 .. 9
      BY <2>2
    <3>2. Numeral[k] = <<Digits[k + 1]>>
      BY <2>1, <2>2, Zenon DEF NumeralBy
    <3> QED
      BY <3>1, <3>2, <1>SingleDigit, Zenon
  <2>3. CASE ~(k < 10)
    <3> DEFINE j == k \div 10
               d == k % 10
    <3>1. j \in Nat /\ d \in 0 .. 9 /\ k = 10 * j + d /\ j < k
      BY <2>3, <1>TenthFacts
    <3>2. Numeral[k] = Append(Numeral[j], Digits[d + 1])
      BY <2>1, <2>3, Zenon DEF NumeralBy
    <3> HIDE DEF j, d
    <3>3. IsNumeralOf(Numeral[j], j)
      BY <1>1, <3>1, Zenon
    <3> QED
      BY <3>1, <3>2, <3>3, <1>MoreDigits, Zenon
  <2> QED
    BY <2>2, <2>3, Zenon
<1> HIDE DEF S
<1>2. \A k \in Nat : k \in S
  BY <1>1, Induction, Zenon
<1> QED
  BY <1>2, Zenon DEF S

-----------------------------------------------------------------------------
(* Texts one behind the other *)

\* u is s and behind it t.
IsJoined(u, C, s, t) ==
  /\ u \in Seq(C)
  /\ Len(u) = Len(s) + Len(t)
  /\ \A k \in 1 .. Len(s) : u[k] = s[k]
  /\ \A k \in 1 .. Len(t) : u[Len(s) + k] = t[k]

LEMMA Joined ==
  ASSUME NEW C, NEW s \in Seq(C), NEW t \in Seq(C)
  PROVE  IsJoined(s \o t, C, s, t)
<1> DEFINE u == s \o t
<1>1. /\ u \in Seq(C)
      /\ Len(u) = Len(s) + Len(t)
      /\ \A k \in 1 .. Len(s) + Len(t) : u[k] = IF k <= Len(s) THEN s[k] ELSE t[k - Len(s)]
  BY ConcatProperties, Zenon
<1>2. Len(s) \in Nat /\ Len(t) \in Nat
  BY LenProperties, Zenon
<1> HIDE DEF u
<1>3. ASSUME NEW k \in 1 .. Len(s) PROVE u[k] = s[k]
  BY <1>1, <1>2
<1>4. ASSUME NEW k \in 1 .. Len(t) PROVE u[Len(s) + k] = t[k]
  <2>1. Len(s) + k \in 1 .. Len(s) + Len(t) /\ ~(Len(s) + k <= Len(s)) /\ Len(s) + k - Len(s) = k
    BY <1>2
  <2> QED
    BY <1>1, <2>1
<1>5. IsJoined(u, C, s, t)
  BY <1>1, <1>3, <1>4, Zenon DEF IsJoined
<1> QED
  BY <1>5, Zenon DEF u

\* The parts of two texts one behind the other.
LEMMA JoinParts ==
  ASSUME NEW C, NEW s \in Seq(C), NEW t \in Seq(C)
  PROVE  /\ SubSeq(s \o t, 1, Len(s)) = s
         /\ SubSeq(s \o t, Len(s) + 1, Len(s \o t)) = t
<1> DEFINE u == s \o t
           m == Len(s)
           n == Len(t)
<1>1. IsJoined(u, C, s, t)
  BY Joined, Zenon
<1>2. m \in Nat /\ n \in Nat
  BY LenProperties, Zenon
<1> HIDE DEF u
<1>3. /\ u \in Seq(C) /\ Len(u) = m + n
      /\ \A k \in 1 .. m : u[k] = s[k]
      /\ \A k \in 1 .. n : u[m + k] = t[k]
  BY <1>1, Zenon DEF IsJoined
<1> HIDE DEF m, n
<1>4. SubSeq(u, 1, m) = s
  <2> DEFINE a == 1
  <2>1. a \in 1 .. Len(u) + 1 /\ m \in a - 1 .. Len(u) /\ m - a + 1 = m /\ \A k \in 1 .. m : a + k - 1 = k
    BY <1>2, <1>3
  <2>2. a \in Int /\ m \in Int
    BY <1>2
  <2> HIDE DEF a
  <2>3. IsPart(SubSeq(u, a, m), C, u, a, m)
    BY <1>3, <2>1, PartFacts, Zenon
  <2>4. IsPart(s, C, u, a, m)
    <3>1. s \in Seq(C) /\ Len(s) = m - a + 1 /\ \A k \in 1 .. m : s[k] = u[a + k - 1]
      BY <1>3, <2>1 DEF m
    <3> QED
      BY <2>1, <3>1, Zenon DEF IsPart
  <2>5. SubSeq(u, a, m) = s
    BY <2>2, <2>3, <2>4, PartUnique, Zenon
  <2> QED
    BY <2>5, Zenon DEF a
<1>5. SubSeq(u, m + 1, Len(u)) = t
  <2> DEFINE a == m + 1
             z == Len(u)
  <2>1. a \in 1 .. Len(u) + 1 /\ z \in a - 1 .. Len(u) /\ z - a + 1 = n /\ \A k \in 1 .. n : a + k - 1 = m + k
    BY <1>2, <1>3
  <2>2. a \in Int /\ z \in Int
    BY <1>2, <1>3
  <2> HIDE DEF a, z
  <2>3. IsPart(SubSeq(u, a, z), C, u, a, z)
    BY <1>3, <2>1, PartFacts, Zenon
  <2>4. IsPart(t, C, u, a, z)
    BY <1>3, <2>1, Zenon DEF IsPart, n
  <2>5. SubSeq(u, a, z) = t
    BY <2>2, <2>3, <2>4, PartUnique, Zenon
  <2> QED
    BY <2>5, Zenon DEF a, z
<1> QED
  BY <1>4, <1>5, Zenon DEF u, m

\* f gives the texts up to each place of ts, to the n-th.
IsConcat(f, ts, n) == f = [k \in 0 .. n |-> IF k = 0 THEN <<>> ELSE f[k - 1] \o ts[k]]

\* The steps of the recursion.
LEMMA IsConcatSteps ==
  ASSUME NEW f, NEW ts, NEW n \in Nat, IsConcat(f, ts, n)
  PROVE  f[0] = <<>> /\ \A k \in 0 .. n - 1 : f[k + 1] = f[k] \o ts[k + 1]
<1>1. \A k \in 0 .. n : f[k] = IF k = 0 THEN <<>> ELSE f[k - 1] \o ts[k]
  BY Zenon DEF IsConcat
<1>2. 0 \in 0 .. n
  OBVIOUS
<1>3. ASSUME NEW k \in 0 .. n - 1 PROVE f[k + 1] = f[k] \o ts[k + 1]
  <2>1. k + 1 \in 0 .. n /\ k + 1 # 0 /\ (k + 1) - 1 = k
    OBVIOUS
  <2> QED
    BY <1>1, <2>1, Zenon
<1> QED
  BY <1>1, <1>2, <1>3, Zenon

\* What Concat is.
LEMMA ConcatOf ==
  \A ts :
    Len(ts) \in Nat =>
      \E f : IsConcat(f, ts, Len(ts)) /\ Concat(ts) = f[Len(ts)]

<1>IsConcatExists. ASSUME NEW ts
                   PROVE  \A n \in Nat : \E f : IsConcat(f, ts, n)
  <2> DEFINE S == {n \in Nat : \E f : IsConcat(f, ts, n)}
  <2>1. 0 \in S
    <3> DEFINE f == [k \in 0 .. 0 |-> <<>>]
    <3>1. \A k \in 0 .. 0 : k = 0
      OBVIOUS
    <3>2. IsConcat(f, ts, 0)
      BY <3>1, Zenon DEF IsConcat
    <3> HIDE DEF f
    <3>3. 0 \in Nat
      OBVIOUS
    <3> QED
      BY <3>2, <3>3, Zenon
  <2>2. ASSUME NEW n \in Nat, n \in S PROVE n + 1 \in S
    <3>1. PICK f : IsConcat(f, ts, n)
      BY <2>2, Zenon
    <3> DEFINE g == [k \in 0 .. n + 1 |-> IF k <= n THEN f[k] ELSE f[n] \o ts[n + 1]]
    <3>2. f[0] = <<>> /\ \A k \in 0 .. n - 1 : f[k + 1] = f[k] \o ts[k + 1]
      BY <3>1, IsConcatSteps, Zenon
    <3>3. ASSUME NEW k \in 0 .. n + 1 PROVE g[k] = IF k = 0 THEN <<>> ELSE g[k - 1] \o ts[k]
      <4>1. CASE k = 0
        <5>1. k <= n
          BY <4>1
        <5> QED
          BY <3>2, <4>1, <5>1, Zenon
      <4>2. CASE k # 0
        <5>1. k - 1 \in 0 .. n + 1 /\ k - 1 <= n /\ (k - 1) + 1 = k
          BY <4>2
        <5>2. g[k - 1] = f[k - 1]
          BY <5>1, Zenon
        <5>3. CASE k <= n
          <6>1. k - 1 \in 0 .. n - 1
            BY <4>2, <5>3
          <6>2. f[k] = f[k - 1] \o ts[k]
            BY <3>2, <5>1, <6>1, Zenon
          <6> QED
            BY <4>2, <5>2, <5>3, <6>2, Zenon
        <5>4. CASE ~(k <= n)
          <6>1. k = n + 1 /\ k - 1 = n
            BY <5>4
          <6> QED
            BY <4>2, <5>2, <5>4, <6>1, Zenon
        <5> QED
          BY <5>3, <5>4, Zenon
      <4> QED
        BY <4>1, <4>2, Zenon
    <3>4. g = [k \in 0 .. n + 1 |-> g[k]]
      BY Zenon
    <3> HIDE DEF g
    <3>5. IsConcat(g, ts, n + 1)
      BY <3>3, <3>4, Zenon DEF IsConcat
    <3>6. n + 1 \in Nat
      OBVIOUS
    <3> QED
      BY <3>5, <3>6, Zenon
  <2> HIDE DEF S
  <2>3. \A n \in Nat : n \in S
    BY <2>1, <2>2, Stepwise, Zenon
  <2> QED
    BY <2>3, Zenon DEF S

<1> SUFFICES ASSUME NEW ts, Len(ts) \in Nat
             PROVE  \E f : IsConcat(f, ts, Len(ts)) /\ Concat(ts) = f[Len(ts)]
  BY Zenon
<1> DEFINE f == CHOOSE f : IsConcat(f, ts, Len(ts))
<1>1. IsConcat(f, ts, Len(ts))
  BY <1>IsConcatExists, Zenon
<1>2. Concat(ts) = f[Len(ts)]
  BY Zenon DEF Concat, IsConcat
<1> HIDE DEF f
<1> QED
  BY <1>1, <1>2, Zenon

\* Texts make a text.
LEMMA ConcatSteps ==
  ASSUME NEW C, NEW ts \in Seq(Seq(C)), NEW f, IsConcat(f, ts, Len(ts))
  PROVE  /\ Len(ts) \in Nat
         /\ f[0] = <<>>
         /\ \A k \in 0 .. Len(ts) - 1 : f[k + 1] = f[k] \o ts[k + 1] /\ ts[k + 1] \in Seq(C)
         /\ \A k \in 0 .. Len(ts) : f[k] \in Seq(C)
<1> DEFINE n == Len(ts)
           S == {k \in Nat : k <= n => f[k] \in Seq(C)}
<1>1. n \in Nat
  BY LenProperties
<1>2. f[0] = <<>> /\ \A k \in 0 .. n - 1 : f[k + 1] = f[k] \o ts[k + 1]
  BY <1>1, IsConcatSteps, Zenon
<1>3. ASSUME NEW k \in 0 .. n - 1 PROVE ts[k + 1] \in Seq(C)
  <2>1. k + 1 \in 1 .. n
    BY <1>1
  <2> QED
    BY <2>1, ElementOfSeq, Zenon
<1>4. 0 \in S
  BY <1>2, EmptySeq, Zenon
<1>5. ASSUME NEW k \in Nat, k \in S PROVE k + 1 \in S
  <2> SUFFICES ASSUME k + 1 <= n PROVE f[k + 1] \in Seq(C)
    <3>1. k + 1 \in Nat
      OBVIOUS
    <3> QED
      BY <3>1, Zenon
  <2>1. k \in 0 .. n - 1 /\ k <= n
    BY <1>1
  <2>2. f[k] \in Seq(C) /\ ts[k + 1] \in Seq(C) /\ f[k + 1] = f[k] \o ts[k + 1]
    BY <1>2, <1>3, <1>5, <2>1, Zenon
  <2> QED
    BY <2>2, ConcatProperties, Zenon
<1> HIDE DEF S
<1>6. \A k \in Nat : k \in S
  BY <1>4, <1>5, Stepwise, Zenon
<1>7. ASSUME NEW k \in 0 .. n PROVE f[k] \in Seq(C)
  <2>1. k \in Nat /\ k <= n
    BY <1>1
  <2> QED
    BY <1>6, <2>1, Zenon DEF S
<1> QED
  BY <1>1, <1>2, <1>3, <1>7, Zenon

LEMMA ConcatType ==
  ASSUME NEW C, NEW ts \in Seq(Seq(C))
  PROVE  Concat(ts) \in Seq(C)
<1>1. Len(ts) \in Nat
  BY LenProperties
<1>2. PICK f : IsConcat(f, ts, Len(ts)) /\ Concat(ts) = f[Len(ts)]
  BY <1>1, ConcatOf, Zenon
<1>3. \A k \in 0 .. Len(ts) : f[k] \in Seq(C)
  BY <1>2, ConcatSteps, Zenon
<1>4. Len(ts) \in 0 .. Len(ts)
  BY <1>1
<1> QED
  BY <1>2, <1>3, <1>4, Zenon

LEMMA ConcatNone == Concat(<<>>) = <<>>
<1>1. Len(<<>>) = 0 /\ Len(<<>>) \in Nat
  OBVIOUS
<1>2. PICK f : IsConcat(f, <<>>, Len(<<>>)) /\ Concat(<<>>) = f[Len(<<>>)]
  BY <1>1, ConcatOf
<1>3. f[0] = <<>>
  BY <1>1, <1>2, IsConcatSteps, Zenon
<1> QED
  BY <1>1, <1>2, <1>3, Zenon

\* The first text, and the others behind it.
LEMMA ConcatCons ==
  ASSUME NEW C, NEW t \in Seq(C), NEW ts \in Seq(Seq(C))
  PROVE  Concat(<<t>> \o ts) = t \o Concat(ts)
<1> DEFINE us == <<t>> \o ts
           n == Len(ts)
<1>1. /\ us \in Seq(Seq(C) \union {t}) /\ Len(us) = n + 1 /\ us[1] = t
      /\ \A k \in 1 .. n : us[k + 1] = ts[k]
  BY ConsFacts
<1>2. Seq(C) \union {t} = Seq(C)
  BY Zenon
<1>3. us \in Seq(Seq(C)) /\ n \in Nat
  BY <1>1, <1>2, LenProperties
<1> HIDE DEF us
<1>4. PICK f : IsConcat(f, ts, n) /\ Concat(ts) = f[n]
  BY <1>3, ConcatOf, Zenon
<1>5. PICK g : IsConcat(g, us, n + 1) /\ Concat(us) = g[n + 1]
  <2>1. Len(us) \in Nat
    BY <1>1, <1>3
  <2>2. \E g : IsConcat(g, us, Len(us)) /\ Concat(us) = g[Len(us)]
    BY <2>1, ConcatOf, Zenon
  <2> QED
    BY <1>1, <2>2, Zenon
<1>6. /\ f[0] = <<>>
      /\ \A k \in 0 .. n - 1 : f[k + 1] = f[k] \o ts[k + 1] /\ ts[k + 1] \in Seq(C)
      /\ \A k \in 0 .. n : f[k] \in Seq(C)
  BY <1>4, ConcatSteps, Zenon
<1>7. g[0] = <<>> /\ \A k \in 0 .. n : g[k + 1] = g[k] \o us[k + 1]
  <2> DEFINE m == n + 1
  <2>1. m \in Nat /\ m - 1 = n
    BY <1>3
  <2> HIDE DEF m
  <2>2. IsConcat(g, us, m)
    BY <1>5, Zenon DEF m
  <2>3. g[0] = <<>> /\ \A k \in 0 .. m - 1 : g[k + 1] = g[k] \o us[k + 1]
    BY <2>1, <2>2, IsConcatSteps, Zenon
  <2> QED
    BY <2>1, <2>3, Zenon
<1> DEFINE S == {k \in Nat : k <= n => g[k + 1] = t \o f[k]}
<1>8. 0 \in S
  <2>1. 0 \in 0 .. n /\ 0 + 1 = 1 /\ 0 \in Nat
    BY <1>3
  <2>2. g[0 + 1] = <<>> \o t
    BY <1>1, <1>7, <2>1, Zenon
  <2>3. <<>> \o t = t /\ t \o <<>> = t
    BY ConcatEmptySeq
  <2> QED
    BY <1>6, <2>1, <2>2, <2>3, Zenon
<1>9. ASSUME NEW k \in Nat, k \in S PROVE k + 1 \in S
  <2> SUFFICES ASSUME k + 1 <= n PROVE g[(k + 1) + 1] = t \o f[k + 1]
    <3>1. k + 1 \in Nat
      OBVIOUS
    <3> QED
      BY <3>1, Zenon
  <2>1. k \in 0 .. n - 1 /\ k <= n /\ k + 1 \in 0 .. n /\ k + 1 \in 1 .. n /\ k \in 0 .. n
    BY <1>3
  <2>2. g[(k + 1) + 1] = (t \o f[k]) \o ts[k + 1]
    BY <1>1, <1>7, <1>9, <2>1, Zenon
  <2>3. f[k] \in Seq(C) /\ ts[k + 1] \in Seq(C) /\ f[k + 1] = f[k] \o ts[k + 1]
    BY <1>6, <2>1, Zenon
  <2>4. (t \o f[k]) \o ts[k + 1] = t \o (f[k] \o ts[k + 1])
    <3> DEFINE a == f[k]
               b == ts[k + 1]
               u == (t \o a) \o b
               w == t \o (a \o b)
    <3>1. a \in Seq(C) /\ b \in Seq(C)
      BY <2>3, Zenon
    <3> HIDE DEF a, b
    <3>2. u \in Seq(C) /\ w \in Seq(C) /\ Len(u) = Len(w)
      BY <3>1
    <3>3. \A i \in 1 .. Len(u) : u[i] = w[i]
      BY <3>1
    <3> HIDE DEF u, w
    <3>4. u = w
      BY <3>2, <3>3, SeqEqual, Zenon
    <3> QED
      BY <3>4, Zenon DEF a, b, u, w
  <2> QED
    BY <2>2, <2>3, <2>4, Zenon
<1> HIDE DEF S
<1>10. \A k \in Nat : k \in S
  BY <1>8, <1>9, Stepwise, Zenon
<1>11. g[n + 1] = t \o f[n]
  <2>1. n <= n
    BY <1>3
  <2> QED
    BY <1>3, <1>10, <2>1, Zenon DEF S
<1>12. Concat(us) = t \o Concat(ts)
  BY <1>4, <1>5, <1>11, Zenon
<1> QED
  BY <1>12, Zenon DEF us

\* In u the i-th text, of length L, is found behind the i - 1 before it.
HasInPlace(u, C, L, ts) ==
  /\ u \in Seq(C)
  /\ Len(u) = Len(ts) * L
  /\ \A i \in 1 .. Len(ts) : \A j \in 1 .. L : u[(i - 1) * L + j] = ts[i][j]

LEMMA ConcatFixed ==
  ASSUME NEW C, NEW L \in Nat, NEW ts \in Seq({t \in Seq(C) : Len(t) = L})
  PROVE  HasInPlace(Concat(ts), C, L, ts)
<1> DEFINE n == Len(ts)
           T == {t \in Seq(C) : Len(t) = L}
<1>1. ts \in Seq(Seq(C)) /\ n \in Nat /\ \A i \in 1 .. n : ts[i] \in Seq(C) /\ Len(ts[i]) = L
  <2>1. T \subseteq Seq(C)
    BY Zenon
  <2>2. \A i \in 1 .. n : ts[i] \in T
    BY ElementOfSeq, Zenon
  <2>3. n \in Nat
    BY LenProperties
  <2>4. ts \in Seq(Seq(C))
    BY <2>1, SeqMonotonic, Zenon
  <2> QED
    BY <2>2, <2>3, <2>4, Zenon
<1>2. PICK f : IsConcat(f, ts, n) /\ Concat(ts) = f[n]
  BY <1>1, ConcatOf, Zenon
<1>3. /\ f[0] = <<>>
      /\ \A k \in 0 .. n - 1 : f[k + 1] = f[k] \o ts[k + 1] /\ ts[k + 1] \in Seq(C)
      /\ \A k \in 0 .. n : f[k] \in Seq(C)
  BY <1>1, <1>2, ConcatSteps, Zenon
<1> DEFINE Fixed(k) == /\ Len(f[k]) = k * L
                       /\ \A i \in 1 .. k : \A j \in 1 .. L : f[k][(i - 1) * L + j] = ts[i][j]
           S == {k \in Nat : k <= n => Fixed(k)}
<1>4. 0 \in S
  <2>1. Len(f[0]) = 0 * L /\ 1 .. 0 = {}
    BY <1>3
  <2>2. 0 \in Nat
    OBVIOUS
  <2> QED
    BY <2>1, <2>2, Zenon
<1>5. ASSUME NEW k \in Nat, k \in S PROVE k + 1 \in S
  <2> SUFFICES ASSUME k + 1 <= n PROVE Fixed(k + 1)
    <3>1. k + 1 \in Nat
      OBVIOUS
    <3> QED
      BY <3>1, Zenon
  <2>1. k \in 0 .. n - 1 /\ k <= n /\ k \in 0 .. n /\ k + 1 \in 1 .. n
    BY <1>1
  <2>2. Fixed(k)
    BY <1>5, <2>1, Zenon
  <2> DEFINE a == f[k]
             b == ts[k + 1]
             c == f[k + 1]
  <2>3. a \in Seq(C) /\ b \in Seq(C) /\ c = a \o b /\ Len(b) = L
    BY <1>1, <1>3, <2>1, Zenon
  <2>4. Len(a) = k * L /\ \A i \in 1 .. k : \A j \in 1 .. L : a[(i - 1) * L + j] = ts[i][j]
    BY <2>2, Zenon
  <2> HIDE DEF a, b, c
  <2>5. /\ Len(c) = Len(a) + Len(b)
        /\ \A i \in 1 .. Len(a) + Len(b) : c[i] = IF i <= Len(a) THEN a[i] ELSE b[i - Len(a)]
    BY <2>3, ConcatProperties, Zenon
  <2>6. PICK m \in Nat : m = k * L /\ m + L = (k + 1) * L
    <3>1. k * L \in Nat /\ k * L + L = (k + 1) * L
      OBVIOUS
    <3> QED
      BY <3>1, Zenon
  <2>7. Len(c) = (k + 1) * L
    BY <2>3, <2>4, <2>5, <2>6, Zenon
  <2>8. ASSUME NEW i \in 1 .. k + 1, NEW j \in 1 .. L PROVE c[(i - 1) * L + j] = ts[i][j]
    <3>1. CASE i = k + 1
      <4>1. (i - 1) * L = m
        <5>1. i - 1 = k
          BY <3>1
        <5> QED
          BY <2>6, <5>1, Zenon
      <4>2. m + j \in 1 .. m + L /\ ~(m + j <= m) /\ (m + j) - m = j
        OBVIOUS
      <4>3. c[m + j] = b[j]
        BY <2>3, <2>4, <2>5, <2>6, <4>2
      <4> QED
        BY <3>1, <4>1, <4>3, Zenon DEF b
    <3>2. CASE i # k + 1
      <4>1. i \in 1 .. k /\ i - 1 \in Nat /\ i <= k
        BY <3>2
      <4>2. (i - 1) * L \in Nat /\ (i - 1) * L + L <= k * L
        <5>1. (i - 1) * L + L = i * L /\ i * L <= k * L
          BY <4>1
        <5>2. (i - 1) * L \in Nat
          BY <4>1
        <5> QED
          BY <5>1, <5>2
      <4>3. PICK q \in Nat : q = (i - 1) * L
        BY <4>2, Zenon
      <4>4. q + L <= m
        BY <2>6, <4>2, <4>3, Zenon
      <4>5. q + j \in 1 .. m + L /\ q + j <= m
        BY <4>4
      <4>6. c[q + j] = a[q + j]
        BY <2>3, <2>4, <2>5, <2>6, <4>5
      <4> QED
        BY <2>4, <4>1, <4>3, <4>6, Zenon
    <3> QED
      BY <3>1, <3>2, Zenon
  <2> QED
    BY <2>7, <2>8, Zenon DEF c
<1> HIDE DEF S
<1>6. \A k \in Nat : k \in S
  BY <1>4, <1>5, Stepwise, Zenon
<1>7. Fixed(n)
  <2>1. n <= n
    BY <1>1
  <2> QED
    BY <1>1, <1>6, <2>1, Zenon DEF S
<1>8. n \in 0 .. n
  BY <1>1
<1> QED
  BY <1>2, <1>3, <1>7, <1>8, Zenon DEF HasInPlace

-----------------------------------------------------------------------------
(* Texts that stand for values *)

\* A text between a character and an "e".
IsFrameOf(t, c, w) ==
  /\ t \in Seq(Chars)
  /\ t # <<>>
  /\ Framed(t, c)
  /\ Inner(t) = w
  /\ t \in Texts => w \in Texts

LEMMA FrameText ==
  ASSUME NEW c \in Chars, NEW w \in Seq(Chars)
  PROVE  IsFrameOf(<<c>> \o w \o <<"e">>, c, w)
<1> DEFINE a == <<c>>
           e == <<"e">>
           b == a \o w
           t == b \o e
           n == Len(w)
<1>1. /\ a \in Seq(Chars) /\ Len(a) = 1 /\ a[1] = c
      /\ e \in Seq(Chars) /\ Len(e) = 1 /\ e[1] = "e"
  BY MarksAssumption
<1>2. n \in Nat
  BY LenProperties, Zenon
<1> HIDE DEF a, e
<1>3. IsJoined(b, Chars, a, w)
  BY <1>1, Joined, Zenon
<1> HIDE DEF b
<1>4. b \in Seq(Chars)
  BY <1>3, Zenon DEF IsJoined
<1>5. IsJoined(t, Chars, b, e)
  BY <1>1, <1>4, Joined, Zenon
<1> HIDE DEF t
<1>6. /\ Len(b) = n + 1 /\ t \in Seq(Chars) /\ Len(t) = n + 2
      /\ b[1] = c /\ \A k \in 1 .. n : b[1 + k] = w[k]
      /\ t[n + 2] = "e" /\ \A k \in 1 .. n + 1 : t[k] = b[k]
  <2>1. Len(b) = 1 + n /\ (\A k \in 1 .. 1 : b[k] = a[k]) /\ \A k \in 1 .. n : b[1 + k] = w[k]
    BY <1>1, <1>3, Zenon DEF IsJoined
  <2> HIDE DEF n
  <2>2. Len(b) = n + 1 /\ b[1] = c
    BY <1>1, <1>2, <2>1
  <2>3. Len(t) = n + 1 + 1 /\ (\A k \in 1 .. n + 1 : t[k] = b[k]) /\ \A k \in 1 .. 1 : t[n + 1 + k] = e[k]
    BY <1>1, <1>5, <2>2, Zenon DEF IsJoined
  <2>4. t[n + 2] = "e" /\ Len(t) = n + 2
    BY <1>1, <1>2, <2>3
  <2>5. t \in Seq(Chars)
    BY <1>5, Zenon DEF IsJoined
  <2> QED
    BY <2>1, <2>2, <2>3, <2>4, <2>5, Zenon
<1> HIDE DEF n
<1>7. t[1] = c /\ \A k \in 1 .. n : t[1 + k] = w[k]
  <2>1. 1 \in 1 .. n + 1 /\ \A k \in 1 .. n : 1 + k \in 1 .. n + 1
    BY <1>2
  <2> QED
    BY <1>6, <2>1, Zenon
<1>8. t # <<>> /\ Framed(t, c)
  <2>1. Len(t) > 1 /\ Len(t) # 0
    BY <1>2, <1>6
  <2>2. t # <<>>
    BY <2>1
  <2> QED
    BY <1>6, <1>7, <2>1, <2>2 DEF Framed
<1>9. Inner(t) = w
  <2> DEFINE p == 2
             z == Len(t) - 1
  <2>1. p \in 1 .. Len(t) + 1 /\ z \in p - 1 .. Len(t) /\ z - p + 1 = n /\ \A k \in 1 .. n : p + k - 1 = 1 + k
    BY <1>2, <1>6
  <2>2. p \in Int /\ z \in Int
    BY <1>2, <1>6
  <2>3. Inner(t) = SubSeq(t, p, z)
    BY Zenon DEF Inner
  <2> HIDE DEF p, z
  <2>4. IsPart(SubSeq(t, p, z), Chars, t, p, z)
    BY <1>6, <2>1, PartFacts, Zenon
  <2>5. IsPart(w, Chars, t, p, z)
    BY <1>7, <2>1, Zenon DEF IsPart, n
  <2>6. SubSeq(t, p, z) = w
    BY <2>2, <2>4, <2>5, PartUnique, Zenon
  <2> QED
    BY <2>3, <2>6, Zenon
<1>10. t \in Texts => w \in Texts
  <2>1. Len(t) <= LongMax => Len(w) <= LongMax
    BY <1>2, <1>6, LongAssumption DEF n
  <2> QED
    BY <1>6, <2>1, Zenon DEF Texts
<1>11. IsFrameOf(t, c, w)
  BY <1>6, <1>8, <1>9, <1>10, Zenon DEF IsFrameOf
<1> QED
  BY <1>11, Zenon DEF t, b, a, e

\* t is the text of v, unless it is too long for one.
Stands(t, v) ==
  /\ t \in Seq(Chars)
  /\ t # <<>>
  /\ t \in Texts => v \in Denoted(t)

\* A string behind its length.
LEMMA StringText ==
  ASSUME NEW s \in Seq(Chars)
  PROVE  /\ BString(s) \in Seq(Chars)
         /\ BString(s) # <<>>
         /\ <<"String", s>> \in StringsOf(BString(s))
<1> DEFINE n == Numeral[Len(s)]
           q == <<":">>
           a == n \o q
           t == a \o s
           k == Len(n) + 1
<1>1. Len(s) \in Nat
  BY LenProperties, Zenon
<1>2. IsNumeralOf(n, Len(s))
  BY <1>1, NumeralRight, Zenon
<1> HIDE DEF n
<1>3. n \in Seq(Chars) /\ n # <<>> /\ (\A j \in 1 .. Len(n) : IsDigit(n[j])) /\ Decimal(n) = Len(s)
  BY <1>2, Zenon DEF IsNumeralOf
<1>4. Len(n) \in Nat /\ DOMAIN n = 1 .. Len(n)
  BY <1>3, LenProperties, Zenon
<1>5. q \in Seq(Chars) /\ Len(q) = 1 /\ q[1] = ":"
  BY CharFacts
<1> HIDE DEF q
<1>6. IsJoined(a, Chars, n, q)
  BY <1>3, <1>5, Joined, Zenon
<1> HIDE DEF a
<1>7. a \in Seq(Chars) /\ Len(a) = k /\ a[k] = ":" /\ \A j \in 1 .. Len(n) : a[j] = n[j]
  <2>1. /\ a \in Seq(Chars) /\ Len(a) = Len(n) + 1 /\ \A j \in 1 .. 1 : a[Len(n) + j] = q[j]
        /\ \A j \in 1 .. Len(n) : a[j] = n[j]
    BY <1>5, <1>6, Zenon DEF IsJoined
  <2>2. 1 \in 1 .. 1
    OBVIOUS
  <2> QED
    BY <1>5, <2>1, <2>2, Zenon
<1>8. IsJoined(t, Chars, a, s)
  BY <1>7, Joined, Zenon
<1>9. SubSeq(t, k + 1, Len(t)) = s
  <2>1. SubSeq(a \o s, Len(a) + 1, Len(a \o s)) = s
    BY <1>7, JoinParts
  <2> HIDE DEF k
  <2> QED
    BY <1>7, <2>1, Zenon
<1> HIDE DEF t
<1>10. /\ t \in Seq(Chars) /\ Len(t) = k + Len(s)
       /\ \A j \in 1 .. k : t[j] = a[j]
  BY <1>7, <1>8, Zenon DEF IsJoined
<1>11. SubSeq(t, 1, k - 1) = n
  <2> DEFINE p == 1
             z == k - 1
             m == Len(n)
  <2>1. p \in 1 .. Len(t) + 1 /\ z \in p - 1 .. Len(t) /\ z - p + 1 = m /\ \A j \in 1 .. m : p + j - 1 = j /\ j \in 1 .. k
    BY <1>1, <1>4, <1>10
  <2>2. p \in Int /\ z \in Int
    BY <1>4
  <2> HIDE DEF p, z, k
  <2>3. IsPart(SubSeq(t, p, z), Chars, t, p, z)
    BY <1>10, <2>1, PartFacts, Zenon
  <2>4. \A j \in 1 .. m : n[j] = t[j]
    BY <1>7, <1>10, <2>1, Zenon
  <2>5. \A j \in 1 .. m : n[j] = t[p + j - 1]
    BY <2>1, <2>4
  <2> HIDE DEF m
  <2>6. IsPart(n, Chars, t, p, z)
    BY <1>3, <2>1, <2>5, Zenon DEF IsPart, m
  <2>7. SubSeq(t, p, z) = n
    BY <2>2, <2>3, <2>6, PartUnique, Zenon
  <2> QED
    BY <2>7, Zenon DEF p, z
<1>12. k \in 1 .. k /\ k \in 1 .. Len(t) /\ Len(t) - k = Len(s) /\ Len(t) # 0
  BY <1>1, <1>4, <1>10
<1>13. IsLength(t, k)
  <2>1. t[k] = ":"
    BY <1>7, <1>10, <1>12, Zenon
  <2>2. IsNumeral(n)
    BY <1>3, <1>4, Zenon DEF IsNumeral
  <2> HIDE DEF k
  <2> QED
    BY <1>3, <1>11, <1>12, <2>1, <2>2, Zenon DEF IsLength
<1>14. <<"String", s>> \in StringsOf(t)
  <2> HIDE DEF k
  <2> QED
    BY <1>9, <1>12, <1>13, Zenon DEF StringsOf
<1>15. BString(s) = t
  BY Zenon DEF BString, t, a, q, n
<1>16. t # <<>>
  BY <1>12
<1> QED
  BY <1>10, <1>14, <1>15, <1>16, Zenon

\* What a text denotes.
LEMMA DenotedIn ==
  ASSUME NEW t \in Texts, NEW x
  PROVE  x \in Denoted(t) <=>
           \/ x \in IntegersOf(t)
           \/ x \in StringsOf(t)
           \/ IsList(Grammar, t, x)
           \/ IsDict(Grammar, t, x)
<1>1. Denoted(t) = ValuesOf(Grammar, t)
  BY DenotedAs, Zenon DEF Denoted
<1> QED
  BY <1>1, ValuesIn, Zenon

LEMMA StandsString ==
  ASSUME NEW s \in Seq(Chars)
  PROVE  Stands(BString(s), <<"String", s>>)
<1> DEFINE t == BString(s)
<1>1. t \in Seq(Chars) /\ t # <<>> /\ <<"String", s>> \in StringsOf(t)
  BY StringText, Zenon
<1> HIDE DEF t
<1>2. t \in Texts => <<"String", s>> \in Denoted(t)
  BY <1>1, DenotedIn, Zenon
<1>3. Stands(t, <<"String", s>>)
  BY <1>1, <1>2, Zenon DEF Stands
<1> QED
  BY <1>3, Zenon DEF t

LEMMA StandsInteger ==
  ASSUME NEW n \in 0 .. LongMax
  PROVE  Stands(BInteger(n), <<"Integer", n>>)
<1> DEFINE w == Numeral[n]
           t == <<"i">> \o w \o <<"e">>
<1>1. n \in Nat /\ n \in Long
  BY LongAssumption DEF Long
<1>2. IsNumeralOf(w, n)
  BY <1>1, NumeralRight, Zenon
<1> HIDE DEF w
<1>3. w \in Seq(Chars) /\ w # <<>> /\ (\A j \in 1 .. Len(w) : IsDigit(w[j])) /\ Decimal(w) = n
  BY <1>2, Zenon DEF IsNumeralOf
<1>4. IsNumeral(w)
  <2>1. DOMAIN w = 1 .. Len(w)
    BY <1>3, LenProperties, Zenon
  <2> QED
    BY <1>3, <2>1, Zenon DEF IsNumeral
<1>5. "i" \in Chars
  BY MarksAssumption, Zenon
<1>6. IsFrameOf(t, "i", w)
  BY <1>3, <1>5, FrameText, Zenon
<1> HIDE DEF t
<1>7. n \in Numbers(w)
  BY <1>3, <1>4, Zenon DEF Numbers
<1>8. <<"Integer", n>> \in IntegersOf(t)
  <2>1. Framed(t, "i") /\ Inner(t) = w
    BY <1>6, Zenon DEF IsFrameOf
  <2>2. n \in (IF Framed(t, "i") THEN Numbers(Inner(t)) \cap Long ELSE {})
    BY <1>1, <1>7, <2>1, Zenon
  <2> QED
    BY <2>2, Zenon DEF IntegersOf
<1>9. t \in Texts => <<"Integer", n>> \in Denoted(t)
  BY <1>8, DenotedIn, Zenon
<1>10. Stands(t, <<"Integer", n>>)
  BY <1>6, <1>9, Zenon DEF Stands, IsFrameOf
<1>11. BInteger(n) = t
  BY Zenon DEF BInteger, t, w
<1> QED
  BY <1>10, <1>11, Zenon

\* w is the text of the items vs.
ItemsText(w, vs) ==
  /\ w \in Seq(Chars)
  /\ w \in Texts => vs \in Grammar[<<"items", w>>]

\* w is the text of the pairs ps.
PairsText(w, ps) ==
  /\ w \in Seq(Chars)
  /\ \E S : ps \in Seq(S)
  /\ w \in Texts => ps \in Grammar[<<"pairs", w>>]

LEMMA NoText == ItemsText(<<>>, <<>>) /\ PairsText(<<>>, <<>>)
<1>1. <<>> \in Seq(Chars) /\ Len(<<>>) <= LongMax /\ <<>> \in Seq({})
  BY LongAssumption
<1>2. <<>> \in Texts
  BY <1>1, Zenon DEF Texts
<1>3. <<>> \in Grammar[<<"items", <<>>>>] /\ <<>> \in Grammar[<<"pairs", <<>>>>]
  <2> DEFINE w == <<>>
  <2>1. w \in Texts /\ w = <<>>
    BY <1>2
  <2> HIDE DEF w
  <2>2. <<>> \in ItemsOf(Grammar, w) /\ <<>> \in PairsOf(Grammar, w)
    BY <2>1, ItemsIn, PairsIn, Zenon
  <2>3. <<>> \in Grammar[<<"items", w>>] /\ <<>> \in Grammar[<<"pairs", w>>]
    BY <2>1, <2>2, DenotedAs, Zenon
  <2> QED
    BY <2>1, <2>3, Zenon
<1> QED
  BY <1>1, <1>3, Zenon DEF ItemsText, PairsText

\* A part in front of a text, that is no longer than the whole.
LEMMA FrontFacts ==
  ASSUME NEW t \in Seq(Chars), NEW w \in Seq(Chars), t # <<>>
  PROVE  /\ t \o w \in Seq(Chars)
         /\ t \o w # <<>>
         /\ Len(t) \in 1 .. Len(t \o w)
         /\ Len(t \o w) = Len(t) + Len(w)
         /\ t \o w \in Texts => t \in Texts /\ w \in Texts
<1> DEFINE u == t \o w
<1>1. IsJoined(u, Chars, t, w)
  BY Joined, Zenon
<1>2. u \in Seq(Chars) /\ Len(u) = Len(t) + Len(w)
  BY <1>1, Zenon DEF IsJoined
<1> HIDE DEF u
<1>3. Len(t) \in Nat /\ Len(w) \in Nat /\ Len(t) # 0
  BY LenProperties, EmptySeq
<1>4. Len(t) \in 1 .. Len(u) /\ Len(u) # 0
  BY <1>2, <1>3
<1>5. u # <<>>
  BY <1>4
<1>6. Len(u) <= LongMax => Len(t) <= LongMax /\ Len(w) <= LongMax
  BY <1>2, <1>3, LongAssumption
<1>7. u \in Texts => t \in Texts /\ w \in Texts
  BY <1>2, <1>6, Zenon DEF Texts
<1> QED
  BY <1>2, <1>4, <1>5, <1>7, Zenon DEF u

\* A sequence that is not empty has a first element in front of the others.
IsFirstOf(s, S, x, q) ==
  /\ x \in S
  /\ q \in Seq(S)
  /\ s = <<x>> \o q
  /\ Len(s) = Len(q) + 1
  /\ s[1] = x
  /\ \A k \in 1 .. Len(q) : s[k + 1] = q[k]

LEMMA FirstOf ==
  ASSUME NEW S, NEW s \in Seq(S), s # <<>>
  PROVE  \E x, q : IsFirstOf(s, S, x, q)
<1> DEFINE x == s[1]
           q == Tail(s)
           r == <<x>> \o q
<1>1. q \in Seq(S) /\ Len(q) = Len(s) - 1 /\ \A k \in 1 .. Len(q) : q[k] = s[k + 1]
  BY HeadTailProperties, Zenon
<1>2. Len(s) \in Nat /\ Len(s) # 0
  BY LenProperties, EmptySeq
<1>3. 1 \in 1 .. Len(s)
  BY <1>2
<1>4. x \in S
  BY <1>3, ElementOfSeq, Zenon
<1> HIDE DEF x, q
<1>5. r \in Seq(S \union {x}) /\ Len(r) = Len(q) + 1 /\ r[1] = x /\ \A k \in 1 .. Len(q) : r[k + 1] = q[k]
  BY <1>1, ConsFacts
<1>6. S \union {x} = S
  BY <1>4, Zenon
<1> HIDE DEF r
<1>7. r \in Seq(S) /\ Len(r) = Len(s) /\ Len(s) = Len(q) + 1
  BY <1>1, <1>2, <1>5, <1>6
<1>8. ASSUME NEW k \in 1 .. Len(r) PROVE r[k] = s[k]
  <2>1. CASE k = 1
    BY <1>5, <2>1 DEF x
  <2>2. CASE k # 1
    <3> DEFINE j == k - 1
    <3>1. j \in 1 .. Len(q) /\ k = j + 1
      BY <1>2, <1>7, <2>2
    <3> HIDE DEF j
    <3> QED
      BY <1>1, <1>5, <3>1, Zenon
  <2> QED
    BY <2>1, <2>2, Zenon
<1>9. r = s
  BY <1>7, <1>8, SeqEqual, Zenon
<1>10. IsFirstOf(s, S, x, q)
  BY <1>1, <1>4, <1>5, <1>7, <1>9, Zenon DEF IsFirstOf, r
<1> QED
  BY <1>10, Zenon

LEMMA StandsList ==
  \A V : \A ts \in Seq(Seq(Chars)) : \A vs \in Seq(V) :
    Len(vs) = Len(ts) /\ (\A k \in 1 .. Len(ts) : Stands(ts[k], vs[k])) =>
      Stands(BList(ts), <<"List", vs>>)

\* One item more, in front.
<1>ItemsFront. ASSUME NEW t, NEW v, NEW w, NEW vs, Stands(t, v), ItemsText(w, vs)
               PROVE  ItemsText(t \o w, <<v>> \o vs)
  <2> USE <1>ItemsFront
  <2> DEFINE u == t \o w
             k == Len(t)
  <2>1. t \in Seq(Chars) /\ t # <<>> /\ w \in Seq(Chars)
    BY Zenon DEF Stands, ItemsText
  <2>2. u \in Seq(Chars) /\ u # <<>> /\ k \in 1 .. Len(u) /\ (u \in Texts => t \in Texts /\ w \in Texts)
    BY <2>1, FrontFacts, Zenon
  <2>3. SubSeq(u, 1, k) = t /\ SubSeq(u, k + 1, Len(u)) = w
    BY <2>1, JoinParts
  <2> HIDE DEF u, k
  <2>4. ASSUME u \in Texts PROVE <<v>> \o vs \in Grammar[<<"items", u>>]
    <3>1. v \in Grammar[<<"value", SubSeq(u, 1, k)>>]
      BY <2>2, <2>3, <2>4, Zenon DEF Stands, Denoted
    <3>2. vs \in Grammar[<<"items", SubSeq(u, k + 1, Len(u))>>]
      BY <2>2, <2>3, <2>4, Zenon DEF ItemsText
    <3>3. IsItems(Grammar, u, <<v>> \o vs)
      BY <2>2, <3>1, <3>2, Zenon DEF IsItems
    <3>4. <<v>> \o vs \in ItemsOf(Grammar, u)
      BY <2>2, <3>3, ItemsIn, Zenon
    <3> QED
      BY <2>4, <3>4, DenotedAs, Zenon
  <2>5. ItemsText(u, <<v>> \o vs)
    BY <2>2, <2>4, Zenon DEF ItemsText
  <2> QED
    BY <2>5, Zenon DEF u

\* The texts of items are the text of all of them.
<1>ItemsAll. ASSUME NEW V, NEW ts \in Seq(Seq(Chars)), NEW vs \in Seq(V), Len(vs) = Len(ts),
                    \A k \in 1 .. Len(ts) : Stands(ts[k], vs[k])
             PROVE  ItemsText(Concat(ts), vs)
  <2> USE <1>ItemsAll
  <2> DEFINE StandFor(us, xs, n) ==
               /\ Len(us) = n /\ Len(xs) = n
               /\ \A k \in 1 .. n : Stands(us[k], xs[k])
             S == {n \in Nat : \A us \in Seq(Seq(Chars)) : \A xs \in Seq(V) :
                                 StandFor(us, xs, n) => ItemsText(Concat(us), xs)}
  <2>1. 0 \in S
    <3>1. ASSUME NEW us \in Seq(Seq(Chars)), NEW xs \in Seq(V), StandFor(us, xs, 0)
          PROVE  ItemsText(Concat(us), xs)
      <4>1. us = <<>> /\ xs = <<>>
        BY <3>1, EmptySeq
      <4>2. Concat(us) = <<>>
        BY <4>1, ConcatNone, Zenon
      <4> QED
        BY <4>1, <4>2, NoText, Zenon
    <3>2. 0 \in Nat
      OBVIOUS
    <3> QED
      BY <3>1, <3>2, Zenon
  <2>2. ASSUME NEW n \in Nat, n \in S PROVE n + 1 \in S
    <3>1. ASSUME NEW us \in Seq(Seq(Chars)), NEW xs \in Seq(V), StandFor(us, xs, n + 1)
          PROVE  ItemsText(Concat(us), xs)
      <4>1. us # <<>> /\ xs # <<>>
        BY <3>1, EmptySeq
      <4>2. PICK t, rs : IsFirstOf(us, Seq(Chars), t, rs)
        BY <4>1, FirstOf, Zenon
      <4>3. PICK x, ys : IsFirstOf(xs, V, x, ys)
        BY <4>1, FirstOf, Zenon
      <4>4. /\ t \in Seq(Chars) /\ rs \in Seq(Seq(Chars)) /\ us = <<t>> \o rs /\ us[1] = t
            /\ Len(us) = Len(rs) + 1 /\ \A k \in 1 .. Len(rs) : us[k + 1] = rs[k]
        BY <4>2, Zenon DEF IsFirstOf
      <4>5. /\ x \in V /\ ys \in Seq(V) /\ xs = <<x>> \o ys /\ xs[1] = x
            /\ Len(xs) = Len(ys) + 1 /\ \A k \in 1 .. Len(ys) : xs[k + 1] = ys[k]
        BY <4>3, Zenon DEF IsFirstOf
      <4>6. Len(rs) = n /\ Len(ys) = n
        BY <3>1, <4>4, <4>5, LenProperties
      <4>7. 1 \in 1 .. n + 1 /\ \A k \in 1 .. n : k + 1 \in 1 .. n + 1
        OBVIOUS
      <4>8. Stands(t, x)
        BY <3>1, <4>4, <4>5, <4>7, Zenon
      <4>9. \A k \in 1 .. n : Stands(rs[k], ys[k])
        BY <3>1, <4>4, <4>5, <4>6, <4>7, Zenon
      <4>10. ItemsText(Concat(rs), ys)
        BY <2>2, <4>4, <4>5, <4>6, <4>9, Zenon
      <4>11. ItemsText(t \o Concat(rs), <<x>> \o ys)
        BY <4>8, <4>10, <1>ItemsFront, Zenon
      <4>12. Concat(us) = t \o Concat(rs)
        BY <4>4, ConcatCons, Zenon
      <4> QED
        BY <4>5, <4>11, <4>12, Zenon
    <3>2. n + 1 \in Nat
      OBVIOUS
    <3> HIDE DEF StandFor
    <3> QED
      BY <3>1, <3>2, Zenon
  <2>3. Len(ts) \in Nat
    BY LenProperties, Zenon
  <2> HIDE DEF S
  <2>4. Len(ts) \in S
    BY <2>1, <2>2, <2>3, Stepwise, Zenon
  <2> QED
    BY <2>4, Zenon DEF S

<1> SUFFICES ASSUME NEW V, NEW ts \in Seq(Seq(Chars)), NEW vs \in Seq(V), Len(vs) = Len(ts), \A k \in 1 .. Len(ts) : Stands(ts[k], vs[k])
             PROVE  Stands(BList(ts), <<"List", vs>>)
  BY Zenon
<1> DEFINE w == Concat(ts)
           t == <<"l">> \o w \o <<"e">>
<1>1. ItemsText(w, vs)
  BY <1>ItemsAll, Zenon
<1>2. BList(ts) = t
  BY Zenon DEF BList
<1> HIDE DEF w
<1>3. w \in Seq(Chars) /\ "l" \in Chars
  BY <1>1, MarksAssumption, Zenon DEF ItemsText
<1>4. IsFrameOf(t, "l", w)
  BY <1>3, FrameText, Zenon
<1> HIDE DEF t
<1>5. ASSUME t \in Texts PROVE <<"List", vs>> \in Denoted(t)
  <2>1. IsList(Grammar, t, <<"List", vs>>)
    BY <1>1, <1>4, <1>5, Zenon DEF IsFrameOf, ItemsText, IsList
  <2> QED
    BY <1>5, <2>1, DenotedIn, Zenon
<1> QED
  BY <1>2, <1>4, <1>5, Zenon DEF IsFrameOf, Stands

\* The texts of the entries of a dictionary, and their keys and values.
EntryTexts(ps) == [k \in DOMAIN ps |-> BString(<<ps[k][1]>>) \o ps[k][2]]

EntryPairs(ps, vs) == [k \in DOMAIN ps |-> <<<<ps[k][1]>>, vs[k]>>]

\* Names, and texts that stand for the values vs.
AreEntries(ps, vs) ==
  /\ \E P : ps \in Seq(P)
  /\ \E V : vs \in Seq(V)
  /\ Len(vs) = Len(ps)
  /\ \A k \in 1 .. Len(ps) : ps[k][1] \in Chars /\ Stands(ps[k][2], vs[k])

\* Both are sequences like ps, f of texts.
AreForms(ps, vs, f, g) ==
  /\ Len(ps) \in Nat /\ DOMAIN ps = 1 .. Len(ps)
  /\ f \in Seq(Seq(Chars))
  /\ Len(f) = Len(ps)
  /\ \A k \in 1 .. Len(ps) : f[k] = BString(<<ps[k][1]>>) \o ps[k][2]
  /\ g \in Seq({g[k] : k \in 1 .. Len(ps)})
  /\ Len(g) = Len(ps)
  /\ \A k \in 1 .. Len(ps) : g[k] = <<<<ps[k][1]>>, vs[k]>>

LEMMA EntryTypes ==
  ASSUME NEW ps, NEW vs, AreEntries(ps, vs)
  PROVE  AreForms(ps, vs, EntryTexts(ps), EntryPairs(ps, vs))
<1> DEFINE n == Len(ps)
           f == EntryTexts(ps)
           g == EntryPairs(ps, vs)
<1>1. PICK P : ps \in Seq(P)
  BY Zenon DEF AreEntries
<1>2. n \in Nat /\ DOMAIN ps = 1 .. n
  BY <1>1, LenProperties, Zenon
<1> HIDE DEF n
<1>3. /\ f = [k \in 1 .. n |-> BString(<<ps[k][1]>>) \o ps[k][2]]
      /\ g = [k \in 1 .. n |-> <<<<ps[k][1]>>, vs[k]>>]
  BY <1>2, Zenon DEF EntryTexts, EntryPairs
<1> HIDE DEF f, g
<1>4. ASSUME NEW k \in 1 .. n PROVE BString(<<ps[k][1]>>) \o ps[k][2] \in Seq(Chars)
  <2>1. ps[k][1] \in Chars /\ ps[k][2] \in Seq(Chars)
    BY Zenon DEF AreEntries, Stands, n
  <2>2. <<ps[k][1]>> \in Seq(Chars)
    BY <2>1
  <2>3. BString(<<ps[k][1]>>) \in Seq(Chars)
    BY <2>2, StringText, Zenon
  <2> QED
    BY <2>1, <2>3, ConcatProperties, Zenon
<1>5. f \in [1 .. n -> Seq(Chars)]
  BY <1>3, <1>4, Zenon
<1>6. g \in [1 .. n -> {g[k] : k \in 1 .. n}]
  BY <1>3, Zenon
<1>7. f \in Seq(Seq(Chars)) /\ Len(f) = n
  BY <1>2, <1>5, FunctionIsSeq, Zenon
<1>8. g \in Seq({g[k] : k \in 1 .. n}) /\ Len(g) = n
  BY <1>2, <1>6, FunctionIsSeq, Zenon
<1>9. \A k \in 1 .. n : f[k] = BString(<<ps[k][1]>>) \o ps[k][2] /\ g[k] = <<<<ps[k][1]>>, vs[k]>>
  BY <1>3, Zenon
<1>10. AreForms(ps, vs, f, g)
  BY <1>2, <1>7, <1>8, <1>9, Zenon DEF AreForms, n
<1> QED
  BY <1>10, Zenon DEF f, g

\* An entry in front of the others, qs with the values ws.
IsEntryFront(ps, vs, qs, ws) ==
  /\ AreEntries(qs, ws)
  /\ Len(ps) = Len(qs) + 1
  /\ EntryTexts(ps) = <<BString(<<ps[1][1]>>) \o ps[1][2]>> \o EntryTexts(qs)
  /\ EntryPairs(ps, vs) = <<<<<<ps[1][1]>>, vs[1]>>>> \o EntryPairs(qs, ws)

-----------------------------------------------------------------------------
(* Texts of dictionaries *)

\* The names are in their order.
InOrder(ps) == \A j, k \in 1 .. Len(ps) : j < k => Rank(ps[j][1]) < Rank(ps[k][1])

\* d maps the names to the values, and is written in their order.
IsEntryDict(d, ps, vs) ==
  /\ DOMAIN d = {<<ps[k][1]>> : k \in 1 .. Len(ps)}
  /\ \A k \in 1 .. Len(ps) : d[<<ps[k][1]>>] = vs[k]
  /\ SortedKeys(DOMAIN d) = [k \in 1 .. Len(ps) |-> <<ps[k][1]>>]

LEMMA EntryDict ==
  \A ps : \A vs :
    AreEntries(ps, vs) /\ InOrder(ps) =>
      /\ IsEntryDict(DictOf(EntryPairs(ps, vs)), ps, vs)
      /\ Ascending(KeysOf(EntryPairs(ps, vs)))

\* Names are in the order of their characters.
<1>LessNames. ASSUME NEW x, NEW y
              PROVE  Less(<<x>>, <<y>>) <=> Rank(x) < Rank(y)
  <2> DEFINE s == <<x>>
             t == <<y>>
  <2>1. /\ Len(s) = 1 /\ s[1] = x /\ Len(t) = 1 /\ t[1] = y
        /\ SubSeq(s, 1, 1 - 1) = <<>> /\ SubSeq(t, 1, 1 - 1) = <<>>
    OBVIOUS
  <2> HIDE DEF s, t
  <2>2. ASSUME Less(s, t) PROVE Rank(x) < Rank(y)
    <3>1. PICK k \in 1 .. Len(t) : k = Len(s) + 1 \/ Rank(s[k]) < Rank(t[k])
      BY <2>2, Zenon DEF Less
    <3>2. k = 1 /\ k # Len(s) + 1
      BY <2>1
    <3> QED
      BY <2>1, <3>1, <3>2, Zenon
  <2>3. ASSUME Rank(x) < Rank(y) PROVE Less(s, t)
    <3>1. 1 \in 1 .. Len(t) /\ 1 <= Len(s) + 1
      BY <2>1
    <3>2. SubSeq(s, 1, 1 - 1) = SubSeq(t, 1, 1 - 1) /\ Rank(s[1]) < Rank(t[1])
      BY <2>1, <2>3, Zenon
    <3> QED
      BY <3>1, <3>2, Zenon DEF Less
  <2>4. Less(s, t) <=> Rank(x) < Rank(y)
    BY <2>2, <2>3, Zenon
  <2> QED
    BY <2>4, Zenon DEF s, t

\* Each name is less than those behind it.
<1>OrderFacts. ASSUME NEW ps, NEW vs, AreEntries(ps, vs), InOrder(ps), NEW j \in 1 .. Len(ps), NEW k \in 1 .. Len(ps)
               PROVE  /\ Less(<<ps[j][1]>>, <<ps[k][1]>>) <=> j < k
                      /\ <<ps[j][1]>> = <<ps[k][1]>> => j = k
  <2> USE <1>OrderFacts
  <2> DEFINE x == ps[j][1]
             y == ps[k][1]
             a == Rank(x)
             b == Rank(y)
  <2>1. x \in Chars /\ y \in Chars
    BY Zenon DEF AreEntries
  <2>2. a \in 1 .. Len(Alphabet) /\ b \in 1 .. Len(Alphabet) /\ Len(Alphabet) \in Nat
    BY <2>1, RankFacts, AlphabetFacts, Zenon
  <2>3. (j < k => a < b) /\ (k < j => b < a)
    BY Zenon DEF InOrder
  <2>4. j = k => a = b
    BY Zenon
  <2>5. Less(<<x>>, <<y>>) <=> a < b
    BY <1>LessNames, Zenon
  <2>6. Len(ps) \in Nat
    BY EntryTypes, Zenon DEF AreForms
  <2>7. x = y => a = b
    BY Zenon
  <2>8. <<x>> = <<y>> => x = y
    <3> HIDE DEF x, y
    <3> QED
      OBVIOUS
  <2> HIDE DEF a, b, x, y
  <2>9. (a < b <=> j < k) /\ (a = b => j = k)
    BY <2>2, <2>3, <2>4, <2>6
  <2>10. (Less(<<x>>, <<y>>) <=> j < k) /\ (<<x>> = <<y>> => j = k)
    BY <2>5, <2>7, <2>8, <2>9, Zenon
  <2> QED
    BY <2>10, Zenon DEF x, y

<1> SUFFICES ASSUME NEW ps, NEW vs, AreEntries(ps, vs), InOrder(ps)
             PROVE  /\ IsEntryDict(DictOf(EntryPairs(ps, vs)), ps, vs)
                    /\ Ascending(KeysOf(EntryPairs(ps, vs)))
  BY Zenon
<1> DEFINE n == Len(ps)
           g == EntryPairs(ps, vs)
           Q == {g[k] : k \in 1 .. n}
           key(k) == <<ps[k][1]>>
           f == [k \in 1 .. n |-> key(k)]
           d == DictOf(g)
<1>1. AreForms(ps, vs, EntryTexts(ps), g)
  BY EntryTypes, Zenon
<1> HIDE DEF g
<1>2. /\ n \in Nat /\ g \in Seq(Q) /\ Len(g) = n
      /\ \A k \in 1 .. n : g[k] = <<key(k), vs[k]>>
  BY <1>1, Zenon DEF AreForms
<1>3. \A j, k \in 1 .. n : (Less(key(j), key(k)) <=> j < k) /\ (key(j) = key(k) => j = k)
  BY <1>OrderFacts, Zenon
<1> HIDE DEF Q, n, key
<1>4. DOMAIN g = 1 .. n
  BY <1>2, LenProperties, Zenon
<1>5. ASSUME NEW k \in 1 .. n PROVE g[k][1] = key(k) /\ g[k][2] = vs[k]
  <2>1. <<key(k), vs[k]>>[1] = key(k) /\ <<key(k), vs[k]>>[2] = vs[k]
    OBVIOUS
  <2> QED
    BY <1>2, <2>1, Zenon
<1>6. /\ DOMAIN d = {key(k) : k \in 1 .. n}
      /\ \A k \in 1 .. n : d[key(k)] = vs[k]
  <2> DEFINE First(s) == CHOOSE k \in DOMAIN g : g[k][1] = s /\ \A j \in DOMAIN g : g[j][1] = s => k <= j
             D == {g[k][1] : k \in DOMAIN g}
  <2>1. d = [s \in D |-> g[First(s)][2]]
    BY Zenon DEF DictOf
  <2>2. D = {key(k) : k \in 1 .. n}
    BY <1>4, <1>5, Zenon
  <2>3. ASSUME NEW k \in 1 .. n PROVE First(key(k)) = k
    <3>1. k <= k
      BY <1>2
    <3>2. k \in DOMAIN g /\ g[k][1] = key(k)
      BY <1>4, <1>5, Zenon
    <3>3. ASSUME NEW j \in DOMAIN g, g[j][1] = key(k) PROVE j = k
      <4>1. j \in 1 .. n /\ key(j) = key(k)
        BY <1>4, <1>5, <3>3, Zenon
      <4> QED
        BY <1>3, <4>1, Zenon
    <3>4. \A j \in DOMAIN g : g[j][1] = key(k) => k <= j
      BY <3>1, <3>3, Zenon
    <3> QED
      BY <3>2, <3>3, <3>4, Zenon
  <2>4. ASSUME NEW k \in 1 .. n PROVE d[key(k)] = vs[k]
    <3>1. key(k) \in D
      BY <2>2, Zenon
    <3> HIDE DEF D, First, d
    <3>2. d[key(k)] = g[First(key(k))][2]
      BY <2>1, <3>1, Zenon
    <3> QED
      BY <1>5, <2>3, <3>2, Zenon
  <2>5. DOMAIN d = D
    <3> HIDE DEF D, First, d
    <3> QED
      BY <2>1, Zenon
  <2> HIDE DEF D, First, d
  <2> QED
    BY <2>2, <2>4, <2>5, Zenon
<1> HIDE DEF d
<1>7. SortedKeys(DOMAIN d) = f
  <2>1. \A k \in 1 .. n : f[k] = key(k)
    BY Zenon
  <2>2. f = [k \in 1 .. n |-> f[k]]
    BY Zenon
  <2> HIDE DEF f
  <2>3. DOMAIN d = ValuesFrom(f, 1, n)
    BY <1>6, <2>1, Zenon DEF ValuesFrom
  <2>4. Increasing(f, n)
    BY <1>3, <2>1, Zenon DEF Increasing
  <2>5. SortedKeys(ValuesFrom(f, 1, n)) = f
    BY <1>2, <2>2, <2>4, SortedIs
  <2> QED
    BY <2>3, <2>5, Zenon
<1>8. Ascending(KeysOf(g))
  <2> DEFINE ks == KeysOf(g)
  <2>1. ks = [k \in 1 .. n |-> g[k][1]]
    BY <1>4, Zenon DEF KeysOf
  <2>2. \A k \in 1 .. n : ks[k] = key(k)
    BY <1>5, <2>1, Zenon
  <2>3. Len(ks) = n
    BY <1>2, <2>1
  <2> HIDE DEF ks
  <2>4. ASSUME NEW k \in 1 .. n - 1 PROVE ~Less(ks[k + 1], ks[k])
    <3>1. k \in 1 .. n /\ k + 1 \in 1 .. n /\ ~(k + 1 < k)
      BY <1>2
    <3> QED
      BY <1>3, <2>2, <3>1, Zenon
  <2> QED
    BY <2>3, <2>4, Zenon DEF Ascending, ks
<1>9. IsEntryDict(d, ps, vs)
  BY <1>6, <1>7, Zenon DEF IsEntryDict, n, key
<1> QED
  BY <1>8, <1>9, Zenon DEF d, g

\* A dictionary of names and values.
DictFor(ps, vs) == <<"Dict", DictOf(EntryPairs(ps, vs))>>

LEMMA StandsDict ==
  \A ps : \A vs :
    AreEntries(ps, vs) /\ InOrder(ps) =>
      Stands(BDict(ps), DictFor(ps, vs))

\* One pair more, in front.
<1>PairsFront. ASSUME NEW s \in Seq(Chars), NEW t, NEW v, NEW w, NEW ps, Stands(t, v), PairsText(w, ps)
               PROVE  PairsText(BString(s) \o (t \o w), <<<<s, v>>>> \o ps)
  <2> USE <1>PairsFront
  <2> DEFINE a == BString(s)
             b == t \o w
             u == a \o b
             j == Len(a)
             k == Len(a) + Len(t)
  <2>1. /\ a \in Seq(Chars) /\ a # <<>> /\ <<"String", s>> \in StringsOf(a)
        /\ t \in Seq(Chars) /\ t # <<>> /\ w \in Seq(Chars)
    BY StringText, Zenon DEF Stands, PairsText
  <2> HIDE DEF a
  <2>2. /\ b \in Seq(Chars) /\ Len(b) = Len(t) + Len(w) /\ Len(t) \in 1 .. Len(b)
        /\ (b \in Texts => t \in Texts /\ w \in Texts)
    BY <2>1, FrontFacts, Zenon
  <2>3. SubSeq(b, 1, Len(t)) = t /\ SubSeq(b, Len(t) + 1, Len(b)) = w
    BY <2>1, JoinParts
  <2> HIDE DEF b
  <2>4. /\ u \in Seq(Chars) /\ u # <<>> /\ Len(u) = j + Len(b) /\ j \in 1 .. Len(u)
        /\ (u \in Texts => a \in Texts /\ b \in Texts)
    BY <2>1, <2>2, FrontFacts, Zenon
  <2>5. SubSeq(u, 1, j) = a /\ SubSeq(u, j + 1, Len(u)) = b
    BY <2>1, <2>2, JoinParts, Zenon
  <2>6. Len(t) \in Nat /\ Len(w) \in Nat /\ j \in Nat
    BY <2>1, LenProperties, Zenon
  <2> HIDE DEF u, j
  <2>7. k = j + Len(t)
    BY Zenon DEF j
  <2> HIDE DEF k
  <2>8. SubSeq(u, j + 1, k) = t /\ SubSeq(u, k + 1, Len(u)) = w
    <3>1. \A p \in 1 .. Len(b) + 1 : \A q \in p - 1 .. Len(b) : SubSeq(b, p, q) = SubSeq(u, j + p, j + q)
      <4> SUFFICES ASSUME NEW p \in 1 .. Len(b) + 1, NEW q \in p - 1 .. Len(b)
                   PROVE  SubSeq(b, p, q) = SubSeq(u, j + p, j + q)
        BY Zenon
      <4> DEFINE x == j + 1
                 z == Len(u)
      <4>1. /\ x \in 1 .. Len(u) + 1 /\ z \in x - 1 .. Len(u)
            /\ p \in 1 .. z - x + 2 /\ q \in p - 1 .. z - x + 1
            /\ x + p - 1 = j + p /\ x + q - 1 = j + q
        BY <2>2, <2>4, <2>6
      <4> HIDE DEF x, z
      <4>2. SubSeq(SubSeq(u, x, z), p, q) = SubSeq(u, x + p - 1, x + q - 1)
        BY <2>4, <4>1, PartOfPart
      <4>3. SubSeq(u, x, z) = b
        BY <2>5, Zenon DEF x, z
      <4> QED
        BY <4>1, <4>2, <4>3, Zenon
    <3>2. /\ 1 \in 1 .. Len(b) + 1 /\ Len(t) \in 1 - 1 .. Len(b)
          /\ Len(t) + 1 \in 1 .. Len(b) + 1 /\ Len(b) \in (Len(t) + 1) - 1 .. Len(b)
          /\ j + (Len(t) + 1) = k + 1 /\ j + Len(b) = Len(u)
      BY <2>2, <2>4, <2>6, <2>7
    <3>3. SubSeq(b, 1, Len(t)) = SubSeq(u, j + 1, j + Len(t))
      BY <3>1, <3>2, Zenon
    <3>4. SubSeq(b, Len(t) + 1, Len(b)) = SubSeq(u, j + (Len(t) + 1), j + Len(b))
      BY <3>1, <3>2, Zenon
    <3> QED
      BY <2>3, <2>7, <3>2, <3>3, <3>4, Zenon
  <2>9. k \in j + 1 .. Len(u)
    BY <2>2, <2>4, <2>6, <2>7
  <2> DEFINE x == <<<<s, v>>>> \o ps
  <2>10. ASSUME u \in Texts PROVE x \in Grammar[<<"pairs", u>>]
    <3> DEFINE y == <<"String", s>>
    <3>1. y \in StringsOf(SubSeq(u, 1, j)) /\ y[2] = s
      BY <2>1, <2>5, Zenon
    <3>2. v \in Grammar[<<"value", SubSeq(u, j + 1, k)>>]
      BY <2>2, <2>4, <2>8, <2>10, Zenon DEF Stands, Denoted
    <3>3. ps \in Grammar[<<"pairs", SubSeq(u, k + 1, Len(u))>>]
      BY <2>2, <2>4, <2>8, <2>10, Zenon DEF PairsText
    <3> HIDE DEF y
    <3>4. x = <<<<y[2], v>>>> \o ps
      BY <3>1, Zenon
    <3> HIDE DEF x
    <3>5. IsPairs(Grammar, u, x)
      BY <2>4, <2>9, <3>1, <3>2, <3>3, <3>4, Zenon DEF IsPairs
    <3>6. x \in PairsOf(Grammar, u)
      BY <2>4, <3>5, PairsIn, Zenon
    <3> QED
      BY <2>10, <3>6, DenotedAs, Zenon
  <2>11. \E S : x \in Seq(S)
    <3>1. PICK S : ps \in Seq(S)
      BY Zenon DEF PairsText
    <3>2. x \in Seq(S \union {<<s, v>>})
      BY <3>1, ConsFacts
    <3> QED
      BY <3>2, Zenon
  <2> HIDE DEF x
  <2>12. PairsText(u, x)
    BY <2>4, <2>10, <2>11, Zenon DEF PairsText
  <2> QED
    BY <2>12, Zenon DEF u, a, b, x

\* A sequence that goes on with another one.
<1>GoesOn. ASSUME NEW C, NEW f \in Seq(C), NEW g \in Seq(C), Len(f) = Len(g) + 1,
                  \A k \in 1 .. Len(g) : f[k + 1] = g[k]
           PROVE  f = <<f[1]>> \o g
  <2> USE <1>GoesOn
  <2> DEFINE x == f[1]
             h == <<x>> \o g
  <2>1. Len(g) \in Nat
    BY LenProperties, Zenon
  <2>2. 1 \in 1 .. Len(f)
    BY <2>1
  <2>3. x \in C
    BY <2>2, ElementOfSeq, Zenon
  <2> HIDE DEF x
  <2>4. h \in Seq(C \union {x}) /\ Len(h) = Len(g) + 1 /\ h[1] = x /\ \A k \in 1 .. Len(g) : h[k + 1] = g[k]
    BY ConsFacts
  <2>5. C \union {x} = C
    BY <2>3, Zenon
  <2> HIDE DEF h
  <2>6. h \in Seq(C)
    BY <2>4, <2>5, Zenon
  <2>7. ASSUME NEW k \in 1 .. Len(f) PROVE f[k] = h[k]
    <3>1. CASE k = 1
      BY <2>4, <3>1, Zenon DEF x
    <3>2. CASE k # 1
      <4> DEFINE j == k - 1
      <4>1. j \in 1 .. Len(g) /\ k = j + 1
        BY <2>1, <3>2
      <4> HIDE DEF j
      <4> QED
        BY <2>4, <4>1, Zenon
    <3> QED
      BY <3>1, <3>2, Zenon
  <2>8. f = h
    BY <2>4, <2>6, <2>7, SeqEqual, Zenon
  <2> QED
    BY <2>8, Zenon DEF h, x

<1>EntriesFront. ASSUME NEW ps, NEW vs, AreEntries(ps, vs), ps # <<>>
                 PROVE  \E qs, ws : IsEntryFront(ps, vs, qs, ws)
  <2> USE <1>EntriesFront
  <2>1. PICK P, V : ps \in Seq(P) /\ vs \in Seq(V)
    BY Zenon DEF AreEntries
  <2>2. Len(vs) = Len(ps) /\ Len(ps) \in Nat /\ Len(ps) # 0
    BY <2>1, LenProperties, EmptySeq DEF AreEntries
  <2>3. vs # <<>>
    BY <2>2
  <2>4. PICK p, qs : IsFirstOf(ps, P, p, qs)
    BY <2>1, FirstOf, Zenon
  <2>5. PICK v, ws : IsFirstOf(vs, V, v, ws)
    BY <2>1, <2>3, FirstOf, Zenon
  <2>6. qs \in Seq(P) /\ Len(ps) = Len(qs) + 1 /\ \A k \in 1 .. Len(qs) : ps[k + 1] = qs[k]
    BY <2>4, Zenon DEF IsFirstOf
  <2>7. ws \in Seq(V) /\ Len(vs) = Len(ws) + 1 /\ \A k \in 1 .. Len(ws) : vs[k + 1] = ws[k]
    BY <2>5, Zenon DEF IsFirstOf
  <2>8. Len(ws) = Len(qs) /\ Len(qs) \in Nat
    BY <2>2, <2>6, <2>7, LenProperties
  <2>9. /\ \A k \in 1 .. Len(qs) : k \in 1 .. Len(ps) /\ k + 1 \in 1 .. Len(ps)
        /\ 1 \in 1 .. Len(ps)
    BY <2>6, <2>8
  <2>10. AreEntries(qs, ws)
    <3>1. ASSUME NEW k \in 1 .. Len(qs) PROVE qs[k][1] \in Chars /\ Stands(qs[k][2], ws[k])
      <4>1. ps[k + 1][1] \in Chars /\ Stands(ps[k + 1][2], vs[k + 1])
        BY <2>9, Zenon DEF AreEntries
      <4>2. ps[k + 1] = qs[k] /\ vs[k + 1] = ws[k]
        BY <2>6, <2>7, <2>8, Zenon
      <4> QED
        BY <4>1, <4>2, Zenon
    <3> QED
      BY <2>6, <2>7, <2>8, <3>1, Zenon DEF AreEntries
  <2> DEFINE n == Len(qs)
             f == EntryTexts(ps)
             g == EntryTexts(qs)
             x == EntryPairs(ps, vs)
             y == EntryPairs(qs, ws)
             X == {x[k] : k \in 1 .. Len(ps)}
  <2>11. AreForms(ps, vs, f, x) /\ AreForms(qs, ws, g, y)
    BY <2>10, EntryTypes, Zenon
  <2> HIDE DEF f, g, x, y
  <2>12. /\ f \in Seq(Seq(Chars)) /\ g \in Seq(Seq(Chars)) /\ Len(f) = Len(ps) /\ Len(g) = Len(qs)
         /\ x \in Seq(X) /\ y \in Seq({y[k] : k \in 1 .. Len(qs)}) /\ Len(x) = Len(ps) /\ Len(y) = Len(qs)
    BY <2>11, Zenon DEF AreForms
  <2>13. \A k \in 1 .. Len(qs) : f[k + 1] = g[k] /\ x[k + 1] = y[k]
    <3> TAKE k \in 1 .. Len(qs)
    <3>1. ps[k + 1] = qs[k] /\ vs[k + 1] = ws[k]
      BY <2>6, <2>7, <2>8, Zenon
    <3>2. f[k + 1] = BString(<<ps[k + 1][1]>>) \o ps[k + 1][2] /\ x[k + 1] = <<<<ps[k + 1][1]>>, vs[k + 1]>>
      BY <2>9, <2>11, Zenon DEF AreForms
    <3>3. g[k] = BString(<<qs[k][1]>>) \o qs[k][2] /\ y[k] = <<<<qs[k][1]>>, ws[k]>>
      BY <2>11, Zenon DEF AreForms
    <3> QED
      BY <3>1, <3>2, <3>3, Zenon
  <2>14. f = <<f[1]>> \o g
    <3>1. Len(f) = Len(g) + 1 /\ \A k \in 1 .. Len(g) : f[k + 1] = g[k]
      BY <2>6, <2>12, <2>13, Zenon
    <3> QED
      BY <2>12, <3>1, <1>GoesOn, Zenon
  <2>15. x = <<x[1]>> \o y
    <3>1. {y[k] : k \in 1 .. Len(qs)} \subseteq X
      <4> SUFFICES ASSUME NEW k \in 1 .. Len(qs) PROVE y[k] \in X
        BY Zenon
      <4> QED
        BY <2>9, <2>13, Zenon
    <3>2. y \in Seq(X)
      BY <2>12, <3>1, SeqMonotonic, Zenon
    <3>3. Len(x) = Len(y) + 1 /\ \A k \in 1 .. Len(y) : x[k + 1] = y[k]
      BY <2>6, <2>12, <2>13, Zenon
    <3> HIDE DEF X
    <3> QED
      BY <2>12, <3>2, <3>3, <1>GoesOn, Zenon
  <2>16. f[1] = BString(<<ps[1][1]>>) \o ps[1][2] /\ x[1] = <<<<ps[1][1]>>, vs[1]>>
    BY <2>9, <2>11, Zenon DEF AreForms
  <2>17. /\ f = <<BString(<<ps[1][1]>>) \o ps[1][2]>> \o g
         /\ x = <<<<<<ps[1][1]>>, vs[1]>>>> \o y
    BY <2>14, <2>15, <2>16, Zenon
  <2>18. IsEntryFront(ps, vs, qs, ws)
    BY <2>6, <2>10, <2>17, Zenon DEF f, g, x, y, IsEntryFront
  <2> QED
    BY <2>18, Zenon

<1>EntriesText. ASSUME NEW ps, NEW vs, AreEntries(ps, vs)
                PROVE  PairsText(Concat(EntryTexts(ps)), EntryPairs(ps, vs))
  <2> USE <1>EntriesText
  <2> DEFINE Right(qs, ws) == PairsText(Concat(EntryTexts(qs)), EntryPairs(qs, ws))
             S == {n \in Nat : \A qs, ws : AreEntries(qs, ws) /\ Len(qs) = n => Right(qs, ws)}
  <2>1. 0 \in S
    <3>1. ASSUME NEW qs, NEW ws, AreEntries(qs, ws), Len(qs) = 0 PROVE Right(qs, ws)
      <4> DEFINE f == EntryTexts(qs)
                 g == EntryPairs(qs, ws)
                 Q == {g[k] : k \in 1 .. Len(qs)}
      <4>1. AreForms(qs, ws, f, g)
        BY <3>1, EntryTypes, Zenon
      <4>2. f \in Seq(Seq(Chars)) /\ Len(f) = 0 /\ g \in Seq(Q) /\ Len(g) = 0
        BY <3>1, <4>1, Zenon DEF AreForms
      <4> HIDE DEF f, g, Q
      <4>3. f = <<>> /\ g = <<>>
        BY <4>2, EmptySeq
      <4> QED
        BY <4>3, ConcatNone, NoText, Zenon DEF f, g
    <3>2. 0 \in Nat
      OBVIOUS
    <3> HIDE DEF Right
    <3> QED
      BY <3>1, <3>2, Zenon
  <2>2. ASSUME NEW n \in Nat, n \in S PROVE n + 1 \in S
    <3>1. ASSUME NEW qs, NEW ws, AreEntries(qs, ws), Len(qs) = n + 1 PROVE Right(qs, ws)
      <4>1. qs # <<>>
        BY <3>1
      <4>0. PICK rs, xs : IsEntryFront(qs, ws, rs, xs)
        BY <3>1, <4>1, <1>EntriesFront, Zenon
      <4>2. /\ AreEntries(rs, xs) /\ Len(qs) = Len(rs) + 1
            /\ EntryTexts(qs) = <<BString(<<qs[1][1]>>) \o qs[1][2]>> \o EntryTexts(rs)
            /\ EntryPairs(qs, ws) = <<<<<<qs[1][1]>>, ws[1]>>>> \o EntryPairs(rs, xs)
        BY <4>0, Zenon DEF IsEntryFront
      <4>3. Len(rs) \in Nat /\ EntryTexts(rs) \in Seq(Seq(Chars))
        BY <4>2, EntryTypes, Zenon DEF AreForms
      <4>4. Len(rs) = n /\ 1 \in 1 .. Len(qs)
        BY <3>1, <4>2, <4>3
      <4>5. PairsText(Concat(EntryTexts(rs)), EntryPairs(rs, xs))
        BY <2>2, <4>2, <4>4, Zenon
      <4> DEFINE s == <<qs[1][1]>>
                 t == qs[1][2]
                 w == Concat(EntryTexts(rs))
      <4>6. qs[1][1] \in Chars /\ Stands(t, ws[1])
        BY <3>1, <4>4, Zenon DEF AreEntries
      <4>7. s \in Seq(Chars)
        BY <4>6
      <4> HIDE DEF s
      <4>8. PairsText(BString(s) \o (t \o w), <<<<s, ws[1]>>>> \o EntryPairs(rs, xs))
        BY <4>5, <4>6, <4>7, <1>PairsFront, Zenon
      <4>9. BString(s) \in Seq(Chars) /\ t \in Seq(Chars) /\ w \in Seq(Chars)
        BY <4>3, <4>6, <4>7, StringText, ConcatType, Zenon DEF Stands
      <4>10. (BString(s) \o t) \o w = BString(s) \o (t \o w) /\ BString(s) \o t \in Seq(Chars)
        <5>1. ASSUME NEW a \in Seq(Chars), NEW b \in Seq(Chars), NEW c \in Seq(Chars)
              PROVE  (a \o b) \o c = a \o (b \o c) /\ a \o b \in Seq(Chars)
          OBVIOUS
        <5> HIDE DEF t, w
        <5> QED
          BY <4>9, <5>1, Zenon
      <4>11. EntryTexts(qs) = <<BString(s) \o t>> \o EntryTexts(rs)
        BY <4>2, Zenon DEF s
      <4>12. Concat(EntryTexts(qs)) = (BString(s) \o t) \o w
        BY <4>3, <4>10, <4>11, ConcatCons, Zenon
      <4> QED
        BY <4>2, <4>8, <4>10, <4>12, Zenon DEF s
    <3>2. n + 1 \in Nat
      OBVIOUS
    <3> HIDE DEF Right
    <3> QED
      BY <3>1, <3>2, Zenon
  <2>3. Len(ps) \in Nat
    BY EntryTypes, Zenon DEF AreForms
  <2> HIDE DEF S
  <2>4. Len(ps) \in S
    BY <2>1, <2>2, <2>3, Stepwise, Zenon
  <2> QED
    BY <2>4, Zenon DEF S

<1> SUFFICES ASSUME NEW ps, NEW vs, AreEntries(ps, vs), InOrder(ps)
             PROVE  Stands(BDict(ps), DictFor(ps, vs))
  BY Zenon
<1> DEFINE w == Concat(EntryTexts(ps))
           g == EntryPairs(ps, vs)
           t == <<"d">> \o w \o <<"e">>
           v == <<"Dict", DictOf(g)>>
<1>1. PairsText(w, g) /\ Ascending(KeysOf(g))
  BY <1>EntriesText, EntryDict, Zenon
<1>2. BDict(ps) = t /\ DictFor(ps, vs) = v
  BY Zenon DEF BDict, EntryTexts, DictFor
<1> HIDE DEF w, g
<1>3. w \in Seq(Chars) /\ "d" \in Chars
  BY <1>1, MarksAssumption, Zenon DEF PairsText
<1>4. IsFrameOf(t, "d", w)
  BY <1>3, FrameText, Zenon
<1> HIDE DEF t
<1>5. ASSUME t \in Texts PROVE v \in Denoted(t)
  <2>1. IsDict(Grammar, t, v)
    BY <1>1, <1>4, <1>5, Zenon DEF IsFrameOf, PairsText, IsDict
  <2> HIDE DEF v
  <2> QED
    BY <1>5, <2>1, DenotedIn, Zenon
<1> QED
  BY <1>2, <1>4, <1>5, Zenon DEF IsFrameOf, Stands

=============================================================================
