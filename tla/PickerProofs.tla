---------------------------- MODULE PickerProofs ----------------------------
(***************************************************************************)
(* Proofs about Picker and its text field, for any alphabet of characters  *)
(* of these widths, any names and texts of any length.                     *)
(***************************************************************************)
EXTENDS Picker, FiniteSetTheorems, WellFoundedInduction, TLAPS

(***************************************************************************)
(* Numbers.                                                                *)
(***************************************************************************)
\* A set of numbers has a least one.
LEMMA LeastNumber ==
    ASSUME NEW T, T \subseteq Nat, T # {}
    PROVE  Min(T) \in T /\ \A n \in T : Min(T) <= n
<1> DEFINE R == OpToRel(<, Nat)
<1>1. PICK m \in T : \A n \in T : ~(<<n, m>> \in R)
  BY NatLessThanWellFounded, WFMin
<1>2. \A n \in T : n < m => <<n, m>> \in R
  BY DEF OpToRel
<1> HIDE DEF R
<1>3. m \in Nat /\ \A n \in T : n \in Nat /\ (n >= m \/ n < m)
  OBVIOUS
<1>4. \A n \in T : m <= n
  BY <1>1, <1>2, <1>3
<1> QED BY <1>4 DEF Min

\* One that is bounded has a greatest one.
LEMMA GreatestNumber ==
    ASSUME NEW T, T \subseteq Nat, T # {}, NEW b \in Nat, \A n \in T : n <= b
    PROVE  Max(T) \in T /\ \A n \in T : n <= Max(T)
<1> DEFINE U == {b - n : n \in T}
<1>0. \A n \in T : n \in Nat /\ b - n \in Nat
  OBVIOUS
<1>1. U \subseteq Nat /\ U # {}
  BY <1>0
<1>2. Min(U) \in U /\ \A n \in U : Min(U) <= n
  BY <1>1, LeastNumber
<1>3. PICK m \in T : Min(U) = b - m
  BY <1>2
<1>4. \A n \in T : b - m <= b - n
  BY <1>2, <1>3
<1>5. \A n \in T : m >= n /\ n <= m
  BY <1>0, <1>4
<1> QED BY <1>5 DEF Max

(***************************************************************************)
(* Texts and their measures.                                               *)
(***************************************************************************)
\* A text is a sequence of characters, of at most MaxLen.
LEMMA TextType ==
    \A s : s \in Text <=> s \in Seq(Alphabet) /\ Len(s) <= MaxLen
<1>1. ASSUME NEW s \in Text
      PROVE  s \in Seq(Alphabet) /\ Len(s) <= MaxLen
  <2>1. PICK n \in 0..MaxLen : s \in [1..n -> Alphabet]
    BY InputAssumption DEF Text, BoundedSeq, SeqOf
  <2> QED BY <2>1, InputAssumption
<1>2. ASSUME NEW s \in Seq(Alphabet), Len(s) <= MaxLen
      PROVE  s \in Text
  <2>1. Len(s) \in 0..MaxLen /\ s \in [1..Len(s) -> Alphabet]
    BY <1>2, InputAssumption
  <2> QED BY <2>1 DEF Text, BoundedSeq, SeqOf
<1> QED BY <1>1, <1>2

\* A measure is a number, and grows with the characters.
LEMMA MeasureType ==
    ASSUME NEW w, NEW s, NEW k \in Nat
    PROVE  IsFiniteSet(UnitsOf(w, s, k)) /\ Measure(w, s, k) \in Nat
<1>1. 1 \in Int /\ 4 \in Int /\ k \in Int
  OBVIOUS
<1>2. IsFiniteSet(1..k) /\ IsFiniteSet(1..4)
  BY <1>1, FS_Interval
<1>3. IsFiniteSet((1..k) \X (1..4))
  BY <1>2, FS_Product
<1>4. UnitsOf(w, s, k) \in SUBSET ((1..k) \X (1..4))
  BY DEF UnitsOf
<1>5. IsFiniteSet(UnitsOf(w, s, k))
  BY <1>3, <1>4, FS_Subset
<1> QED BY <1>5, FS_CardinalityType DEF Measure

\* More characters measure no less.
LEMMA MeasureGrows ==
    ASSUME NEW w, NEW s, NEW j \in Nat, NEW k \in Nat, j <= k
    PROVE  Measure(w, s, j) <= Measure(w, s, k)
<1>1. UnitsOf(w, s, j) \in SUBSET UnitsOf(w, s, k)
  BY DEF UnitsOf
<1> QED BY <1>1, MeasureType, FS_Subset DEF Measure

\* No character measures nothing.
LEMMA MeasureZero ==
    ASSUME NEW w, NEW s
    PROVE  Measure(w, s, 0) = 0
<1>1. UnitsOf(w, s, 0) = {}
  BY DEF UnitsOf
<1> QED BY <1>1, FS_EmptySet DEF Measure

\* Equal characters measure the same.
LEMMA MeasurePrefix ==
    ASSUME NEW w, NEW s, NEW t, NEW k \in Nat, \A i \in 1..k : s[i] = t[i]
    PROVE  Measure(w, s, k) = Measure(w, t, k)
<1>1. UnitsOf(w, s, k) = UnitsOf(w, t, k)
  BY DEF UnitsOf
<1> QED BY <1>1 DEF Measure

\* What follows k characters adds its own measure.
LEMMA MeasureAdds ==
    ASSUME NEW w, NEW s, NEW t, NEW k \in Nat, NEW n \in Nat, \A i \in 1..n : s[k + i] = t[i]
    PROVE  Measure(w, s, k + n) = Measure(w, s, k) + Measure(w, t, n)
<1> DEFINE A == UnitsOf(w, s, k)
           B == UnitsOf(w, t, n)
           C == {u \in ((k + 1)..(k + n)) \X (1..4) : u[2] <= w[s[u[1]]]}
           f == [u \in B |-> <<k + u[1], u[2]>>]
<1>1. UnitsOf(w, s, k + n) = A \cup C
  <2>1. ASSUME NEW u \in (1..(k + n)) \X (1..4), u[2] <= w[s[u[1]]]
        PROVE  u \in A \cup C
    <3>1. CASE u[1] <= k
      <4>1. u \in (1..k) \X (1..4) BY <3>1
      <4> QED BY <2>1, <4>1 DEF UnitsOf
    <3>2. CASE u[1] > k
      <4>1. u \in ((k + 1)..(k + n)) \X (1..4) BY <3>2
      <4> QED BY <2>1, <4>1
    <3> QED BY <3>1, <3>2
  <2>2. ASSUME NEW u \in A \cup C
        PROVE  u \in (1..(k + n)) \X (1..4) /\ u[2] <= w[s[u[1]]]
    <3>1. CASE u \in A
      BY <3>1 DEF UnitsOf
    <3>2. CASE u \in C
      BY <3>2
    <3> QED BY <3>1, <3>2
  <2> QED BY <2>1, <2>2 DEF UnitsOf
<1>2. A \cap C = {}
  <2>1. \A u \in A : u[1] <= k
    BY DEF UnitsOf
  <2>2. \A u \in C : ~(u[1] <= k)
    OBVIOUS
  <2> QED BY <2>1, <2>2
<1>3. f \in Bijection(B, C)
  <2>1. \A u \in B : u[1] \in 1..n /\ u[2] \in 1..4 /\ u = <<u[1], u[2]>> /\ u[2] <= w[t[u[1]]]
    BY DEF UnitsOf
  <2>2. \A u \in B : f[u] = <<k + u[1], u[2]>> /\ f[u][1] = k + u[1] /\ f[u][2] = u[2]
    OBVIOUS
  <2>3. ASSUME NEW u \in B
        PROVE  f[u] \in C
    <3>1. <<k + u[1], u[2]>> \in ((k + 1)..(k + n)) \X (1..4)
      BY <2>1
    <3>2. s[k + u[1]] = t[u[1]]
      BY <2>1
    <3> QED BY <2>1, <2>2, <3>1, <3>2
  <2>4. ASSUME NEW u \in B, NEW v \in B, f[u] = f[v]
        PROVE  u = v
    <3>1. k + u[1] = k + v[1] /\ u[2] = v[2]
      BY <2>2, <2>4
    <3>2. u[1] = v[1]
      BY <2>1, <3>1
    <3> QED BY <2>1, <3>1, <3>2
  <2>5. ASSUME NEW c \in C
        PROVE  \E u \in B : f[u] = c
    <3> DEFINE u == <<c[1] - k, c[2]>>
    <3>1. c[1] \in (k + 1)..(k + n) /\ c[2] \in 1..4 /\ c = <<c[1], c[2]>> /\ c[2] <= w[s[c[1]]]
      OBVIOUS
    <3>2. c[1] - k \in 1..n /\ k + (c[1] - k) = c[1]
      BY <3>1
    <3>3. t[c[1] - k] = s[c[1]]
      BY <3>2
    <3>4. u \in B
      BY <3>1, <3>2, <3>3 DEF UnitsOf
    <3> QED BY <3>1, <3>2, <3>4, <2>2
  <2>6. f \in [B -> C]
    BY <2>3
  <2> HIDE DEF f
  <2> QED BY <2>4, <2>5, <2>6 DEF Bijection, Injection, Surjection, IsInjective
<1> HIDE DEF A, B, C, f
<1>4. IsFiniteSet(A) /\ IsFiniteSet(B) /\ Cardinality(A) \in Nat /\ Cardinality(B) \in Nat
  BY MeasureType, FS_CardinalityType DEF A, B
<1>5. IsFiniteSet(C) /\ Cardinality(C) = Cardinality(B)
  BY <1>3, <1>4, FS_Bijection DEF ExistsBijection
<1>6. Cardinality(A \cup C) = Cardinality(A) + Cardinality(C) - Cardinality({})
  BY <1>2, <1>4, <1>5, FS_Union
<1>7. Measure(w, s, k + n) = Cardinality(A) + Cardinality(B)
  BY <1>1, <1>4, <1>5, <1>6, FS_EmptySet DEF Measure
<1> QED BY <1>7 DEF Measure, A, B

\* A text that is not empty has a size.
LEMMA SizePositive ==
    ASSUME NEW s \in Seq(Alphabet), s # <<>>
    PROVE  Size(s) \in Nat /\ Size(s) > 0
<1>1. s[1] \in DOMAIN Width /\ Len(s) \in Nat /\ Len(s) >= 1
  BY InputAssumption
<1>2. 1 <= Width[s[1]]
  BY <1>1 DEF Width
<1>3. <<1, 1>> \in UnitsOf(Width, s, Len(s))
  BY <1>1, <1>2 DEF UnitsOf
<1> QED BY <1>1, <1>3, MeasureType, FS_EmptySet DEF Size, Off, Measure

(***************************************************************************)
(* The bytes where the characters of a text begin and end.                 *)
(***************************************************************************)
\* They are numbers, from 0 to the size of the text.
LEMMA OffsetsType ==
    ASSUME NEW s \in Text
    PROVE  /\ Offsets(s) = {Off(s, k) : k \in 0..Len(s)}
           /\ Len(s) \in Nat
           /\ \A k \in 0..Len(s) : Off(s, k) \in Nat
           /\ \A j, k \in 0..Len(s) : j <= k => Off(s, j) <= Off(s, k)
           /\ 0 \in Offsets(s) /\ Size(s) \in Offsets(s)
           /\ \A o \in Offsets(s) : o \in Nat /\ o <= Size(s)
<1>1. Offsets(s) = {Off(s, k) : k \in 0..Len(s)}
  BY DEF Offsets, OffsetsOf, Off
<1>2. Len(s) \in Nat
  BY TextType
<1>3. \A k \in 0..Len(s) : Off(s, k) \in Nat
  BY <1>2, MeasureType DEF Off
<1>4. \A j, k \in 0..Len(s) : j <= k => Off(s, j) <= Off(s, k)
  BY <1>2, MeasureGrows DEF Off
<1>5. 0 \in Offsets(s)
  BY <1>1, <1>2, MeasureZero DEF Off
<1>6. Size(s) \in Offsets(s)
  BY <1>1, <1>2 DEF Size
<1>7. \A o \in Offsets(s) : o \in Nat /\ o <= Size(s)
  BY <1>1, <1>2, <1>3, <1>4 DEF Size
<1> QED BY <1>1, <1>2, <1>3, <1>4, <1>5, <1>6, <1>7

\* At finds the character.
LEMMA AtFinds ==
    ASSUME NEW s \in Text, NEW o \in Offsets(s)
    PROVE  At(s, o) \in 0..Len(s) /\ Off(s, At(s, o)) = o
<1>1. \E k \in 0..Len(s) : Off(s, k) = o
  BY OffsetsType
<1> QED BY <1>1 DEF At

\* A text put between two characters: where it begins and where it ends,
\* characters do in the new text.
LEMMA SplicedType ==
    ASSUME content \in Text, NEW r, r.start \in Offsets(content), r.end \in Offsets(content),
           NEW text \in Seq(Alphabet), Len(Spliced(r, text)) <= MaxLen
    PROVE  /\ Spliced(r, text) \in Text
           /\ r.start \in Offsets(Spliced(r, text))
           /\ Size(text) \in Nat /\ r.start + Size(text) \in Offsets(Spliced(r, text))
<1> DEFINE j == At(content, r.start)
           k == At(content, r.end)
           l == SubSeq(content, 1, j)
           m == SubSeq(content, k + 1, Len(content))
           new == Spliced(r, text)
<1>1. /\ j \in 0..Len(content) /\ Off(content, j) = r.start
      /\ k \in 0..Len(content)
      /\ content \in Seq(Alphabet) /\ Len(content) \in Nat
  BY AtFinds, TextType
<1>2. l \in Seq(Alphabet) /\ Len(l) = j /\ \A i \in 1..j : l[i] = content[i]
  BY <1>1
<1>3. m \in Seq(Alphabet)
  BY <1>1
<1>4. new = (l \o text) \o m
  BY DEF Spliced
<1> HIDE DEF j, k, l, m, new
<1>5. /\ new \in Seq(Alphabet) /\ Len(new) = j + Len(text) + Len(m)
      /\ \A i \in 1..j : new[i] = l[i]
      /\ \A i \in 1..Len(text) : new[j + i] = text[i]
  <2> DEFINE q == l \o text
  <2>1. /\ q \in Seq(Alphabet) /\ Len(q) = j + Len(text)
        /\ Len(l) \in Nat /\ Len(text) \in Nat /\ Len(m) \in Nat /\ Len(q) \in Nat
    BY <1>2, <1>3
  <2>2. \A i \in 1..j : q[i] = l[i]
    BY <1>2
  <2>3. ASSUME NEW i \in 1..Len(text) PROVE q[j + i] = text[i]
    BY <1>2, <2>1
  <2> HIDE DEF q
  <2>4. new \in Seq(Alphabet) /\ Len(new) = Len(q) + Len(m) /\ \A i \in 1..Len(q) : new[i] = q[i]
    BY <1>3, <1>4, <2>1 DEF q
  <2>5. (\A i \in 1..j : i \in 1..Len(q)) /\ \A i \in 1..Len(text) : j + i \in 1..Len(q)
    BY <1>1, <2>1
  <2> QED BY <2>1, <2>2, <2>3, <2>4, <2>5
<1>6. new \in Text
  BY <1>5, TextType DEF new
<1>7. j \in Nat /\ Len(text) \in Nat /\ Len(m) \in Nat
  BY <1>1, <1>3
<1>8. Off(new, j) = r.start
  <2>1. \A i \in 1..j : new[i] = content[i]
    BY <1>2, <1>5
  <2> QED BY <1>1, <1>7, <2>1, MeasurePrefix DEF Off
<1>9. Off(new, j + Len(text)) = r.start + Size(text) /\ Size(text) \in Nat
  <2>1. Measure(Width, new, j + Len(text)) = Measure(Width, new, j) + Measure(Width, text, Len(text))
    <3>1. \A i \in 1..Len(text) : new[j + i] = text[i]
      BY <1>5
    <3> DEFINE n == Len(text)
    <3>2. n \in Nat /\ \A i \in 1..n : new[j + i] = text[i]
      BY <1>7, <3>1
    <3> HIDE DEF n
    <3>3. Measure(Width, new, j + n) = Measure(Width, new, j) + Measure(Width, text, n)
      BY <1>7, <3>2, MeasureAdds
    <3> QED BY <3>3 DEF n
  <2> QED BY <1>7, <1>8, <2>1, MeasureType DEF Off, Size
<1>10. j \in 0..Len(new) /\ j + Len(text) \in 0..Len(new)
  BY <1>5, <1>7
<1> QED BY <1>6, <1>8, <1>9, <1>10, OffsetsType DEF new

\* What an input method names is moved to where characters begin or end.
LEMMA FromUtf16Type ==
    ASSUME NEW s \in Text, NEW u \in Nat
    PROVE  LET ks == {k \in 0..Len(s) : Measure(Units, s, k) >= u} \cup {Len(s)}
           IN  /\ ks \subseteq 0..Len(s) /\ ks # {}
               /\ Min(ks) \in ks /\ \A k \in ks : Min(ks) <= k
               /\ FromUtf16(s, u) = Off(s, Min(ks))
               /\ FromUtf16(s, u) \in Offsets(s)
<1> DEFINE ks == {k \in 0..Len(s) : Measure(Units, s, k) >= u} \cup {Len(s)}
<1>1. Len(s) \in Nat
  BY OffsetsType
<1>2. ks \subseteq 0..Len(s) /\ ks \subseteq Nat /\ ks # {}
  BY <1>1
<1> HIDE DEF ks
<1>3. Min(ks) \in ks /\ \A k \in ks : Min(ks) <= k
  BY <1>2, LeastNumber
<1>4. FromUtf16(s, u) = Off(s, Min(ks))
  BY DEF FromUtf16, ks
<1>5. FromUtf16(s, u) \in Offsets(s)
  BY <1>2, <1>3, <1>4, OffsetsType
<1> QED BY <1>2, <1>3, <1>4, <1>5 DEF ks

\* In the same order.
LEMMA FromUtf16Grows ==
    ASSUME NEW s \in Text, NEW u \in Nat, NEW v \in Nat, u <= v
    PROVE  FromUtf16(s, u) <= FromUtf16(s, v)
<1> DEFINE us == {k \in 0..Len(s) : Measure(Units, s, k) >= u} \cup {Len(s)}
           vs == {k \in 0..Len(s) : Measure(Units, s, k) >= v} \cup {Len(s)}
<1>1. /\ us \subseteq 0..Len(s) /\ vs \subseteq 0..Len(s)
      /\ Min(us) \in us /\ \A k \in us : Min(us) <= k
      /\ Min(vs) \in vs
      /\ FromUtf16(s, u) = Off(s, Min(us)) /\ FromUtf16(s, v) = Off(s, Min(vs))
  BY FromUtf16Type
<1>2. vs \subseteq us
  <2>1. \A k \in 0..Len(s) : k \in Nat /\ Measure(Units, s, k) \in Nat
    BY OffsetsType, MeasureType
  <2> QED BY <2>1
<1> HIDE DEF us, vs
<1>3. Min(us) <= Min(vs) /\ Min(us) \in 0..Len(s) /\ Min(vs) \in 0..Len(s)
  BY <1>1, <1>2
<1> QED BY <1>1, <1>3, OffsetsType

\* So are the ranges.
LEMMA SpanType ==
    ASSUME NEW s \in Text, NEW n \in Nat, NEW r \in UtfSpans(n)
    PROVE  /\ SpanFromUtf16(s, r).start \in Offsets(s)
           /\ SpanFromUtf16(s, r).end \in Offsets(s)
           /\ r.start <= r.end => SpanFromUtf16(s, r).start <= SpanFromUtf16(s, r).end
<1>1. r.start \in Nat /\ r.end \in Nat
  BY DEF UtfSpans, Span
<1>2. FromUtf16(s, r.start) \in Offsets(s) /\ FromUtf16(s, r.end) \in Offsets(s)
  BY <1>1, FromUtf16Type
<1> QED BY <1>1, <1>2, FromUtf16Grows DEF SpanFromUtf16, Span

(***************************************************************************)
(* Boundaries.                                                             *)
(***************************************************************************)
\* Graphemes begin where characters do.
LEMMA GraphemesType ==
    ASSUME content \in Text
    PROVE  Graphemes \subseteq Offsets(content) /\ Graphemes \subseteq Nat
<1>1. \A k \in 0..(Len(content) - 1) : k \in 0..Len(content)
  BY OffsetsType
<1>2. Graphemes \subseteq Offsets(content)
  BY <1>1, OffsetsType DEF Graphemes
<1> QED BY <1>2, OffsetsType

\* The beginning of the grapheme before, or of the text.
LEMMA PreviousType ==
    ASSUME content \in Text, NEW o \in Nat
    PROVE  PreviousBoundary(o) \in Offsets(content)
<1> DEFINE T == {g \in Graphemes : g < o} \cup {0}
<1>1. T \subseteq Offsets(content) /\ T \subseteq Nat /\ T # {} /\ \A n \in T : n <= o
  BY GraphemesType, OffsetsType
<1> HIDE DEF T
<1>2. Max(T) \in T
  BY <1>1, GreatestNumber
<1> QED BY <1>1, <1>2 DEF PreviousBoundary, T

\* The beginning of the grapheme after, or the end of the text.
LEMMA NextType ==
    ASSUME content \in Text, NEW o \in Nat
    PROVE  NextBoundary(o) \in Offsets(content)
<1> DEFINE T == {g \in Graphemes : g > o}
<1>1. T \subseteq Offsets(content) /\ T \subseteq Nat
  BY GraphemesType
<1>2. NextBoundary(o) = IF T = {} THEN Size(content) ELSE Min(T)
  BY DEF NextBoundary
<1> HIDE DEF T
<1>3. T # {} => Min(T) \in T
  BY <1>1, LeastNumber
<1> QED BY <1>1, <1>2, <1>3, OffsetsType

\* Characters of a kind before the n-th, as many as there are.
LEMMA BackType ==
    ASSUME NEW n \in Nat, NEW T, T \subseteq 0..n, n \in T
    PROVE  Min(T) \in 0..n
<1>1. T \subseteq Nat /\ T # {}
  OBVIOUS
<1> QED BY <1>1, LeastNumber

\* Characters of a kind after the n-th, as many as there are.
LEMMA ForthType ==
    ASSUME NEW n \in Nat, NEW m \in Nat, NEW T, T \subseteq n..m, n \in T
    PROVE  Max(T) \in n..m
<1>1. T \subseteq Nat /\ T # {} /\ \A i \in T : i <= m
  OBVIOUS
<1> QED BY <1>1, GreatestNumber

\* No character is both in and out of an empty range.
LEMMA EmptyRange == \A n \in Nat : Solid(n, n) /\ Spaces(n, n)
  BY DEF Solid, Spaces

\* Back over the spaces, and over the word before them.
LEMMA PreviousWordType ==
    ASSUME content \in Text, NEW o \in Offsets(content)
    PROVE  PreviousWord(o) \in Offsets(content)
<1> DEFINE n == At(content, o)
           G == {i \in 0..n : Spaces(i, n)}
           gap == Min(G)
           W == {i \in 0..gap : Solid(i, gap)}
<1>1. n \in 0..Len(content) /\ n \in Nat /\ Len(content) \in Nat
  BY AtFinds, OffsetsType
<1>2. G \subseteq 0..n /\ n \in G
  BY <1>1, EmptyRange
<1> HIDE DEF G
<1>3. gap \in 0..n /\ gap \in Nat
  <2> HIDE DEF n
  <2>1. Min(G) \in 0..n
    BY <1>1, <1>2, BackType
  <2> QED BY <1>1, <2>1
<1>4. W \subseteq 0..gap /\ gap \in W
  BY <1>3, EmptyRange
<1>5. PreviousWord(o) = Off(content, Min(W))
  BY DEF PreviousWord, G
<1> HIDE DEF n, gap, W
<1>6. Min(W) \in 0..gap
  BY <1>3, <1>4, BackType
<1>7. Min(W) \in 0..Len(content)
  BY <1>1, <1>3, <1>6
<1> QED BY <1>5, <1>7, OffsetsType

\* Forth over the rest of the word, and over the spaces after it.
LEMMA NextWordType ==
    ASSUME content \in Text, NEW o \in Offsets(content)
    PROVE  NextWord(o) \in Offsets(content)
<1> DEFINE n == At(content, o)
           m == Len(content)
           G == {i \in n..m : Solid(n, i)}
           gap == Max(G)
           W == {i \in gap..m : Spaces(gap, i)}
<1>1. n \in 0..m /\ n \in Nat /\ m \in Nat
  BY AtFinds, OffsetsType
<1>2. G \subseteq n..m /\ n \in G
  BY <1>1, EmptyRange
<1> HIDE DEF G
<1>3. gap \in n..m /\ gap \in Nat
  <2> HIDE DEF n, m
  <2>1. Max(G) \in n..m
    BY <1>1, <1>2, ForthType
  <2> QED BY <1>1, <2>1
<1>4. W \subseteq gap..m /\ gap \in W
  BY <1>1, <1>3, EmptyRange
<1>5. NextWord(o) = Off(content, Max(W))
  BY DEF NextWord, G
<1> HIDE DEF n, gap, W
<1>6. Max(W) \in gap..m
  BY <1>1, <1>3, <1>4, ForthType
<1>7. Max(W) \in 0..m
  BY <1>1, <1>3, <1>6
<1> QED BY <1>5, <1>7, OffsetsType

\* The word around a place begins before it and ends after it.
LEMMA WordAtType ==
    ASSUME content \in Text, NEW o \in Offsets(content)
    PROVE  /\ WordAt(o).start \in Offsets(content) /\ WordAt(o).end \in Offsets(content)
           /\ WordAt(o).start <= WordAt(o).end
<1> DEFINE n == At(content, o)
           m == Len(content)
           A == {i \in 0..n : Solid(i, n)}
           B == {i \in n..m : Solid(n, i)}
<1>1. n \in 0..m /\ n \in Nat /\ m \in Nat
  BY AtFinds, OffsetsType
<1>2. A \subseteq 0..n /\ n \in A /\ B \subseteq n..m /\ n \in B
  BY <1>1, EmptyRange
<1>3. WordAt(o).start = Off(content, Min(A)) /\ WordAt(o).end = Off(content, Max(B))
  BY DEF WordAt, Span
<1> HIDE DEF n, A, B
<1>4. Min(A) \in 0..n /\ Max(B) \in n..m
  BY <1>1, <1>2, BackType, ForthType
<1>5. Min(A) \in 0..m /\ Max(B) \in 0..m /\ Min(A) <= Max(B)
  BY <1>1, <1>4
<1> QED BY <1>3, <1>5, OffsetsType

\* Wherever the cursor goes from between two characters, it gets between two.
LEMMA BoundaryType ==
    ASSUME content \in Text, NEW d \in Direction, NEW o \in Offsets(content)
    PROVE  Boundary(d, o) \in Offsets(content) /\ Slices(d, o)
<1>1. o \in Nat
  BY OffsetsType
<1> QED BY <1>1, PreviousType, NextType, PreviousWordType, NextWordType
        DEF Boundary, Direction, Slices

(***************************************************************************)
(* The text field.                                                         *)
(***************************************************************************)
\* As long as nobody was misled, nothing has panicked and the selection can be
\* sliced, wherever its ends have been moved.
FieldInv ==
    /\ InputTypeOK
    /\ ~misled => ~panicked /\ sel.start \in Offsets(content) /\ sel.end \in Offsets(content)

\* The selection has its ends in order, among the places it is made of.
LEMMA SelectedType ==
    ASSUME NEW S, S \subseteq Nat, NEW s, s.start \in S, s.end \in S, s.reversed \in BOOLEAN, NEW o \in S
    PROVE  LET t == Selected(s, o)
           IN  t.start \in S /\ t.end \in S /\ t.start <= t.end /\ t.reversed \in BOOLEAN
<1> DEFINE a == IF s.reversed THEN s.end ELSE s.start
<1>1. a \in S /\ a \in Nat /\ o \in Nat
  OBVIOUS
<1> HIDE DEF a
<1>2. Min({o, a}) \in {o, a} /\ Max({o, a}) \in {o, a} /\ Min({o, a}) <= Max({o, a})
  <2>1. {o, a} \subseteq Nat /\ {o, a} # {} /\ o + a \in Nat /\ \A n \in {o, a} : n <= o + a
    BY <1>1
  <2>2. Min({o, a}) \in {o, a} /\ \A n \in {o, a} : Min({o, a}) <= n
    BY <2>1, LeastNumber
  <2>3. Max({o, a}) \in {o, a}
    BY <2>1, GreatestNumber
  <2> QED BY <2>2, <2>3
<1>3. Selected(s, o) = IF o = a THEN [start |-> o, end |-> o, reversed |-> s.reversed]
                       ELSE [start |-> Min({o, a}), end |-> Max({o, a}), reversed |-> o < a]
  BY DEF Selected, a
<1>4. CASE o = a
  BY <1>1, <1>3, <1>4
<1>5. CASE o # a
  BY <1>1, <1>2, <1>3, <1>5
<1> QED BY <1>4, <1>5

\* The selection moves; the text stays.
LEMMA BecomesKeeps ==
    ASSUME FieldInv, ~misled, NEW s, s.start \in Nat, s.end \in Nat, s.start <= s.end,
           s.reversed \in BOOLEAN, Becomes(s), selecting' \in BOOLEAN, misled' \in BOOLEAN,
           ~misled' => s.start \in Offsets(content) /\ s.end \in Offsets(content)
    PROVE  FieldInv'
<1>1. /\ sel'.start = s.start /\ sel'.end = s.end /\ reversed' = s.reversed
      /\ content' = content /\ marked' = marked /\ painted' = painted /\ event' = event
      /\ panicked' = panicked
  BY DEF Becomes, Span
<1>2. InputTypeOK'
  BY <1>1 DEF FieldInv, InputTypeOK, Offsets
<1> QED BY <1>1, <1>2 DEF FieldInv, Offsets

\* What the field selects is in the text.
LEMMA SelectionType ==
    ASSUME FieldInv, ~misled
    PROVE  /\ content \in Text
           /\ Selection.start \in Offsets(content) /\ Selection.end \in Offsets(content)
           /\ Selection.reversed \in BOOLEAN
           /\ Cursor \in Offsets(content)
           /\ Offsets(content) \subseteq Nat /\ 0 \in Offsets(content) /\ Size(content) \in Offsets(content)
  BY OffsetsType DEF FieldInv, InputTypeOK, Selection, Cursor

\* select_to and move_to: only who is misled goes to a place not in the text.
LEMMA SelectAnywhere ==
    ASSUME FieldInv, ~misled, NEW o \in Nat, SelectTo(o) \/ MoveTo(o),
           selecting' \in BOOLEAN, misled' \in BOOLEAN, ~misled' => o \in Offsets(content)
    PROVE  FieldInv'
<1>1. CASE SelectTo(o)
  <2> DEFINE t == Selected(Selection, o)
  <2>1. /\ Selection.start \in Offsets(content) /\ Selection.end \in Offsets(content)
        /\ Selection.reversed \in BOOLEAN /\ Offsets(content) \subseteq Nat
    BY SelectionType
  <2>2. t.start \in Nat /\ t.end \in Nat /\ t.start <= t.end /\ t.reversed \in BOOLEAN
    <3>1. Selection.start \in Nat /\ Selection.end \in Nat
      BY <2>1
    <3> QED BY <2>1, <3>1, SelectedType
  <2>3. ~misled' => t.start \in Offsets(content) /\ t.end \in Offsets(content)
    BY <2>1, SelectedType
  <2> HIDE DEF t
  <2>4. Becomes(t)
    BY <1>1 DEF SelectTo, t
  <2> QED BY <2>2, <2>3, <2>4, BecomesKeeps
<1>2. CASE MoveTo(o)
  <2> DEFINE t == [start |-> o, end |-> o, reversed |-> reversed]
  <2>1. t.start = o /\ t.end = o /\ t.reversed = reversed /\ reversed \in BOOLEAN /\ o <= o
    BY DEF FieldInv, InputTypeOK
  <2>2. Becomes(t)
    BY <1>2 DEF MoveTo
  <2> HIDE DEF t
  <2> QED BY <2>1, <2>2, BecomesKeeps
<1> QED BY <1>1, <1>2

\* Nobody is, by the keys.
LEMMA SelectKeeps ==
    ASSUME FieldInv, ~misled, NEW o \in Offsets(content), SelectTo(o) \/ MoveTo(o),
           selecting' \in BOOLEAN, misled' = misled
    PROVE  FieldInv'
<1>1. misled' \in BOOLEAN /\ o \in Nat
  BY SelectionType DEF FieldInv, InputTypeOK
<1> QED BY <1>1, SelectAnywhere

\* Left, right, by a character or a word, and to the ends.
LEMMA MoveKeeps ==
    ASSUME FieldInv, ~misled, NEW d \in Direction, Move(d) \/ Extend(d)
    PROVE  FieldInv' /\ content' = content /\ event' = event /\ misled' = misled
<1>1. Boundary(d, Cursor) \in Offsets(content) /\ Slices(d, Cursor)
  BY SelectionType, BoundaryType
<1>2. CASE Move(d)
  <2> DEFINE o == IF Empty(sel) THEN Boundary(d, Cursor)
                  ELSE IF d \in Backward THEN sel.start ELSE sel.end
  <2>1. o \in Offsets(content)
    BY <1>1 DEF FieldInv
  <2>2. MoveTo(o) /\ UNCHANGED <<selecting, misled>>
    BY <1>1, <1>2 DEF Move
  <2> HIDE DEF o
  <2>3. selecting' \in BOOLEAN
    BY <2>2 DEF FieldInv, InputTypeOK
  <2> QED BY <2>1, <2>2, <2>3, SelectKeeps DEF MoveTo, Becomes
<1>3. CASE Extend(d)
  <2>1. SelectTo(Boundary(d, Cursor)) /\ UNCHANGED <<selecting, misled>>
    BY <1>1, <1>3 DEF Extend
  <2>2. selecting' \in BOOLEAN
    BY <2>1 DEF FieldInv, InputTypeOK
  <2> QED BY <1>1, <2>1, <2>2, SelectKeeps DEF SelectTo, Becomes
<1> QED BY <1>2, <1>3

\* To the ends of the text.
LEMMA EndsKeep ==
    ASSUME FieldInv, ~misled, Home \/ End \/ SelectToHome \/ SelectToEnd
    PROVE  FieldInv' /\ content' = content /\ event' = event /\ misled' = misled
<1>1. PICK o \in Offsets(content) : (SelectTo(o) \/ MoveTo(o)) /\ UNCHANGED <<selecting, misled>>
  BY SelectionType DEF Home, End, SelectToHome, SelectToEnd
<1>2. selecting' \in BOOLEAN
  BY <1>1 DEF FieldInv, InputTypeOK
<1> QED BY <1>1, <1>2, SelectKeeps DEF SelectTo, MoveTo, Becomes

\* All of the text.
LEMMA SelectAllKeeps ==
    ASSUME FieldInv, ~misled, SelectAll
    PROVE  FieldInv' /\ content' = content /\ event' = event /\ misled' = misled
<1> DEFINE s == [start |-> 0, end |-> 0, reversed |-> reversed]
           t == Selected(s, Size(content))
<1>1. s.start = 0 /\ s.end = 0 /\ s.reversed \in BOOLEAN
  BY DEF FieldInv, InputTypeOK
<1>2. Becomes(t) /\ UNCHANGED <<selecting, misled>>
  BY DEF SelectAll
<1> HIDE DEF s
<1>3. t.start \in Offsets(content) /\ t.end \in Offsets(content) /\ t.start <= t.end /\ t.reversed \in BOOLEAN
  BY <1>1, SelectionType, SelectedType
<1> HIDE DEF t
<1>4. t.start \in Nat /\ t.end \in Nat /\ selecting' \in BOOLEAN /\ misled' \in BOOLEAN
  BY <1>2, <1>3, SelectionType DEF FieldInv, InputTypeOK
<1> QED BY <1>2, <1>3, <1>4, BecomesKeeps DEF Becomes

\* A change leaves the cursor behind what was put in, and nothing marked.
LEMMA ReplaceKeeps ==
    ASSUME FieldInv, ~misled,
           NEW range, range # None => range.start \in Offsets(content) /\ range.end \in Offsets(content),
           NEW text \in Seq(Alphabet),
           NEW s, s.start \in Offsets(content), s.end \in Offsets(content), s.reversed \in BOOLEAN,
           Replace(range, text, s)
    PROVE  FieldInv' /\ event' = TRUE /\ misled' = misled
<1> DEFINE r == Replaced(range, Span(s.start, s.end))
<1>1. r.start \in Offsets(content) /\ r.end \in Offsets(content)
  BY DEF Replaced, Span, FieldInv, InputTypeOK
<1>2. /\ Len(Spliced(r, text)) <= MaxLen
      /\ content' = Spliced(r, text) /\ sel' = After(r, text)
      /\ reversed' = s.reversed /\ marked' = None /\ event' = TRUE
      /\ painted' = painted /\ selecting' = selecting /\ panicked' = panicked /\ misled' = misled
  BY <1>1 DEF Replace, Emits
<1> HIDE DEF r
<1>3. content \in Text
  BY DEF FieldInv, InputTypeOK
<1>4. content' \in Text /\ r.start + Size(text) \in Offsets(content')
  BY <1>1, <1>2, <1>3, SplicedType
<1>5. sel'.start = r.start + Size(text) /\ sel'.end = r.start + Size(text)
  BY <1>2 DEF After, Span
<1>6. r.start + Size(text) \in Nat
  BY <1>4, OffsetsType
<1>7. InputTypeOK'
  BY <1>2, <1>4, <1>5, <1>6 DEF FieldInv, InputTypeOK
<1> QED BY <1>2, <1>4, <1>5, <1>7 DEF FieldInv, Offsets

\* What is selected, or from the cursor to the next boundary.
LEMMA DeleteKeeps ==
    ASSUME FieldInv, ~misled, NEW d \in Direction, Delete(d)
    PROVE  FieldInv' /\ event' = TRUE /\ misled' = misled
<1>1. <<>> \in Seq(Alphabet)
  OBVIOUS
<1>2. CASE Replace(None, <<>>, Selection)
  BY <1>1, <1>2, SelectionType, ReplaceKeeps
<1>3. CASE Replace(None, <<>>, Selected(Selection, Boundary(d, Cursor)))
  <2> DEFINE s == Selected(Selection, Boundary(d, Cursor))
  <2>1. s.start \in Offsets(content) /\ s.end \in Offsets(content) /\ s.reversed \in BOOLEAN
    BY SelectionType, BoundaryType, SelectedType
  <2> HIDE DEF s
  <2> QED BY <1>1, <1>3, <2>1, ReplaceKeeps DEF s
<1>4. Slices(d, Cursor)
  BY SelectionType, BoundaryType
<1> QED BY <1>2, <1>3, <1>4 DEF Delete

\* Whatever was copied elsewhere.
LEMMA PasteKeeps ==
    ASSUME FieldInv, ~misled, Paste
    PROVE  FieldInv' /\ event' = TRUE /\ misled' = misled
<1>1. PICK text \in Seq(Alphabet) : Replace(None, text, Selection)
  BY InputAssumption DEF Paste
<1> QED BY <1>1, SelectionType, ReplaceKeeps

\* What is copied and cut can be sliced.
LEMMA ClipKeeps ==
    ASSUME FieldInv, ~misled, Copy \/ Cut
    PROVE  FieldInv' /\ misled' = misled /\ (event' = TRUE \/ (content' = content /\ event' = event))
<1>1. Sliceable
  BY DEF FieldInv, Sliceable
<1>2. CASE Copy
  BY <1>1, <1>2 DEF Copy, inputVars, FieldInv, InputTypeOK, Offsets
<1>3. CASE Cut
  <2>1. Replace(None, <<>>, Selection) /\ <<>> \in Seq(Alphabet)
    BY <1>1, <1>3 DEF Cut
  <2> QED BY <2>1, SelectionType, ReplaceKeeps
<1> QED BY <1>2, <1>3

\* A range that is named begins and ends with a character.
LEMMA RangesType ==
    ASSUME FieldInv, ~misled, NEW range \in Ranges, range # None
    PROVE  /\ range.start \in Offsets(content) /\ range.end \in Offsets(content)
           /\ range.start <= range.end
<1> DEFINE n == Utf16Size(content)
<1>1. n \in Nat /\ content \in Text
  BY SelectionType, OffsetsType, MeasureType DEF Utf16Size
<1>2. PICK r \in Ordered(n) : range = SpanFromUtf16(content, r)
  BY DEF Ranges
<1>3. r \in UtfSpans(n) /\ r.start <= r.end
  BY <1>2 DEF Ordered
<1> HIDE DEF n
<1> QED BY <1>1, <1>2, <1>3, SpanType

\* A key that is text, for whatever range.
LEMMA TypeKeeps ==
    ASSUME FieldInv, ~misled, Type
    PROVE  FieldInv' /\ event' = TRUE /\ misled' = misled
<1>1. PICK range \in Ranges, text \in Seq(Alphabet) : Replace(range, text, Selection)
  BY InputAssumption DEF Type
<1>2. range # None => range.start \in Offsets(content) /\ range.end \in Offsets(content)
  BY RangesType
<1> QED BY <1>1, <1>2, SelectionType, ReplaceKeeps

\* A composition marks the text it has put in, and may select what it likes.
LEMMA ComposeKeeps ==
    ASSUME FieldInv, ~misled, Compose
    PROVE  FieldInv' /\ event' = TRUE
<1>0. PICK range \in Ranges, text \in Typed \cup {<<>>} :
         LET r == Replaced(range, sel)
             new == Spliced(r, text)
             asks == Ordered(Utf16Size(text))
         IN  IF ~({r.start, r.end} \subseteq Offsets(content)) THEN Panic
             ELSE \E asked \in {SpanFromUtf16(new, u) : u \in asks} \cup {None} :
                  /\ Len(new) <= MaxLen
                  /\ content' = new
                  /\ marked' = IF text = <<>> THEN None ELSE Span(r.start, r.start + Size(text))
                  /\ sel' = IF asked = None THEN After(r, text)
                            ELSE Span(asked.start + r.start, asked.end + r.end)
                  /\ misled' = (misled \/ asked # None)
                  /\ Emits
                  /\ UNCHANGED <<reversed, painted, selecting, panicked>>
  BY DEF Compose
<1> DEFINE r == Replaced(range, sel)
<1>1. /\ r.start \in Offsets(content) /\ r.end \in Offsets(content) /\ r.start <= r.end
      /\ r.start \in Nat /\ r.end \in Nat
  <2>1. content \in Text
    BY SelectionType
  <2>2. range # None => /\ range.start \in Offsets(content) /\ range.end \in Offsets(content)
                        /\ range.start <= range.end
    BY RangesType
  <2>3. r.start \in Offsets(content) /\ r.end \in Offsets(content) /\ r.start <= r.end
    BY <2>2, SelectionType DEF Replaced, FieldInv, InputTypeOK
  <2> QED BY <2>1, <2>3, OffsetsType
<1>2. \E asked \in {SpanFromUtf16(Spliced(r, text), u) : u \in Ordered(Utf16Size(text))} \cup {None} :
            /\ Len(Spliced(r, text)) <= MaxLen
            /\ content' = Spliced(r, text)
            /\ marked' = IF text = <<>> THEN None ELSE Span(r.start, r.start + Size(text))
            /\ sel' = IF asked = None THEN After(r, text)
                      ELSE Span(asked.start + r.start, asked.end + r.end)
            /\ misled' = (misled \/ asked # None)
            /\ event' = TRUE
            /\ UNCHANGED <<reversed, painted, selecting, panicked>>
  BY <1>0, <1>1 DEF Emits
<1> HIDE DEF r
<1> DEFINE new == Spliced(r, text)
<1>3. PICK asked \in {SpanFromUtf16(new, u) : u \in Ordered(Utf16Size(text))} \cup {None} :
            /\ Len(new) <= MaxLen
            /\ content' = new
            /\ marked' = IF text = <<>> THEN None ELSE Span(r.start, r.start + Size(text))
            /\ sel' = IF asked = None THEN After(r, text)
                      ELSE Span(asked.start + r.start, asked.end + r.end)
            /\ misled' = (misled \/ asked # None)
            /\ event' = TRUE
            /\ UNCHANGED <<reversed, painted, selecting, panicked>>
  BY <1>2
<1>4. text \in Seq(Alphabet) /\ content \in Text
  <2>1. <<>> \in Seq(Alphabet)
    OBVIOUS
  <2> QED BY <2>1, InputAssumption, SelectionType
<1>5. /\ new \in Text /\ r.start \in Offsets(new)
      /\ Size(text) \in Nat /\ r.start + Size(text) \in Offsets(new)
  BY <1>1, <1>3, <1>4, SplicedType
<1> HIDE DEF new
<1>6. marked' # None => /\ marked'.start \in Offsets(content') /\ marked'.end \in Offsets(content')
                        /\ marked'.start < marked'.end
  <2>1. text # <<>> => Size(text) > 0
    BY <1>4, SizePositive
  <2> QED BY <1>1, <1>3, <1>5, <2>1 DEF Span
<1>7. CASE asked = None
  <2>1. /\ sel'.start = r.start + Size(text) /\ sel'.end = r.start + Size(text)
        /\ misled' = misled
    BY <1>3, <1>7 DEF After, Span, FieldInv, InputTypeOK
  <2>2. InputTypeOK'
    BY <1>1, <1>3, <1>5, <1>6, <2>1 DEF FieldInv, InputTypeOK
  <2> QED BY <1>3, <1>5, <2>1, <2>2 DEF FieldInv, Offsets
<1>8. CASE asked # None
  <2>1. Utf16Size(text) \in Nat
    BY <1>4, MeasureType DEF Utf16Size
  <2>2. PICK u \in Ordered(Utf16Size(text)) : asked = SpanFromUtf16(new, u)
    BY <1>3, <1>8
  <2>3. u \in UtfSpans(Utf16Size(text)) /\ u.start <= u.end
    BY <2>2 DEF Ordered
  <2>4. /\ asked.start \in Offsets(new) /\ asked.end \in Offsets(new)
        /\ asked.start <= asked.end
    BY <1>5, <2>1, <2>2, <2>3, SpanType
  <2>5. asked.start \in Nat /\ asked.end \in Nat
    BY <1>5, <2>4, OffsetsType
  <2>6. /\ sel'.start = asked.start + r.start /\ sel'.end = asked.end + r.end
        /\ misled' = TRUE
    BY <1>3, <1>8 DEF Span, FieldInv, InputTypeOK
  <2>7. sel'.start \in Nat /\ sel'.end \in Nat /\ sel'.start <= sel'.end
    BY <1>1, <2>4, <2>5, <2>6
  <2>8. InputTypeOK'
    BY <1>3, <1>5, <1>6, <2>6, <2>7 DEF FieldInv, InputTypeOK
  <2> QED BY <1>3, <2>6, <2>8, Zenon DEF FieldInv
<1> QED BY <1>3, <1>7, <1>8

\* Whatever key is pressed, and whatever an input method asks for.
LEMMA KeyKeeps ==
    ASSUME FieldInv, ~misled, Key
    PROVE  FieldInv' /\ (event' = TRUE \/ (content' = content /\ event' = event))
<1>1. CASE \E d \in Direction : Move(d) \/ Extend(d) \/ Delete(d)
  BY <1>1, MoveKeeps, DeleteKeeps
<1>2. CASE Home \/ End \/ SelectToHome \/ SelectToEnd
  BY <1>2, EndsKeep
<1>3. CASE SelectAll \/ Paste \/ Copy \/ Cut \/ Type \/ Compose
  BY <1>3, SelectAllKeeps, PasteKeeps, ClipKeeps, TypeKeeps, ComposeKeeps
<1>4. CASE Unmark
  BY <1>4 DEF Unmark, FieldInv, InputTypeOK, Offsets
<1> QED BY <1>1, <1>2, <1>3, <1>4 DEF Key

(***************************************************************************)
(* The mouse, the window, and what the window puts in.                     *)
(***************************************************************************)
\* A place on the line that was painted for this text is in the text.
LEMMA PlacesType ==
    ASSUME FieldInv, ~misled, NEW o \in Places, Misleads(o)
    PROVE  o \in Nat /\ misled' \in BOOLEAN /\ (~misled' => o \in Offsets(content))
<1>1. content \in Text /\ 0 \in Offsets(content) /\ Size(content) \in Offsets(content) /\ Size(content) \in Nat
  BY SelectionType
<1>2. o \in {0, Size(content)} \/ (o \in {Off(Line, k) : k \in 0..Len(Line)} /\ painted # None /\ content # <<>>)
  BY DEF Places
<1>3. CASE o \in {0, Size(content)}
  BY <1>1, <1>3 DEF Misleads, FieldInv, InputTypeOK
<1>4. CASE o \notin {0, Size(content)}
  <2>1. PICK k \in 0..Len(Line) : o = Off(Line, k)
    BY <1>2, <1>4
  <2>2. Len(Line) \in Nat
    BY <1>2, <1>4, OffsetsType, InputAssumption DEF Line, FieldInv, InputTypeOK
  <2>3. o \in Nat
    BY <2>1, <2>2, MeasureType DEF Off
  <2>4. misled' = (painted # content)
    BY <1>4 DEF Misleads
  <2>5. painted = content => o \in Offsets(content)
    BY <1>1, <1>2, <1>4, <2>1, OffsetsType DEF Line
  <2> QED BY <2>3, <2>4, <2>5
<1> QED BY <1>3, <1>4

\* A click panics only if it was on the line of another text.
LEMMA MouseDownKeeps ==
    ASSUME FieldInv, ~misled, MouseDown
    PROVE  FieldInv' /\ content' = content /\ event' = event
<1>1. PICK o \in Places :
       \/ (SelectTo(o) \/ MoveTo(o)) /\ selecting' = TRUE /\ Misleads(o)
       \/ o \notin Offsets(content) /\ Fails /\ Misleads(o)
       \/ /\ o \in Offsets(content)
          /\ Becomes([start |-> WordAt(o).start, end |-> WordAt(o).end, reversed |-> FALSE])
          /\ selecting' = FALSE /\ UNCHANGED misled
       \/ /\ Becomes([start |-> 0, end |-> Size(content), reversed |-> FALSE])
          /\ selecting' = FALSE /\ UNCHANGED misled
  BY DEF MouseDown
<1>2. CASE (SelectTo(o) \/ MoveTo(o)) /\ selecting' = TRUE /\ Misleads(o)
  BY <1>2, PlacesType, SelectAnywhere DEF SelectTo, MoveTo, Becomes
<1>3. CASE o \notin Offsets(content) /\ Fails /\ Misleads(o)
  <2>1. misled' \in BOOLEAN /\ misled'
    BY <1>3, PlacesType
  <2>2. InputTypeOK' /\ content' = content /\ event' = event
    BY <1>3, <2>1 DEF Fails, FieldInv, InputTypeOK, Offsets
  <2> QED BY <2>1, <2>2 DEF FieldInv
<1>4. misled \in BOOLEAN /\ content \in Text
  BY DEF FieldInv, InputTypeOK
<1>5. CASE /\ o \in Offsets(content)
           /\ Becomes([start |-> WordAt(o).start, end |-> WordAt(o).end, reversed |-> FALSE])
           /\ selecting' = FALSE /\ UNCHANGED misled
  <2> DEFINE s == [start |-> WordAt(o).start, end |-> WordAt(o).end, reversed |-> FALSE]
  <2>1. /\ s.start \in Offsets(content) /\ s.end \in Offsets(content) /\ s.start <= s.end
        /\ s.reversed \in BOOLEAN
    BY <1>4, <1>5, WordAtType
  <2>2. s.start \in Nat /\ s.end \in Nat
    BY <2>1, SelectionType
  <2>3. Becomes(s) /\ selecting' \in BOOLEAN /\ misled' \in BOOLEAN
    BY <1>4, <1>5
  <2> HIDE DEF s
  <2> QED BY <2>1, <2>2, <2>3, BecomesKeeps DEF Becomes
<1>6. CASE /\ Becomes([start |-> 0, end |-> Size(content), reversed |-> FALSE])
           /\ selecting' = FALSE /\ UNCHANGED misled
  <2> DEFINE s == [start |-> 0, end |-> Size(content), reversed |-> FALSE]
  <2>1. /\ s.start \in Offsets(content) /\ s.end \in Offsets(content) /\ s.start <= s.end
        /\ s.start \in Nat /\ s.end \in Nat /\ s.reversed \in BOOLEAN
    BY SelectionType
  <2>2. Becomes(s) /\ selecting' \in BOOLEAN /\ misled' \in BOOLEAN
    BY <1>4, <1>6
  <2> HIDE DEF s
  <2> QED BY <2>1, <2>2, BecomesKeeps DEF Becomes
<1> QED BY <1>1, <1>2, <1>3, <1>5, <1>6

\* Clicks, drags, and the button that is let go.
LEMMA MouseKeeps ==
    ASSUME FieldInv, ~misled, Mouse
    PROVE  FieldInv' /\ content' = content /\ event' = event
<1>1. CASE Drag
  <2>1. PICK o \in Places : SelectTo(o) /\ Misleads(o) /\ UNCHANGED selecting
    BY <1>1 DEF Drag
  <2>2. selecting' \in BOOLEAN
    BY <2>1 DEF FieldInv, InputTypeOK
  <2> QED BY <2>1, <2>2, PlacesType, SelectAnywhere DEF SelectTo, Becomes
<1>2. CASE MouseUp
  BY <1>2 DEF MouseUp, FieldInv, InputTypeOK, Offsets
<1> QED BY <1>1, <1>2, MouseDownKeeps DEF Mouse

\* What is marked ends within the text, so that it can be painted.
LEMMA PaintKeeps ==
    ASSUME FieldInv, ~misled, Paint
    PROVE  FieldInv' /\ content' = content /\ event' = event /\ misled' = misled
<1>1. marked # None => marked.start <= marked.end /\ marked.end <= Size(content)
  BY OffsetsType DEF FieldInv, InputTypeOK
<1>2. UNCHANGED <<content, sel, reversed, marked, selecting, event, panicked, misled>> /\ painted' = content
  BY <1>1 DEF Paint
<1> QED BY <1>2 DEF FieldInv, InputTypeOK, Offsets

\* What the window puts in has the cursor at its end.
LEMMA SetValueKeeps ==
    ASSUME FieldInv, ~misled, NEW value \in Text, SetValue(value)
    PROVE  FieldInv' /\ content' = value /\ event' = TRUE /\ misled' = misled
<1>1. /\ content' = value /\ sel'.start = Size(value) /\ sel'.end = Size(value) /\ marked' = None
      /\ event' = TRUE /\ UNCHANGED <<reversed, painted, selecting, panicked, misled>>
  BY DEF SetValue, Span, Emits
<1>2. Size(value) \in Offsets(value) /\ Size(value) \in Nat
  BY OffsetsType
<1> QED BY <1>1, <1>2 DEF FieldInv, InputTypeOK, Offsets

\* The field as it is first, and as it is left when the window is gone.
LEMMA EmptyKeeps ==
    /\ <<>> \in Text /\ Offsets(<<>>) = {0}
    /\ InputInit => FieldInv
<1>1. <<>> \in Text
  <2>1. <<>> \in Seq(Alphabet) /\ Len(<<>>) = 0
    OBVIOUS
  <2>2. MaxLen \in Nat
    BY InputAssumption
  <2>3. Len(<<>>) <= MaxLen
    BY <2>1, <2>2
  <2> QED BY <2>1, <2>3, TextType
<1>2. Offsets(<<>>) = {0}
  <2>1. Offsets(<<>>) = {Off(<<>>, k) : k \in 0..0}
    BY <1>1, OffsetsType
  <2> QED BY <2>1, MeasureZero DEF Off
<1>3. InputInit => FieldInv
  <2> SUFFICES ASSUME InputInit PROVE FieldInv
    OBVIOUS
  <2>1. sel.start = 0 /\ sel.end = 0 /\ content = <<>>
    BY DEF InputInit, Span
  <2>2. InputTypeOK
    <3>1. content \in Text
      BY <1>1, <2>1
    <3>2. /\ marked = None /\ painted = None
          /\ reversed = FALSE /\ selecting = FALSE /\ event = FALSE /\ panicked = FALSE /\ misled = FALSE
      BY DEF InputInit
    <3>3. {reversed, selecting, event, panicked, misled} \subseteq BOOLEAN
      BY <3>2
    <3>4. sel.start \in Nat /\ sel.end \in Nat /\ sel.start <= sel.end
      BY <2>1
    <3> QED BY <3>1, <3>2, <3>3, <3>4, Zenon DEF InputTypeOK
  <2>3. Offsets(content) = {0}
    BY <1>2, <2>1
  <2> QED BY <2>1, <2>2, <2>3 DEF InputInit, FieldInv
<1> QED BY <1>1, <1>2, <1>3

(***************************************************************************)
(* The names that match.                                                   *)
(***************************************************************************)
\* A finite set of numbers has an n-th one, by induction: the first has one,
\* itself, that is not greater, and each next has one more.
LEMMA NthType ==
    ASSUME NEW T, T \subseteq Nat, IsFiniteSet(T), NEW n \in 1..Cardinality(T)
    PROVE  Nth(T, n) \in T
<1> DEFINE upto(i) == {j \in T : j <= i}
           Bad == {m \in 1..Cardinality(T) : \A i \in T : Cardinality(upto(i)) # m}
<1>0. \A i, j \in T : i \in Nat /\ j \in Nat /\ (i <= j \/ i > j) /\ (i <= j /\ j <= i => i = j)
  OBVIOUS
<1>1. Cardinality(T) \in Nat
  BY FS_CardinalityType
<1>2. \A i : upto(i) \subseteq T /\ IsFiniteSet(upto(i))
  BY FS_Subset
<1>3. ASSUME Bad # {} PROVE FALSE
  <2> DEFINE m == Min(Bad)
  <2>1. Bad \subseteq Nat
    OBVIOUS
  <2>2. m \in Bad /\ \A b \in Bad : m <= b
    BY <1>3, <2>1, LeastNumber
  <2>3. m \in 1..Cardinality(T) /\ m \in Nat /\ \A i \in T : Cardinality(upto(i)) # m
    BY <1>1, <2>2
  <2>4. CASE m = 1
    <3>1. T # {}
      BY <2>3, FS_EmptySet
    <3>2. Min(T) \in T /\ \A j \in T : Min(T) <= j
      BY <3>1, LeastNumber
    <3>3. upto(Min(T)) = {Min(T)}
      <4>1. Min(T) <= Min(T) /\ \A j \in T : j <= Min(T) => j = Min(T)
        BY <1>0, <3>2
      <4> QED BY <3>2, <4>1
    <3>4. Cardinality(upto(Min(T))) = 1
      BY <3>3, FS_Singleton
    <3> QED BY <2>3, <2>4, <3>2, <3>4
  <2>5. CASE m # 1
    <3>1. m - 1 \in 1..Cardinality(T) /\ m - 1 \notin Bad
      BY <1>1, <2>2, <2>3, <2>5
    <3>2. PICK i \in T : Cardinality(upto(i)) = m - 1
      BY <3>1
    <3> DEFINE U == {j \in T : j > i}
    <3>3. U # {}
      <4> SUFFICES ASSUME U = {} PROVE FALSE
        OBVIOUS
      <4>1. upto(i) = T
        <5>1. \A j \in T : j <= i
          BY <1>0
        <5> QED BY <5>1
      <4> QED BY <1>1, <2>3, <3>2, <4>1
    <3>4. Min(U) \in U /\ \A j \in U : Min(U) <= j
      <4>1. U \subseteq Nat
        OBVIOUS
      <4> HIDE DEF U
      <4> QED BY <3>3, <4>1, LeastNumber
    <3>5. PICK k \in T : k > i /\ \A j \in T : j > i => k <= j
      BY <3>4
    <3>6. upto(k) = upto(i) \cup {k} /\ k \notin upto(i)
      <4>1. ~(k <= i) /\ k <= k /\ \A j \in T : j <= i => j <= k
        BY <1>0, <3>5
      <4>2. \A j \in T : j <= k => j <= i \/ j = k
        BY <1>0, <3>5
      <4> QED BY <3>5, <4>1, <4>2
    <3> HIDE DEF upto
    <3>7. Cardinality(upto(k)) = Cardinality(upto(i)) + 1
      BY <1>2, <3>6, FS_AddElement
    <3> QED BY <2>3, <3>2, <3>5, <3>7
  <2> QED BY <2>4, <2>5
<1>4. \E i \in T : Cardinality(upto(i)) = n
  BY <1>3
<1> QED BY <1>4 DEF Nth

\* The rows of the list are names that match, in whatever number.
LEMMA MatchesType ==
    ASSUME NEW p
    PROVE  /\ Matches(p) \in Seq(DOMAIN Names)
           /\ \A i \in Range(Matches(p)) : i \in DOMAIN Names /\ Fuzzy(Names[i], p)
           /\ \A i \in DOMAIN Matches(p) : Fuzzy(Names[Matches(p)[i]], p)
<1> DEFINE found == {i \in DOMAIN Names : Fuzzy(Names[i], p)}
           c == Cardinality(found)
<1>1. DOMAIN Names = 1..Len(Names) /\ Len(Names) \in Nat
  BY NamesAssumption
<1>2. found \subseteq Nat /\ IsFiniteSet(found)
  <2>1. IsFiniteSet(1..Len(Names))
    BY <1>1, FS_Interval
  <2>2. found \in SUBSET (1..Len(Names))
    BY <1>1
  <2> QED BY <2>1, <2>2, FS_Subset
<1>3. c \in Nat
  BY <1>2, FS_CardinalityType
<1>4. Matches(p) = [n \in 1..c |-> Nth(found, n)]
  BY DEF Matches
<1> HIDE DEF c
<1>5. \A n \in 1..c : Nth(found, n) \in found
  BY <1>2, NthType DEF c
<1>6. DOMAIN Matches(p) = 1..c /\ \A n \in 1..c : Matches(p)[n] \in found
  BY <1>4, <1>5
<1>7. Matches(p) \in Seq(DOMAIN Names)
  BY <1>3, <1>4, <1>5
<1> QED BY <1>6, <1>7 DEF Range

(***************************************************************************)
(* The window.                                                             *)
(***************************************************************************)
\* What is shown is what matches, unless a change is still to be delivered; the
\* list has no field but the query; and the focus is where it can be seen.
Shown == open /\ ~event => filtered = Matches(content)
Inv ==
    /\ FieldInv
    /\ TypeOK
    /\ mode = "list" => field = "name"
    /\ Shown
    /\ FocusIsShown

\* The window stays, and the focus where it may be.
LEMMA WindowStays ==
    ASSUME Inv, FieldInv', UNCHANGED <<mode, filtered, selected, open, sent>>,
           event' = TRUE \/ (content' = content /\ event' = event),
           field' \in Field, mode = "list" => field' = "name",
           field' \in {"repo", "branch"} => IsNew(content') \/ misled'
    PROVE  Inv'
<1>1. TypeOK'
  BY DEF Inv, TypeOK, FieldInv
<1>2. Shown'
  BY DEF Inv, Shown
<1>3. FocusIsShown'
  BY DEF FocusIsShown, IsNew
<1> QED BY <1>1, <1>2, <1>3 DEF Inv

\* The window goes.
LEMMA SendKeeps ==
    ASSUME Inv, Ready, NEW messages \in Seq([kind : Kind, name : Text]), Send(messages)
    PROVE  Inv'
<1>1. /\ sent' = messages /\ open' = FALSE
      /\ content' = <<>> /\ sel'.start = 0 /\ sel'.end = 0 /\ reversed' = FALSE /\ marked' = None
      /\ painted' = None /\ selecting' = FALSE /\ event' = event /\ panicked' = panicked /\ misled' = misled
      /\ filtered' = <<>> /\ selected' = 0 /\ field' = "name" /\ mode' = mode
  BY DEF Send, Span
<1>2. {reversed', selecting', event', panicked', misled'} \subseteq BOOLEAN
  BY <1>1 DEF Inv, FieldInv, InputTypeOK
<1>3. sel'.start \in Nat /\ sel'.end \in Nat /\ sel'.start <= sel'.end
  BY <1>1
<1>4. content' \in Text /\ Offsets(content') = {0}
  BY <1>1, EmptyKeeps
<1>5. InputTypeOK'
  BY <1>1, <1>2, <1>3, <1>4, Zenon DEF InputTypeOK
<1>6. FieldInv'
  BY <1>1, <1>4, <1>5 DEF FieldInv, Ready, Offsets
<1>7. filtered' \in Seq(DOMAIN Names) /\ selected' \in Nat
  BY <1>1
<1>8. TypeOK'
  BY <1>1, <1>5, <1>7 DEF TypeOK, Inv, Field
<1> QED BY <1>1, <1>6, <1>8 DEF Inv, Shown, FocusIsShown

\* The row that is selected is of a name.
LEMMA ChosenType ==
    ASSUME Inv, filtered # <<>>
    PROVE  /\ Chosen \in Text
           /\ Ready => Fuzzy(Chosen, content)
<1>1. /\ filtered \in Seq(DOMAIN Names) /\ selected \in Nat /\ selected < Len(filtered)
  BY DEF Inv, TypeOK
<1>2. selected + 1 \in DOMAIN filtered /\ filtered[selected + 1] \in DOMAIN Names
  BY <1>1
<1>3. Chosen \in Text
  BY <1>2, NamesAssumption DEF Chosen
<1>4. ASSUME Ready PROVE Fuzzy(Chosen, content)
  <2>1. filtered = Matches(content)
    BY <1>4 DEF Ready, Inv, Shown
  <2> QED BY <1>2, <2>1, MatchesType DEF Chosen
<1> QED BY <1>3, <1>4

\* A window that was just opened shows all names.
LEMMA InitKeeps == Init => Inv
<1> SUFFICES ASSUME Init PROVE Inv
  OBVIOUS
<1>1. FieldInv
  BY EmptyKeeps DEF Init
<1>2. filtered \in Seq(DOMAIN Names) /\ filtered = Matches(<<>>) /\ content = <<>>
  BY MatchesType DEF Init, InputInit
<1>3. filtered # <<>> => 0 < Len(filtered)
  BY <1>2
<1>4. sent = <<>> /\ sent \in Seq([kind : Kind, name : Text])
  BY DEF Init
<1> QED BY <1>1, <1>2, <1>3, <1>4 DEF Init, Inv, TypeOK, FieldInv, Shown, FocusIsShown, Field

\* The event is delivered: the list shows what matches the text now, from its
\* first row on.
LEMMA FilterKeeps ==
    ASSUME Inv, Filter
    PROVE  Inv'
<1>1. /\ event' = FALSE /\ filtered' = Matches(content) /\ selected' = 0
      /\ UNCHANGED <<content, sel, reversed, marked, painted, selecting, panicked, misled>>
      /\ UNCHANGED <<mode, field, open, sent>>
  BY DEF Filter, SelectedAfter
<1>2. FieldInv'
  BY <1>1 DEF Inv, FieldInv, InputTypeOK, Offsets
<1>3. filtered' \in Seq(DOMAIN Names)
  BY <1>1, MatchesType
<1>4. filtered' # <<>> => 0 < Len(filtered')
  BY <1>3
<1>5. TypeOK'
  BY <1>1, <1>2, <1>3, <1>4 DEF Inv, TypeOK, FieldInv
<1> QED BY <1>1, <1>2, <1>5 DEF Inv, Shown, FocusIsShown, IsNew

\* Keys go to the field that has the focus.
LEMMA EditKeeps ==
    ASSUME Inv, Edit
    PROVE  Inv'
<1>1. FieldInv' /\ (event' = TRUE \/ (content' = content /\ event' = event))
  BY KeyKeeps DEF Edit, Ready, Inv
<1>2. UNCHANGED <<mode, filtered, selected, field, open, sent>>
  BY DEF Edit, pickerVars
<1>3. field \notin {"repo", "branch"} /\ field \in Field
  BY DEF Edit, HasFocus, Inv, TypeOK
<1> QED BY <1>1, <1>2, <1>3, WindowStays DEF Inv

\* A click may give the project's field the focus; the text stays.
LEMMA ClickKeeps ==
    ASSUME Inv, Click
    PROVE  Inv'
<1>1. FieldInv' /\ content' = content /\ event' = event
  BY MouseKeeps DEF Click, Ready, Inv
<1>2. /\ UNCHANGED <<mode, filtered, selected, open, sent>>
      /\ field' = field \/ (field' = "project" /\ mode = "form")
  BY DEF Click
<1>3. field' \in Field
  BY <1>2 DEF Inv, TypeOK, Field
<1>4. field' \in {"repo", "branch"} => IsNew(content')
  BY <1>1, <1>2 DEF Inv, FocusIsShown, Click, Ready
<1> QED BY <1>1, <1>2, <1>3, <1>4, WindowStays DEF Inv

\* A window is painted without a panic.
LEMMA RepaintKeeps ==
    ASSUME Inv, Repaint
    PROVE  Inv'
<1>1. FieldInv' /\ content' = content /\ event' = event /\ misled' = misled
  BY PaintKeeps DEF Repaint, Ready, Inv
<1>2. UNCHANGED <<mode, filtered, selected, field, open, sent>>
  BY DEF Repaint, pickerVars
<1> QED BY <1>1, <1>2, WindowStays DEF Inv, TypeOK, FocusIsShown

\* A field that was painted is gone only if the text is another one by now.
LEMMA ClickFieldKeeps ==
    ASSUME Inv, NEW f \in Field, ClickField(f)
    PROVE  Inv'
<1>1. /\ mode = "form" /\ painted \in Text /\ ~misled
      /\ f \in {"repo", "branch"} => IsNew(painted)
      /\ field' = f /\ misled' = (misled \/ painted # content)
      /\ UNCHANGED <<content, sel, reversed, marked, painted, selecting, event, panicked>>
      /\ UNCHANGED <<mode, filtered, selected, open, sent>>
  BY DEF ClickField, OnPainted, Ready, Inv, FieldInv, InputTypeOK
<1>2. FieldInv'
  BY <1>1 DEF Inv, FieldInv, InputTypeOK, Offsets
<1>3. field' \in {"repo", "branch"} => IsNew(content') \/ misled'
  BY <1>1 DEF Inv, FieldInv, InputTypeOK
<1> QED BY <1>1, <1>2, <1>3, WindowStays

\* A workspace that a message names matches, unless an old row is clicked.
Honest(m) ==
    m.kind \in {"open", "stop", "destroy"} =>
        Fuzzy(m.name, content) \/ (ClickRow /\ painted # content)

\* A step that sends nothing, or only what is so.
Sends == sent' = sent \/ \A i \in DOMAIN sent' : Honest(sent'[i])

\* A window that sends some messages and goes.
LEMMA SendOne ==
    ASSUME Inv, Ready, NEW m \in [kind : Kind, name : Text], Honest(m), Send(<<m>>)
    PROVE  Inv' /\ Sends
<1>1. <<m>> \in Seq([kind : Kind, name : Text])
  OBVIOUS
<1>2. sent' = <<m>>
  BY DEF Send
<1>3. \A i \in DOMAIN sent' : sent'[i] = m
  BY <1>2
<1> QED BY <1>1, <1>3, SendKeeps DEF Sends

\* The row is clicked after its stop button was.
LEMMA SendTwo ==
    ASSUME Inv, Ready, NEW l \in [kind : Kind, name : Text], NEW m \in [kind : Kind, name : Text],
           Honest(l), Honest(m), Send(<<l, m>>)
    PROVE  Inv' /\ Sends
<1>1. <<l, m>> \in Seq([kind : Kind, name : Text])
  OBVIOUS
<1>2. sent' = <<l, m>>
  BY DEF Send
<1>3. \A i \in DOMAIN sent' : sent'[i] \in {l, m}
  BY <1>2
<1> QED BY <1>1, <1>3, SendKeeps DEF Sends

\* The window goes without a word.
LEMMA SendNothing ==
    ASSUME Inv, Ready, Send(<<>>)
    PROVE  Inv' /\ Sends
<1>1. <<>> \in Seq([kind : Kind, name : Text])
  OBVIOUS
<1>2. sent' = <<>>
  BY DEF Send
<1>3. DOMAIN sent' = {}
  BY <1>2
<1>4. Inv'
  BY <1>1, SendKeeps
<1> QED BY <1>3, <1>4 DEF Sends

\* A message has its kind and its name.
LEMMA MessageType ==
    \A kind \in Kind, name \in Text :
        /\ Message(kind, name) \in [kind : Kind, name : Text]
        /\ Message(kind, name).kind = kind /\ Message(kind, name).name = name
  BY DEF Message

\* The form is sent for the project that is written there.
LEMMA SubmitKeeps ==
    ASSUME Inv, Ready, Submit
    PROVE  Inv' /\ Sends
<1> DEFINE kind == IF IsNew(content) THEN "new" ELSE "existing"
           m == Message(kind, content)
<1>1. content \in Text /\ kind \in Kind /\ kind \in {"existing", "new"} /\ (kind = "new" <=> IsNew(content))
  BY DEF Inv, FieldInv, InputTypeOK, Kind
<1>2. Send(<<m>>)
  BY DEF Submit
<1> HIDE DEF kind
<1>3. m \in [kind : Kind, name : Text] /\ m.kind = kind /\ m.name = content
  BY <1>1, MessageType
<1> HIDE DEF m
<1>4. Honest(m)
  BY <1>1, <1>3 DEF Honest
<1> QED BY <1>2, <1>3, <1>4, SendOne

\* The focus goes to a field that is shown for the text there is.
LEMMA FocusKeeps ==
    ASSUME Inv, Ready, mode = "form", NEW f \in Field, Focus(f),
           f \in {"repo", "branch"} => IsNew(content)
    PROVE  Inv' /\ Sends
<1>1. field' = f /\ UNCHANGED inputVars /\ UNCHANGED <<mode, filtered, selected, open, sent>>
  BY DEF Focus
<1>2. FieldInv' /\ content' = content /\ event' = event /\ misled' = misled
  BY <1>1 DEF Inv, FieldInv, InputTypeOK, inputVars, Offsets
<1> QED BY <1>1, <1>2, WindowStays DEF Sends

\* Where tab, shift-tab and an incomplete form lead is shown.
LEMMA FieldsType ==
    ASSUME Inv, Ready
    PROVE  /\ \A p : NextField(p) \in Field
           /\ field = "project" => \A p : NextField(p) \in {"repo", "branch"} => IsNew(p)
           /\ NextField(content) \in {"repo", "branch"} => IsNew(content)
           /\ PrevField \in Field /\ (PrevField \in {"repo", "branch"} => IsNew(content))
           /\ Missing \subseteq Field /\ \A f \in Missing : f \in {"repo", "branch"} => IsNew(content)
<1>1. field \in Field /\ (field \in {"repo", "branch"} => IsNew(content))
  BY DEF Inv, TypeOK, FocusIsShown, Ready
<1> QED BY <1>1 DEF NextField, PrevField, Missing, Field

\* Enter in the form: the selected project, the form itself, or what is missing.
LEMMA ConfirmFormKeeps ==
    ASSUME Inv, ConfirmForm
    PROVE  Inv' /\ Sends
<1>1. Ready /\ mode = "form" /\ ~misled
  BY DEF ConfirmForm, Ready
<1>2. CASE /\ field = "project" /\ filtered # <<>>
           /\ SetValue(Chosen) /\ field' = NextField(Chosen)
           /\ UNCHANGED <<mode, filtered, selected, open, sent>>
  <2>1. FieldInv' /\ content' = Chosen /\ event' = TRUE
    BY <1>1, <1>2, ChosenType, SetValueKeeps DEF Inv
  <2>2. field' \in Field /\ (field' \in {"repo", "branch"} => IsNew(content'))
    BY <1>1, <1>2, <2>1, FieldsType
  <2> QED BY <1>1, <1>2, <2>1, <2>2, WindowStays DEF Sends
<1>3. CASE Submit
  BY <1>1, <1>3, SubmitKeeps
<1>4. CASE \E f \in Missing : Focus(f)
  BY <1>1, <1>4, FieldsType, FocusKeeps
<1> QED BY <1>2, <1>3, <1>4 DEF ConfirmForm

\* A click on a project puts it in, and goes on to the name.
LEMMA ClickProjectKeeps ==
    ASSUME Inv, ClickProject
    PROVE  Inv' /\ Sends
<1>1. /\ mode = "form" /\ Ready /\ ~misled /\ field' = "name"
      /\ UNCHANGED <<mode, filtered, selected, open, sent>>
  BY DEF ClickProject, OnPainted, Ready
<1>2. PICK i \in Range(Matches(painted)) : SetValue(Names[i])
  BY DEF ClickProject
<1>3. Names[i] \in Text
  BY MatchesType, NamesAssumption
<1>4. FieldInv' /\ event' = TRUE
  BY <1>1, <1>2, <1>3, SetValueKeeps DEF Inv
<1> QED BY <1>1, <1>4, WindowStays DEF Sends, Field

\* Tab and shift-tab go round the fields that are shown.
LEMMA TabKeeps ==
    ASSUME Inv, Tab \/ TabBack
    PROVE  Inv' /\ Sends
<1>1. Ready /\ mode = "form"
  BY DEF Tab, TabBack
<1> QED BY <1>1, FieldsType, FocusKeeps DEF Tab, TabBack

\* Down and up stay on the list, around the end.
LEMMA StepKeeps ==
    ASSUME Inv, NEW n \in Nat, Step(n)
    PROVE  Inv' /\ Sends
<1>1. /\ filtered # <<>> /\ selected' = (selected + n) % Len(filtered)
      /\ UNCHANGED inputVars /\ UNCHANGED <<mode, filtered, field, open, sent>>
  BY DEF Step
<1>2. selected + n \in Nat /\ Len(filtered) \in Nat /\ Len(filtered) > 0
  BY <1>1 DEF Inv, TypeOK
<1>3. selected' \in Nat /\ selected' < Len(filtered)
  BY <1>1, <1>2
<1>4. FieldInv' /\ content' = content /\ event' = event /\ misled' = misled
  BY <1>1 DEF Inv, FieldInv, InputTypeOK, inputVars, Offsets
<1>5. TypeOK'
  BY <1>1, <1>3, <1>4 DEF Inv, TypeOK, FieldInv
<1> QED BY <1>1, <1>4, <1>5 DEF Inv, Shown, FocusIsShown, IsNew, Sends

\* What is chosen by a key matches.
LEMMA ChooseKeeps ==
    ASSUME Inv, NEW kind \in {"open", "destroy"}, Choose(kind)
    PROVE  Inv' /\ Sends
<1>1. Ready
  BY DEF Choose
<1>2. CASE filtered # <<>> /\ Send(<<Message(kind, Chosen)>>)
  <2> DEFINE m == Message(kind, Chosen)
  <2>1. Chosen \in Text /\ Fuzzy(Chosen, content)
    BY <1>1, <1>2, ChosenType
  <2>2. m \in [kind : Kind, name : Text] /\ m.kind = kind /\ m.name = Chosen
    BY <2>1, MessageType DEF Kind
  <2>3. Send(<<m>>)
    BY <1>2
  <2> HIDE DEF m
  <2>4. Honest(m)
    BY <2>1, <2>2 DEF Honest
  <2> QED BY <1>1, <2>2, <2>3, <2>4, SendOne
<1>3. CASE Send(<<>>)
  BY <1>1, <1>3, SendNothing
<1> QED BY <1>2, <1>3 DEF Choose

\* What is clicked matched when it was painted.
LEMMA ClickRowKeeps ==
    ASSUME Inv, ClickRow
    PROVE  Inv' /\ Sends
<1>1. Ready
  BY DEF ClickRow, OnPainted
<1>2. PICK i \in Range(Matches(painted)) :
          \/ Send(<<Message("open", Names[i])>>)
          \/ i \in Active /\ Send(<<Message("stop", Names[i]), Message("open", Names[i])>>)
  BY DEF ClickRow
<1>3. Names[i] \in Text /\ Fuzzy(Names[i], painted)
  BY MatchesType, NamesAssumption
<1> DEFINE o == Message("open", Names[i])
           s == Message("stop", Names[i])
<1>4. /\ o \in [kind : Kind, name : Text] /\ o.kind = "open" /\ o.name = Names[i]
      /\ s \in [kind : Kind, name : Text] /\ s.kind = "stop" /\ s.name = Names[i]
  BY <1>3, MessageType DEF Kind
<1>5. Send(<<o>>) \/ Send(<<s, o>>)
  BY <1>2
<1> HIDE DEF o, s
<1>6. Honest(o) /\ Honest(s)
  BY <1>3, <1>4 DEF Honest
<1> QED BY <1>1, <1>4, <1>5, <1>6, SendOne, SendTwo

\* Asking for the form names nothing.
LEMMA OpenCreateKeeps ==
    ASSUME Inv, OpenCreate
    PROVE  Inv' /\ Sends
<1> DEFINE m == Message("create", <<>>)
<1>1. Ready /\ Send(<<m>>)
  BY DEF OpenCreate
<1>2. m \in [kind : Kind, name : Text] /\ m.kind = "create"
  BY EmptyKeeps, MessageType DEF Kind
<1> HIDE DEF m
<1>3. Honest(m)
  BY <1>2 DEF Honest
<1> QED BY <1>1, <1>2, <1>3, SendOne

\* Every action keeps the invariant, and sends nothing that is not so.
LEMMA NextKeeps == Inv /\ [Next]_vars => Inv' /\ Sends
<1> SUFFICES ASSUME Inv, [Next]_vars PROVE Inv' /\ Sends
  OBVIOUS
<1>1. CASE Filter
  BY <1>1, FilterKeeps DEF Filter, Sends
<1>2. CASE Edit \/ Repaint
  BY <1>2, EditKeeps, RepaintKeeps DEF Edit, Repaint, pickerVars, Sends
<1>3. CASE Click
  BY <1>3, ClickKeeps DEF Click, Sends
<1>4. CASE \E f \in Field : ClickField(f)
  BY <1>4, ClickFieldKeeps DEF ClickField, Sends
<1>5. CASE ConfirmForm \/ ClickProject \/ Tab \/ TabBack \/ ClickRow \/ OpenCreate
  BY <1>5, ConfirmFormKeeps, ClickProjectKeeps, TabKeeps, ClickRowKeeps, OpenCreateKeeps
<1>6. CASE CreateButton
  BY <1>6, SubmitKeeps DEF CreateButton
<1>7. CASE Down
  BY <1>7, StepKeeps DEF Down
<1>8. CASE Up
  <2>1. Len(filtered) - 1 \in Nat
    BY <1>8 DEF Up, Inv, TypeOK
  <2> QED BY <1>8, <2>1, StepKeeps DEF Up
<1>9. CASE Choose("open") \/ Choose("destroy")
  BY <1>9, ChooseKeeps
<1>10. CASE Cancel
  BY <1>10, SendNothing DEF Cancel
<1>11. CASE UNCHANGED vars
  <2>1. /\ UNCHANGED <<content, sel, reversed, marked, painted, selecting, event, panicked, misled>>
        /\ UNCHANGED <<mode, filtered, selected, field, open, sent>>
    BY <1>11 DEF vars, inputVars, pickerVars
  <2>2. FieldInv'
    BY <2>1 DEF Inv, FieldInv, InputTypeOK, Offsets
  <2> QED BY <2>1, <2>2, WindowStays DEF Inv, TypeOK, FocusIsShown, Sends
<1> QED BY <1>1, <1>2, <1>3, <1>4, <1>5, <1>6, <1>7, <1>8, <1>9, <1>10, <1>11 DEF Next

\* Inv is an invariant.
LEMMA Invariant == Spec => []Inv
<1>1. Inv /\ [Next]_vars => Inv'
  BY NextKeeps
<1> QED BY <1>1, InitKeeps, PTL DEF Spec

(***************************************************************************)
(* The theorems.                                                           *)
(***************************************************************************)
\* The list never has its selected row beyond its end, and a marked range can
\* always be sliced out of the text.
THEOREM TypeCorrect == Spec => []TypeOK
<1>1. Inv => TypeOK
  BY DEF Inv
<1> QED BY <1>1, Invariant, PTL

\* The window does not take the daemon down, whatever is typed, clicked, pasted
\* and composed, in texts of any length: but for an input method that asks for a
\* selection, and a click on a line that is not painted again yet.
THEOREM FieldNeverPanics == Spec => []NoPanic
<1>1. Inv => NoPanic
  BY DEF Inv, FieldInv, NoPanic
<1> QED BY <1>1, Invariant, PTL

\* No field that is not there has the focus.
THEOREM FocusStaysShown == Spec => []FocusIsShown
<1>1. Inv => FocusIsShown
  BY DEF Inv
<1> QED BY <1>1, Invariant, PTL

\* What a key sends matches what is written, painted or not.
THEOREM SentMatches == Spec => SendsWhatMatches
<1> DEFINE A == \A i \in DOMAIN sent' : sent'[i].kind \in {"open", "stop", "destroy"} =>
                   Fuzzy(sent'[i].name, content) \/ (ClickRow /\ painted # content)
<1>1. Inv /\ [Next]_vars => [A]_sent
  BY NextKeeps DEF Sends, Honest
<1> HIDE DEF A
<1>2. Spec => [][A]_sent
  BY <1>1, Invariant, PTL DEF Spec
<1> QED BY <1>2 DEF SendsWhatMatches, A
=============================================================================
