---------------------------- MODULE Lines_proofs ----------------------------
(***************************************************************************)
(* Theorems of Lines: commands consist of the tokens their lines say, no   *)
(* part of a command is executed, commands are executed once and in order, *)
(* and a script's all of them, whatever and however many the lines.        *)
(***************************************************************************)
EXTENDS Lines, Integers, FiniteInduction, TLAPS

-----------------------------------------------------------------------------
(* What rstrip and consume_line_continuation do to a text, position by       *)
(* position.                                                                 *)

\* The character at i continues the line: only blanks follow it.
Final(text, i) ==
  /\ i \in 1..Len(text) /\ text[i] = Backslash
  /\ \A j \in (i + 1)..Len(text) : text[j] \in Blanks

LEMMA NoBlank == Backslash \notin Blanks /\ Blank # Backslash
BY DEF Backslash, Blanks, Blank, Return

LEMMA StrippedAt ==
  ASSUME NEW text \in Seq(Chars)
  PROVE  \E n \in 0..Len(text) :
           /\ Stripped(text) = SubSeq(text, 1, n)
           /\ n # 0 => text[n] \notin Blanks
           /\ \A j \in (n + 1)..Len(text) : text[j] \in Blanks
<1> DEFINE S == {0} \union {i \in DOMAIN text : text[i] \notin Blanks}
<1>1. S \subseteq 0..Len(text) /\ S # {} /\ S \subseteq Int
  OBVIOUS
<1>2. IsFiniteSet(S)
  <2>1. IsFiniteSet(0..Len(text))
    BY FS_Interval
  <2> HIDE DEF S
  <2> QED BY <1>1, <2>1, SubsetOfFinite
<1>3. \E x \in S : \A y \in S : x >= y
  <2>1. PICK x \in S : \A y \in S : y <= x
    <3> HIDE DEF S
    <3> QED BY <1>1, <1>2, GreatestElement
  <2>2. \A y \in S : x >= y
    BY <1>1, <2>1
  <2> QED BY <2>2
<1> DEFINE n == Max(S)
<1>4. n \in S /\ \A y \in S : n >= y
  BY <1>3 DEF Max
<1>5. Stripped(text) = SubSeq(text, 1, n)
  BY DEF Stripped
<1> HIDE DEF n
<1>6. \A j \in (n + 1)..Len(text) : text[j] \in Blanks
  <2>1. TAKE j \in (n + 1)..Len(text)
  <2>2. n \in Nat /\ j \in DOMAIN text /\ ~(n >= j)
    BY <1>1, <1>4
  <2> QED BY <1>4, <2>2
<1>7. n \in 0..Len(text) /\ (n # 0 => text[n] \notin Blanks)
  BY <1>1, <1>4
<1> QED BY <1>5, <1>6, <1>7

LEMMA ContinuesAt ==
  ASSUME NEW text \in Seq(Chars)
  PROVE  Continues(text) <=> \E i \in 1..Len(text) : Final(text, i)
<1>1. PICK n \in 0..Len(text) :
        /\ Stripped(text) = SubSeq(text, 1, n)
        /\ n # 0 => text[n] \notin Blanks
        /\ \A j \in (n + 1)..Len(text) : text[j] \in Blanks
  BY StrippedAt
<1>2. CASE n = 0
  <2>1. Stripped(text) = <<>>
    BY <1>1, <1>2
  <2>2. ~Continues(text)
    BY <2>1 DEF Continues
  <2>3. \A i \in 1..Len(text) : ~Final(text, i)
    BY <1>1, <1>2, NoBlank DEF Final
  <2> QED BY <2>2, <2>3
<1>3. CASE n # 0
  <2>1. Len(SubSeq(text, 1, n)) = n /\ SubSeq(text, 1, n)[n] = text[n] /\ n \in 1..Len(text)
    BY <1>3
  <2>2. Stripped(text) # <<>> /\ Last(Stripped(text)) = text[n]
    BY <1>1, <1>3, <2>1 DEF Last
  <2>3. Continues(text) <=> text[n] = Backslash
    BY <2>2 DEF Continues
  <2>4. text[n] = Backslash => Final(text, n)
    BY <1>1, <2>1 DEF Final
  <2>5. ASSUME NEW i \in 1..Len(text), Final(text, i) PROVE i = n
    <3>1. ~(i < n)
      <4>1. SUFFICES ASSUME i < n PROVE FALSE
        OBVIOUS
      <4>2. n \in (i + 1)..Len(text)
        BY <2>1, <4>1
      <4> QED BY <1>1, <1>3, <2>5, <4>2 DEF Final
    <3>2. ~(n < i)
      <4>1. SUFFICES ASSUME n < i PROVE FALSE
        OBVIOUS
      <4>2. i \in (n + 1)..Len(text)
        BY <2>1, <4>1
      <4>3. text[i] \in Blanks
        BY <1>1, <4>2
      <4> QED BY <2>5, <4>3, NoBlank DEF Final
    <3> QED BY <2>1, <3>1, <3>2
  <2>6. (\E i \in 1..Len(text) : Final(text, i)) => text[n] = Backslash
    BY <2>5 DEF Final
  <2> QED BY <2>1, <2>3, <2>4, <2>6
<1> QED BY <1>2, <1>3

\* rstrip leaves alone whether a line is continued.
LEMMA StrippedContinues ==
  ASSUME NEW text \in Seq(Chars)
  PROVE  Stripped(text) \in Seq(Chars) /\ (Continues(Stripped(text)) <=> Continues(text))
<1>1. PICK n \in 0..Len(text) :
        /\ Stripped(text) = SubSeq(text, 1, n)
        /\ n # 0 => text[n] \notin Blanks
        /\ \A j \in (n + 1)..Len(text) : text[j] \in Blanks
  BY StrippedAt
<1> DEFINE short == SubSeq(text, 1, n)
<1>2. short \in Seq(Chars) /\ Len(short) = n /\ \A i \in 1..n : short[i] = text[i]
  OBVIOUS
<1> HIDE DEF short
<1>3. ASSUME NEW i \in 1..Len(text), Final(text, i) PROVE Final(short, i)
  <2>1. ~(n < i)
    <3>1. SUFFICES ASSUME n < i PROVE FALSE
      OBVIOUS
    <3>2. i \in (n + 1)..Len(text)
      BY <3>1
    <3>3. text[i] \in Blanks
      BY <1>1, <3>2
    <3> QED BY <1>3, <3>3, NoBlank DEF Final
  <2>2. i \in 1..n
    BY <2>1
  <2>3. \A j \in (i + 1)..n : j \in (i + 1)..Len(text) /\ j \in 1..n
    OBVIOUS
  <2> QED BY <1>2, <1>3, <2>2, <2>3 DEF Final
<1>4. ASSUME NEW i \in 1..Len(short), Final(short, i) PROVE Final(text, i)
  <2>1. i \in 1..n /\ i \in 1..Len(text)
    BY <1>2
  <2>2. \A j \in (i + 1)..Len(text) : (j \in (i + 1)..n /\ j \in 1..n) \/ j \in (n + 1)..Len(text)
    BY <2>1
  <2>3. \A j \in (i + 1)..Len(text) : text[j] \in Blanks
    BY <1>1, <1>2, <1>4, <2>2 DEF Final
  <2> QED BY <1>2, <1>4, <2>1, <2>3 DEF Final
<1>5. Continues(short) <=> Continues(text)
  <2>1. Continues(text) <=> \E i \in 1..Len(text) : Final(text, i)
    BY ContinuesAt
  <2>2. Continues(short) <=> \E i \in 1..Len(short) : Final(short, i)
    BY <1>2, ContinuesAt
  <2>3. \A i : Final(text, i) => i \in 1..Len(text)
    BY DEF Final
  <2>4. \A i : Final(short, i) => i \in 1..Len(short)
    BY DEF Final
  <2> QED BY <1>3, <1>4, <2>1, <2>2, <2>3, <2>4
<1> QED BY <1>1, <1>2, <1>5 DEF short

\* What is left of a continued line is continued only if there was a second
\* backslash before the one that continues it.
LEMMA ConsumedAt ==
  ASSUME NEW text \in Seq(Chars), NEW i \in 1..Len(text), Final(text, i)
  PROVE  /\ Consumed(text) \in Seq(Chars)
         /\ Continues(Consumed(text)) <=> Continues(SubSeq(text, 1, i - 1))
<1>1. Continues(text)
  BY ContinuesAt
<1>2. PICK n \in 0..Len(text) :
        /\ Stripped(text) = SubSeq(text, 1, n)
        /\ n # 0 => text[n] \notin Blanks
        /\ \A j \in (n + 1)..Len(text) : text[j] \in Blanks
  BY StrippedAt
<1>3. n = i
  <2>1. ~(n < i)
    <3>1. SUFFICES ASSUME n < i PROVE FALSE
      OBVIOUS
    <3>2. i \in (n + 1)..Len(text)
      BY <3>1
    <3>3. text[i] \in Blanks
      BY <1>2, <3>2
    <3> QED BY <3>3, NoBlank DEF Final
  <2>2. ~(i < n)
    <3>1. SUFFICES ASSUME i < n PROVE FALSE
      OBVIOUS
    <3>2. n \in (i + 1)..Len(text) /\ n # 0
      BY <3>1
    <3> QED BY <1>2, <3>2 DEF Final
  <2> QED BY <2>1, <2>2
<1>4. Front(Stripped(text)) = SubSeq(text, 1, i - 1)
  <2>1. Front(SubSeq(text, 1, i)) = SubSeq(text, 1, i - 1)
    BY DEF Front
  <2> QED BY <1>2, <1>3, <2>1
<1>5. Consumed(text) = Stripped(SubSeq(text, 1, i - 1))
  BY <1>1, <1>4 DEF Consumed
<1>6. SubSeq(text, 1, i - 1) \in Seq(Chars)
  OBVIOUS
<1> QED BY <1>5, <1>6, StrippedContinues

\* rstrip cuts behind the last character that is no blank.
LEMMA StrippedIs ==
  ASSUME NEW text \in Seq(Chars), NEW n \in 0..Len(text), n # 0 => text[n] \notin Blanks,
         \A j \in (n + 1)..Len(text) : text[j] \in Blanks
  PROVE  Stripped(text) = SubSeq(text, 1, n)
<1>1. PICK m \in 0..Len(text) : /\ Stripped(text) = SubSeq(text, 1, m)
                                /\ m # 0 => text[m] \notin Blanks
                                /\ \A j \in (m + 1)..Len(text) : text[j] \in Blanks
  BY StrippedAt
<1>2. ~(m < n)
  <2>1. m < n => n \in (m + 1)..Len(text) /\ n # 0
    OBVIOUS
  <2> QED BY <1>1, <2>1
<1>3. ~(n < m)
  <2>1. n < m => m \in (n + 1)..Len(text) /\ m # 0
    OBVIOUS
  <2> QED BY <1>1, <2>1
<1>4. m = n
  BY <1>2, <1>3
<1> QED BY <1>1, <1>4

LEMMA StrippedTwice ==
  ASSUME NEW text \in Seq(Chars)
  PROVE  Stripped(Stripped(text)) = Stripped(text)
<1>1. PICK n \in 0..Len(text) : /\ Stripped(text) = SubSeq(text, 1, n)
                                /\ n # 0 => text[n] \notin Blanks
  BY StrippedAt
<1> DEFINE s == SubSeq(text, 1, n)
<1>2. s \in Seq(Chars) /\ Len(s) = n /\ \A i \in 1..n : s[i] = text[i]
  OBVIOUS
<1>3. SubSeq(s, 1, n) = s
  BY <1>2
<1> HIDE DEF s
<1>4. n \in 0..Len(s) /\ (n # 0 => s[n] \notin Blanks)
  <2>1. n # 0 => n \in 1..n
    OBVIOUS
  <2> QED BY <1>1, <1>2, <2>1
<1>5. \A j \in (n + 1)..Len(s) : s[j] \in Blanks
  BY <1>2
<1>6. Stripped(s) = SubSeq(s, 1, n)
  BY <1>2, <1>4, <1>5, StrippedIs
<1> QED BY <1>1, <1>3, <1>6 DEF s

\* Texts with a blank between them.
Spaced(head, text) == Append(head, Blank) \o text

LEMMA SpacedAt ==
  ASSUME NEW head \in Seq(Chars), NEW text \in Seq(Chars)
  PROVE  /\ Spaced(head, text) \in Seq(Chars)
         /\ Len(Spaced(head, text)) = Len(head) + 1 + Len(text)
         /\ \A i \in 1..Len(head) : Spaced(head, text)[i] = head[i]
         /\ Spaced(head, text)[Len(head) + 1] = Blank
         /\ \A i \in 1..Len(text) : Spaced(head, text)[Len(head) + 1 + i] = text[i]
BY DEF Spaced, Chars, Blanks

\* rstrip of two texts strips the second, and the first if the second is blank.
LEMMA StrippedSpaced ==
  ASSUME NEW head \in Seq(Chars), NEW text \in Seq(Chars), Stripped(head) = head
  PROVE  Stripped(Spaced(head, text)) =
           IF Stripped(text) = <<>> THEN head ELSE Spaced(head, Stripped(text))
<1> DEFINE both == Spaced(head, text)
           h == Len(head)
<1>1. /\ both \in Seq(Chars) /\ h \in Nat /\ Len(both) = h + 1 + Len(text)
      /\ \A i \in 1..h : both[i] = head[i]
      /\ both[h + 1] = Blank
      /\ \A i \in 1..Len(text) : both[h + 1 + i] = text[i]
  <2>1. h \in Nat
    OBVIOUS
  <2> QED BY <2>1, SpacedAt, Zenon
<1>2. PICK n \in 0..Len(text) : /\ Stripped(text) = SubSeq(text, 1, n)
                                /\ n # 0 => text[n] \notin Blanks
                                /\ \A j \in (n + 1)..Len(text) : text[j] \in Blanks
  BY StrippedAt
<1>3. h # 0 => head[h] \notin Blanks
  <2>1. PICK m \in 0..h : head = SubSeq(head, 1, m) /\ (m # 0 => head[m] \notin Blanks)
    BY StrippedAt
  <2>2. Len(SubSeq(head, 1, m)) = m
    OBVIOUS
  <2> QED BY <2>1, <2>2
<1> HIDE DEF both, h
<1>4. Blank \in Blanks
  BY DEF Blanks
<1>5. ASSUME NEW j \in (h + 1 + n + 1)..Len(both) PROVE both[j] \in Blanks
  <2> DEFINE i == j - (h + 1)
  <2>1. i \in (n + 1)..Len(text) /\ i \in 1..Len(text) /\ j = h + 1 + i
    BY <1>1
  <2> HIDE DEF i
  <2> QED BY <1>1, <1>2, <2>1
<1>6. CASE n = 0
  <2>1. Stripped(text) = <<>>
    BY <1>2, <1>6
  <2>2. h \in 0..Len(both) /\ (h # 0 => both[h] \notin Blanks)
    <3>1. h # 0 => h \in 1..h
      BY <1>1
    <3> QED BY <1>1, <1>3, <3>1
  <2>3. \A j \in (h + 1)..Len(both) : both[j] \in Blanks
    <3>1. \A j \in (h + 1)..Len(both) : j = h + 1 \/ j \in (h + 1 + n + 1)..Len(both)
      BY <1>1, <1>6
    <3> QED BY <1>1, <1>4, <1>5, <3>1
  <2>4. Stripped(both) = SubSeq(both, 1, h)
    BY <1>1, <2>2, <2>3, StrippedIs
  <2>5. SubSeq(both, 1, h) = head
    <3>1. SubSeq(both, 1, h) \in Seq(Chars) /\ Len(SubSeq(both, 1, h)) = h
          /\ \A i \in 1..h : SubSeq(both, 1, h)[i] = both[i]
      BY <1>1, <2>2
    <3> DEFINE l == SubSeq(both, 1, h)
    <3> HIDE DEF l
    <3>2. l \in Seq(Chars) /\ Len(l) = h /\ Len(head) = h /\ \A i \in 1..h : l[i] = head[i]
      BY <1>1, <3>1 DEF l, h
    <3>3. l = head
      BY <1>1, <3>2
    <3> QED BY <3>3 DEF l
  <2> QED BY <2>1, <2>4, <2>5 DEF both
<1>7. CASE n # 0
  <2> DEFINE s == SubSeq(text, 1, n)
             e == h + 1 + n
  <2>1. s \in Seq(Chars) /\ Len(s) = n /\ s # <<>> /\ \A i \in 1..n : s[i] = text[i]
    BY <1>7
  <2>2. n \in 1..Len(text) /\ e \in 0..Len(both)
    BY <1>1, <1>7
  <2>3. both[e] \notin Blanks
    BY <1>1, <1>2, <1>7, <2>2
  <2>4. Stripped(both) = SubSeq(both, 1, e)
    <3>1. \A j \in (e + 1)..Len(both) : both[j] \in Blanks
      BY <1>5
    <3> HIDE DEF e
    <3> QED BY <1>1, <2>2, <2>3, <3>1, StrippedIs
  <2> HIDE DEF s
  <2>5. /\ Spaced(head, s) \in Seq(Chars) /\ Len(Spaced(head, s)) = h + 1 + n
        /\ \A i \in 1..h : Spaced(head, s)[i] = head[i]
        /\ Spaced(head, s)[h + 1] = Blank
        /\ \A i \in 1..n : Spaced(head, s)[h + 1 + i] = s[i]
    BY <2>1, SpacedAt DEF h
  <2>6. \A i \in 1..e : Spaced(head, s)[i] = both[i]
    <3>1. TAKE i \in 1..e
    <3>2. CASE i \in 1..(h + 1)
      <4>1. i = h + 1 \/ i \in 1..h
        BY <1>1, <3>2
      <4> QED BY <1>1, <2>5, <4>1
    <3>3. CASE i \notin 1..(h + 1)
      <4> DEFINE k == i - (h + 1)
      <4>1. k \in 1..n /\ k \in 1..Len(text) /\ i = h + 1 + k
        BY <1>1, <3>3
      <4> HIDE DEF k
      <4> QED BY <1>1, <2>1, <2>5, <4>1
    <3> QED BY <3>2, <3>3
  <2>7. SubSeq(both, 1, e) = Spaced(head, s)
    <3>1. e \in Nat
      BY <2>2
    <3>2. /\ SubSeq(both, 1, e) \in Seq(Chars) /\ Len(SubSeq(both, 1, e)) = e
          /\ \A i \in 1..e : SubSeq(both, 1, e)[i] = both[i]
      BY <1>1, <2>2
    <3> DEFINE l == SubSeq(both, 1, e)
               r == Spaced(head, s)
    <3>3. l \in Seq(Chars) /\ Len(l) = e /\ r \in Seq(Chars) /\ Len(r) = e /\ \A i \in 1..e : l[i] = r[i]
      BY <2>5, <2>6, <3>2
    <3> HIDE DEF l, r, e
    <3>4. l = r
      BY <3>1, <3>3
    <3> QED BY <3>4 DEF l, r
  <2>8. Stripped(text) = s /\ s # <<>>
    BY <1>2, <2>1 DEF s
  <2> QED BY <2>4, <2>7, <2>8 DEF both
<1> QED BY <1>6, <1>7

\* What is left of a line is stripped.
LEMMA ConsumedStripped ==
  ASSUME NEW text \in Seq(Chars), Continues(text)
  PROVE  /\ Stripped(text) # <<>> /\ Front(Stripped(text)) \in Seq(Chars)
         /\ Consumed(text) = Stripped(Front(Stripped(text)))
         /\ Stripped(Consumed(text)) = Consumed(text)
<1>1. Stripped(text) \in Seq(Chars) /\ Stripped(text) # <<>>
  BY StrippedContinues DEF Continues
<1>2. Front(Stripped(text)) \in Seq(Chars)
  <2> DEFINE s == Stripped(text)
  <2>1. s \in Seq(Chars) /\ s # <<>>
    BY <1>1
  <2> HIDE DEF s
  <2>2. SubSeq(s, 1, Len(s) - 1) \in Seq(Chars)
    BY <2>1
  <2> QED BY <2>2 DEF Front, s
<1>3. Consumed(text) = Stripped(Front(Stripped(text)))
  BY DEF Consumed
<1> QED BY <1>1, <1>2, <1>3, StrippedTwice

\* A line loses its last character in its last part.
LEMMA FrontSpaced ==
  ASSUME NEW head \in Seq(Chars), NEW text \in Seq(Chars), text # <<>>
  PROVE  /\ Spaced(head, text) # <<>> /\ Last(Spaced(head, text)) = Last(text)
         /\ Front(Spaced(head, text)) = Spaced(head, Front(text))
<1> DEFINE both == Spaced(head, text)
           h == Len(head)
           n == Len(text)
           f == SubSeq(text, 1, n - 1)
<1>1. /\ both \in Seq(Chars) /\ h \in Nat /\ Len(both) = h + 1 + n
      /\ \A i \in 1..h : both[i] = head[i]
      /\ both[h + 1] = Blank
      /\ \A i \in 1..n : both[h + 1 + i] = text[i]
  <2>1. h \in Nat
    OBVIOUS
  <2> QED BY <2>1, SpacedAt, Zenon
<1>2. n \in Nat \ {0} /\ n \in 1..n
  OBVIOUS
<1>3. both # <<>> /\ Last(both) = Last(text)
  <2> HIDE DEF both
  <2> QED BY <1>1, <1>2 DEF Last
<1>4. f \in Seq(Chars) /\ Len(f) = n - 1 /\ \A i \in 1..(n - 1) : f[i] = text[i]
  <2> DEFINE m == n - 1
  <2>1. m \in 0..Len(text)
    BY <1>2
  <2> HIDE DEF m
  <2>2. SubSeq(text, 1, m) \in Seq(Chars) /\ Len(SubSeq(text, 1, m)) = m
        /\ \A i \in 1..m : SubSeq(text, 1, m)[i] = text[i]
    BY <2>1
  <2> QED BY <2>2 DEF m
<1>5. /\ Spaced(head, f) \in Seq(Chars) /\ Len(Spaced(head, f)) = h + 1 + Len(f)
      /\ \A i \in 1..h : Spaced(head, f)[i] = head[i]
      /\ Spaced(head, f)[h + 1] = Blank
      /\ \A i \in 1..Len(f) : Spaced(head, f)[h + 1 + i] = f[i]
  <2> HIDE DEF f
  <2> QED BY <1>4, SpacedAt
<1> DEFINE e == h + n
           l == SubSeq(both, 1, e)
           r == Spaced(head, f)
<1>6. e \in 0..Len(both) /\ Len(both) - 1 = e /\ h + 1 + (n - 1) = e
  <2> HIDE DEF both
  <2> QED BY <1>1, <1>2
<1>7. l \in Seq(Chars) /\ Len(l) = e /\ \A i \in 1..e : l[i] = both[i]
  <2> HIDE DEF both, e
  <2> QED BY <1>1, <1>6
<1> HIDE DEF f, both, l, r, e, h, n
<1>8. \A i \in 1..e : r[i] = both[i]
  <2>1. TAKE i \in 1..e
  <2>2. CASE i \in 1..(h + 1)
    <3>1. i = h + 1 \/ i \in 1..h
      BY <1>1, <2>2
    <3> QED BY <1>1, <1>5, <3>1 DEF r
  <2>3. CASE i \notin 1..(h + 1)
    <3> DEFINE k == i - (h + 1)
    <3>1. k \in 1..(n - 1) /\ k \in 1..n /\ k \in 1..Len(f) /\ i = h + 1 + k
      BY <1>1, <1>2, <1>4, <1>6, <2>3 DEF e
    <3> HIDE DEF k
    <3> QED BY <1>1, <1>4, <1>5, <3>1 DEF r
  <2> QED BY <2>2, <2>3
<1>9. l = r
  <2>1. r \in Seq(Chars) /\ Len(r) = e /\ e \in Nat
    BY <1>4, <1>5, <1>6 DEF r
  <2> QED BY <1>7, <1>8, <2>1
<1>10. Front(both) = l /\ Front(text) = f
  BY <1>6 DEF Front, l, f, n
<1> QED BY <1>3, <1>9, <1>10 DEF r, both

\* What is left of a joined line that is continued.
LEMMA ConsumedSpaced ==
  ASSUME NEW head \in Seq(Chars), NEW text \in Seq(Chars), Stripped(head) = head, Continues(text)
  PROVE  Consumed(Spaced(head, text)) =
           IF Consumed(text) = <<>> THEN head ELSE Spaced(head, Consumed(text))
<1> DEFINE s == Stripped(text)
           both == Spaced(head, text)
<1>1. s \in Seq(Chars) /\ s # <<>> /\ Last(s) = Backslash
  BY StrippedContinues DEF Continues
<1>2. Stripped(both) = Spaced(head, s)
  BY <1>1, StrippedSpaced
<1>3. Front(s) \in Seq(Chars) /\ Consumed(text) = Stripped(Front(s))
  BY ConsumedStripped
<1> HIDE DEF s, both
<1>4. /\ Stripped(both) # <<>> /\ Last(Stripped(both)) = Backslash
      /\ Front(Stripped(both)) = Spaced(head, Front(s))
  BY <1>1, <1>2, FrontSpaced
<1>5. Consumed(both) = Stripped(Spaced(head, Front(s)))
  BY <1>4 DEF Consumed, Continues
<1> QED BY <1>3, <1>5, StrippedSpaced DEF both

\* What a line holds, whether it is continued or not.
Held(text) == IF Continues(text) THEN Consumed(text) ELSE text

LEMMA ConsumedType ==
  ASSUME NEW text \in Seq(Chars)
  PROVE  Consumed(text) \in Seq(Chars)
<1>1. CASE Continues(text)
  <2>1. PICK i \in 1..Len(text) : Final(text, i)
    BY <1>1, ContinuesAt
  <2> QED BY <2>1, ConsumedAt
<1>2. CASE ~Continues(text)
  BY <1>2 DEF Consumed
<1> QED BY <1>1, <1>2

\* A line that is joined to what is complete is continued if it was by itself,
\* and has a second backslash if it had one by itself.
LEMMA JoinedToComplete ==
  ASSUME NEW head \in Seq(Chars), NEW text \in Seq(Chars), ~Continues(head)
  PROVE  /\ Joined(head, text) \in Seq(Chars)
         /\ Continues(Joined(head, text)) <=> Continues(text)
         /\ Continues(text) /\ ~Continues(Consumed(text)) => ~Continues(Consumed(Joined(head, text)))
<1>1. CASE head = <<>>
  BY <1>1 DEF Joined
<1>2. CASE head # <<>>
  <2> DEFINE both == Append(head, Blank) \o text
             k == Len(head) + 1
  <2>1. /\ both \in Seq(Chars) /\ k \in Nat /\ Len(both) = k + Len(text) /\ Len(head) = k - 1
        /\ \A i \in 1..Len(text) : both[k + i] = text[i]
        /\ \A i \in 1..(k - 1) : both[i] = head[i]
        /\ both[k] = Blank
    BY DEF Chars, Blanks
  <2>2. Joined(head, text) = both
    BY <1>2 DEF Joined
  <2> HIDE DEF both, k
  <2>3. \A i \in 1..(k - 1) : head[i] = Backslash => \E j \in (i + 1)..(k - 1) : head[j] \notin Blanks
    <3>1. TAKE i \in 1..(k - 1)
    <3>2. ~Final(head, i)
      BY <2>1, <3>1, ContinuesAt
    <3> QED BY <2>1, <3>1, <3>2 DEF Final
  \* A backslash of the joined line that only blanks separate from a place
  \* in its second part is itself in that part.
  <2>4. ASSUME NEW m \in k..Len(both), NEW i \in 1..m, both[i] = Backslash,
               \A j \in (i + 1)..m : both[j] \in Blanks
        PROVE  i > k
    <3>1. i # k
      BY <2>1, <2>4, NoBlank
    <3>2. ~(i < k)
      <4>1. SUFFICES ASSUME i < k PROVE FALSE
        OBVIOUS
      <4>2. i \in 1..(k - 1) /\ head[i] = Backslash
        BY <2>1, <2>4, <4>1
      <4>3. PICK j \in (i + 1)..(k - 1) : head[j] \notin Blanks
        BY <2>3, <4>2
      <4>4. j \in 1..(k - 1) /\ j \in (i + 1)..m
        BY <2>1, <4>2
      <4> QED BY <2>1, <2>4, <4>3, <4>4
    <3> QED BY <2>1, <3>1, <3>2
  <2>5. ASSUME NEW i \in 1..Len(text), Final(text, i) PROVE Final(both, k + i)
    <3>1. k + i \in 1..Len(both) /\ both[k + i] = Backslash
      BY <2>1, <2>5 DEF Final
    <3>2. \A j \in (k + i + 1)..Len(both) : both[j] \in Blanks
      <4>1. TAKE j \in (k + i + 1)..Len(both)
      <4>2. j - k \in (i + 1)..Len(text) /\ j - k \in 1..Len(text) /\ k + (j - k) = j
        BY <2>1
      <4>3. text[j - k] \in Blanks /\ both[k + (j - k)] = text[j - k]
        BY <2>1, <2>5, <4>2 DEF Final
      <4> QED BY <4>2, <4>3
    <3> QED BY <3>1, <3>2 DEF Final
  <2>6. ASSUME NEW i \in 1..Len(both), Final(both, i)
        PROVE  i - k \in 1..Len(text) /\ Final(text, i - k)
    <3>1. i > k
      <4>1. Len(both) \in k..Len(both)
        BY <2>1
      <4> QED BY <2>4, <2>6, <4>1 DEF Final
    <3>2. i - k \in 1..Len(text) /\ k + (i - k) = i
      BY <2>1, <3>1
    <3>3. text[i - k] = Backslash
      BY <2>1, <2>6, <3>2 DEF Final
    <3>4. \A j \in (i - k + 1)..Len(text) : text[j] \in Blanks
      <4>1. TAKE j \in (i - k + 1)..Len(text)
      <4>2. j \in 1..Len(text) /\ k + j \in (i + 1)..Len(both)
        BY <2>1, <3>2
      <4> QED BY <2>1, <2>6, <4>2 DEF Final
    <3> QED BY <3>2, <3>3, <3>4 DEF Final
  <2>7. Continues(both) <=> Continues(text)
    <3>1. Continues(text) <=> \E i \in 1..Len(text) : Final(text, i)
      BY ContinuesAt
    <3>2. Continues(both) <=> \E i \in 1..Len(both) : Final(both, i)
      BY <2>1, ContinuesAt
    <3>3. \A i \in 1..Len(text) : k + i \in 1..Len(both)
      BY <2>1
    <3> QED BY <2>5, <2>6, <3>1, <3>2, <3>3
  <2>8. ASSUME Continues(text), Continues(Consumed(both)) PROVE Continues(Consumed(text))
    <3>1. PICK i \in 1..Len(text) : Final(text, i)
      BY <2>8, ContinuesAt
    <3>2. k + i \in 1..Len(both) /\ Final(both, k + i)
      BY <2>1, <2>5, <3>1
    <3>3. Continues(SubSeq(both, 1, k + i - 1))
      BY <2>1, <2>8, <3>2, ConsumedAt
    <3> DEFINE before == SubSeq(both, 1, k + i - 1)
               own    == SubSeq(text, 1, i - 1)
    <3>4. /\ before \in Seq(Chars) /\ Len(before) = k + i - 1
          /\ \A j \in 1..(k + i - 1) : before[j] = both[j]
      BY <2>1, <3>2
    <3>5. own \in Seq(Chars) /\ Len(own) = i - 1 /\ \A j \in 1..(i - 1) : own[j] = text[j]
      OBVIOUS
    <3> HIDE DEF before, own
    <3>6. PICK m \in 1..Len(before) : Final(before, m)
      BY <3>3, <3>4, ContinuesAt DEF before
    <3>7. m > k
      <4>1. k + i - 1 \in k..Len(both) /\ m \in 1..(k + i - 1)
        BY <2>1, <3>2, <3>4
      <4>2. both[m] = Backslash /\ \A j \in (m + 1)..(k + i - 1) : both[j] \in Blanks
        <5>1. \A j \in (m + 1)..(k + i - 1) : j \in 1..(k + i - 1)
          BY <4>1
        <5> QED BY <3>4, <3>6, <4>1, <5>1 DEF Final
      <4> QED BY <2>4, <4>1, <4>2
    <3>8. m - k \in 1..(i - 1) /\ m - k \in 1..Len(text) /\ k + (m - k) = m /\ m \in 1..(k + i - 1)
      BY <2>1, <3>4, <3>7
    <3>9. own[m - k] = Backslash
      BY <2>1, <3>4, <3>5, <3>6, <3>8 DEF Final
    <3>10. \A j \in (m - k + 1)..(i - 1) : own[j] \in Blanks
      <4>1. TAKE j \in (m - k + 1)..(i - 1)
      <4>2. /\ j \in 1..(i - 1) /\ j \in 1..Len(text)
            /\ k + j \in (m + 1)..(k + i - 1) /\ k + j \in 1..(k + i - 1)
        BY <2>1, <3>8
      <4> QED BY <2>1, <3>4, <3>5, <3>6, <4>2 DEF Final
    <3>11. m - k \in 1..Len(own) /\ Final(own, m - k)
      BY <3>5, <3>8, <3>9, <3>10 DEF Final
    <3>12. Continues(own)
      BY <3>5, <3>11, ContinuesAt
    <3> QED BY <3>1, <3>12, ConsumedAt DEF own
  <2> QED BY <2>1, <2>2, <2>7, <2>8
<1> QED BY <1>1, <1>2

\* So it is if it is joined to what ends in a backslash, but is not blank.
LEMMA SpacedContinues ==
  ASSUME NEW head \in Seq(Chars), NEW text \in Seq(Chars), Stripped(head) = head,
         Stripped(text) # <<>>
  PROVE  Continues(Spaced(head, text)) <=> Continues(text)
<1>1. Stripped(text) \in Seq(Chars)
  BY StrippedContinues
<1>2. Stripped(Spaced(head, text)) = Spaced(head, Stripped(text))
  BY StrippedSpaced
<1>3. /\ Spaced(head, Stripped(text)) # <<>>
      /\ Last(Spaced(head, Stripped(text))) = Last(Stripped(text))
  BY <1>1, FrontSpaced
<1> QED BY <1>2, <1>3 DEF Continues

LEMMA JoinedToBackslash ==
  ASSUME NEW head \in Seq(Chars), NEW text \in Seq(Chars), Stripped(head) = head,
         Stripped(Held(text)) # <<>>
  PROVE  /\ Joined(head, text) \in Seq(Chars)
         /\ Continues(Joined(head, text)) <=> Continues(text)
         /\ Continues(text) /\ ~Continues(Consumed(text)) => ~Continues(Consumed(Joined(head, text)))
<1>1. CASE head = <<>>
  BY <1>1 DEF Joined
<1>2. CASE head # <<>>
  <2>1. Joined(head, text) = Spaced(head, text) /\ Spaced(head, text) \in Seq(Chars)
    BY <1>2, SpacedAt DEF Joined, Spaced
  <2>2. Stripped(text) # <<>>
    BY DEF Held, Continues
  <2>3. Continues(Spaced(head, text)) <=> Continues(text)
    BY <2>2, SpacedContinues
  <2>4. ASSUME Continues(text)
        PROVE  Continues(Consumed(Spaced(head, text))) <=> Continues(Consumed(text))
    <3>1. Stripped(Consumed(text)) # <<>> /\ Stripped(Consumed(text)) = Consumed(text)
      BY <2>4, ConsumedStripped DEF Held
    <3>2. Consumed(Spaced(head, text)) = Spaced(head, Consumed(text))
      BY <2>4, <3>1, ConsumedSpaced
    <3>3. Consumed(text) \in Seq(Chars)
      BY ConsumedType
    <3> QED BY <3>1, <3>2, <3>3, SpacedContinues
  <2> QED BY <2>1, <2>3, <2>4
<1> QED BY <1>1, <1>2

LEMMA JoinedContinues ==
  ASSUME NEW head \in Seq(Chars), NEW text \in Seq(Chars), Stripped(head) = head,
         Continues(head) => Stripped(Held(text)) # <<>>
  PROVE  /\ Joined(head, text) \in Seq(Chars)
         /\ Continues(Joined(head, text)) <=> Continues(text)
         /\ Continues(text) /\ ~Continues(Consumed(text)) => ~Continues(Consumed(Joined(head, text)))
<1>1. CASE Continues(head)
  BY <1>1, JoinedToBackslash
<1>2. CASE ~Continues(head)
  BY <1>2, JoinedToComplete
<1> QED BY <1>1, <1>2

\* A carriage return at the end is a blank.
LEMMA ChompedContinues ==
  ASSUME NEW text \in Seq(Chars)
  PROVE  Chomped(text) \in Seq(Chars) /\ (Continues(Chomped(text)) <=> Continues(text))
<1>1. CASE source = "script" /\ text # <<>> /\ Last(text) = Return
  <2> DEFINE short == SubSeq(text, 1, Len(text) - 1)
  <2>1. /\ short \in Seq(Chars) /\ Len(short) = Len(text) - 1 /\ Len(text) \in Nat
        /\ \A i \in 1..(Len(text) - 1) : short[i] = text[i]
    <3>1. text # <<>>
      BY <1>1
    <3> DEFINE n == Len(text) - 1
    <3>2. n \in 0..Len(text) /\ Len(text) \in Nat
      BY <3>1
    <3> HIDE DEF n
    <3>3. /\ SubSeq(text, 1, n) \in Seq(Chars) /\ Len(SubSeq(text, 1, n)) = n
          /\ \A i \in 1..n : SubSeq(text, 1, n)[i] = text[i]
      BY <3>2
    <3> QED BY <3>2, <3>3 DEF n
  <2>2. Chomped(text) = short /\ text[Len(text)] = Return
    BY <1>1 DEF Chomped, Front, Last
  <2> HIDE DEF short
  <2>3. \A i \in 1..Len(text) : Final(text, i) => i \in 1..Len(short) /\ Final(short, i)
    <3>1. TAKE i \in 1..Len(text)
    <3>2. SUFFICES ASSUME Final(text, i) PROVE i \in 1..Len(short) /\ Final(short, i)
      OBVIOUS
    <3>3. i # Len(text)
      BY <2>2, <3>2 DEF Final, Return, Backslash
    <3> QED BY <2>1, <3>2, <3>3 DEF Final
  <2>4. \A i \in 1..Len(short) : Final(short, i) => i \in 1..Len(text) /\ Final(text, i)
    <3>1. TAKE i \in 1..Len(short)
    <3>2. SUFFICES ASSUME Final(short, i) PROVE i \in 1..Len(text) /\ Final(text, i)
      OBVIOUS
    <3>3. \A j \in (i + 1)..Len(text) : j \in (i + 1)..Len(short) \/ j = Len(text)
      <4>1. i \in Nat /\ Len(short) = Len(text) - 1 /\ Len(text) \in Nat
        BY <2>1
      <4> QED BY <4>1
    <3>4. \A j \in (i + 1)..Len(text) : text[j] \in Blanks
      BY <2>1, <2>2, <3>2, <3>3 DEF Final, Blanks
    <3> QED BY <2>1, <3>2, <3>4 DEF Final
  <2>5. Continues(text) <=> \E i \in 1..Len(text) : Final(text, i)
    BY ContinuesAt
  <2>6. Continues(short) <=> \E i \in 1..Len(short) : Final(short, i)
    BY <2>1, ContinuesAt
  <2> QED BY <2>1, <2>2, <2>3, <2>4, <2>5, <2>6
<1>2. CASE ~(source = "script" /\ text # <<>> /\ Last(text) = Return)
  BY <1>2 DEF Chomped
<1> QED BY <1>1, <1>2

-----------------------------------------------------------------------------
(* The tokenizer.  Its state after n characters and what the positions up to *)
(* n say agree; an induction over n (Counting) shows it of the whole text.   *)

\* The variables of split_shell_like.
States == [tokens : Seq(Seq(Chars)), cur : Seq(Chars), inQuote : BOOLEAN, inToken : BOOLEAN,
           escaped : BOOLEAN]

LEMMA ScanType ==
  ASSUME NEW state \in States, NEW c \in Chars
  PROVE  Scan(state, c) \in States
<1>1. state.tokens \in Seq(Seq(Chars)) /\ state.cur \in Seq(Chars)
  BY DEF States
<1>2. Append(state.cur, c) \in Seq(Chars)
  BY <1>1
<1>3. Append(state.tokens, state.cur) \in Seq(Seq(Chars)) /\ <<>> \in Seq(Chars)
  BY <1>1
<1> QED BY <1>2, <1>3, Zenon DEF Scan, States

\* The tokenizer goes through the text one character at a time.
LEMMA ScannedAt ==
  ASSUME NEW text \in Seq(Chars)
  PROVE  /\ Scanned(text)[0] = Start
         /\ \A n \in 1..Len(text) : Scanned(text)[n] = Scan(Scanned(text)[n - 1], text[n])
         /\ \A n \in 0..Len(text) : Scanned(text)[n] \in States
<1> DEFINE step == [p \in Nat \X States |->
                      IF p[1] \in 1..Len(text) THEN Scan(p[2], text[p[1]]) ELSE p[2]]
           N == Len(text)
<1>1. N \in Nat /\ \A n \in 1..N : text[n] \in Chars
  OBVIOUS
<1>2. Start \in States
  <2>1. <<>> \in Seq(Chars) /\ <<>> \in Seq(Seq(Chars))
    OBVIOUS
  <2> QED BY <2>1, Zenon DEF Start, States
<1>3. step \in [Nat \X States -> States]
  <2>1. ASSUME NEW p \in Nat \X States
        PROVE  (IF p[1] \in 1..N THEN Scan(p[2], text[p[1]]) ELSE p[2]) \in States
    <3>1. p[2] \in States
      BY <2>1
    <3>2. p[1] \in 1..N => Scan(p[2], text[p[1]]) \in States
      BY <1>1, <3>1, ScanType
    <3> QED BY <3>1, <3>2
  <2> QED BY <2>1
<1>4. \A n \in 1..N, s \in States : step[<<n, s>>] = Scan(s, text[n])
  OBVIOUS
<1> HIDE DEF step
<1>5. PICK f : Recurs(f, Start, step, States, N)
  BY <1>1, <1>2, <1>3, Recursion
<1>6. f[0] = Start /\ \A n \in 1..N : f[n] = Scan(f[n - 1], text[n])
  <2>1. f \in [0..N -> States] /\ f[0] = Start
        /\ \A n \in 1..N : n - 1 \in 0..N /\ f[n] = step[<<n, f[n - 1]>>]
    BY <1>1, <1>5 DEF Recurs
  <2>2. \A n \in 1..N : f[n - 1] \in States
    BY <2>1
  <2> QED BY <1>4, <2>1, <2>2
<1>7. f = [n \in 0..N |-> IF n = 0 THEN Start ELSE Scan(f[n - 1], text[n])]
  <2>1. \A n \in 0..N : n = 0 \/ n \in 1..N
    BY <1>1
  <2>2. f \in [0..N -> States]
    BY <1>5 DEF Recurs
  <2> QED BY <1>6, <2>1, <2>2
<1>8. Scanned(text) = [n \in 0..N |-> IF n = 0 THEN Start
                                      ELSE Scan(Scanned(text)[n - 1], text[n])]
  BY <1>7 DEF Scanned
<1> DEFINE g == Scanned(text)
<1>9. g[0] = Start /\ \A n \in 1..N : g[n] = Scan(g[n - 1], text[n])
  <2> HIDE DEF g
  <2>1. g = [n \in 0..N |-> IF n = 0 THEN Start ELSE Scan(g[n - 1], text[n])]
    BY <1>8 DEF g
  <2> QED BY <1>1, <2>1
<1>10. \A n \in 0..N : g[n] \in States
  <2> DEFINE T == {n \in 0..N : g[n] \in States}
  <2> HIDE DEF g
  <2>1. 0 \in T
    BY <1>1, <1>2, <1>9
  <2>2. ASSUME NEW n \in 0..(N - 1), n \in T PROVE n + 1 \in T
    <3>1. n + 1 \in 1..N /\ n + 1 - 1 = n /\ n + 1 \in 0..N
      BY <1>1
    <3>2. Scan(g[n], text[n + 1]) \in States
      BY <1>1, <2>2, <3>1, ScanType
    <3> QED BY <1>9, <3>1, <3>2
  <2> HIDE DEF T
  <2>3. \A n \in 0..N : n \in T
    BY <1>1, <2>1, <2>2, Counting
  <2> QED BY <2>3 DEF T
<1> QED BY <1>9, <1>10

LEMMA MinOfOne ==
  ASSUME NEW n \in Int
  PROVE  Min({n}) = n
<1>1. \E x \in {n} : \A y \in {n} : x =< y
  OBVIOUS
<1>2. Min({n}) \in {n}
  BY <1>1 DEF Min
<1> QED BY <1>2

\* Numbers in their order, one after the other.
LEMMA AscendingEmpty == Ascending({}) = <<>> /\ \A g : Along(g, {}) = <<>>
<1>1. Cardinality({}) = 0 /\ 1..0 = {}
  BY FS_EmptySet
<1>2. Ascending({}) = [k \in 1..0 |-> Min({x \in {} : Cardinality({y \in {} : y <= x}) = k})]
  BY <1>1 DEF Ascending
<1>3. ASSUME NEW g PROVE Along(g, {}) = <<>>
  <2>1. Along(g, {}) = [k \in 1..0 |-> g[Ascending({})[k]]]
    BY <1>1 DEF Along
  <2> QED BY <2>1
<1> QED BY <1>2, <1>3

\* A greater number comes last.
LEMMA AscendingAppend ==
  ASSUME NEW S, S \subseteq Int, IsFiniteSet(S), NEW n \in Int, \A y \in S : y < n
  PROVE  /\ Cardinality(S) \in Nat /\ Cardinality(S \union {n}) = Cardinality(S) + 1
         /\ \A k \in 1..Cardinality(S) : Ascending(S \union {n})[k] = Ascending(S)[k]
         /\ Ascending(S \union {n})[Cardinality(S) + 1] = n
<1> DEFINE T == S \union {n}
           c == Cardinality(S)
           below(R, x) == {y \in R : y <= x}
           rank(R, k) == {x \in R : Cardinality(below(R, x)) = k}
<1>1. n \notin S
  OBVIOUS
<1>2. c \in Nat /\ IsFiniteSet(T) /\ Cardinality(T) = c + 1
  BY <1>1, FS_AddElement, FS_CardinalityType
<1>3. ASSUME NEW x \in S PROVE below(T, x) = below(S, x) /\ Cardinality(below(S, x)) <= c
                               /\ Cardinality(below(S, x)) \in Nat
  <2>1. below(S, x) \subseteq S /\ ~(n <= x)
    OBVIOUS
  <2>2. below(T, x) = below(S, x)
    BY <2>1
  <2>3. Cardinality(below(S, x)) <= Cardinality(S) /\ Cardinality(below(S, x)) \in Nat
    <3> HIDE DEF below
    <3> QED BY <2>1, SubsetOfFinite
  <2> QED BY <2>2, <2>3
<1>4. below(T, n) = T
  <2>1. \A y \in S : y \in Int /\ y < n
    OBVIOUS
  <2>2. \A y \in T : y <= n
    BY <2>1
  <2> HIDE DEF T
  <2> QED BY <2>2
<1>5. \A x \in T : x = n \/ x \in S
  OBVIOUS
<1>6. \A R : Ascending(R) = [k \in 1..Cardinality(R) |-> Min(rank(R, k))]
  BY DEF Ascending
<1>7. ASSUME NEW k \in 1..c PROVE rank(T, k) = rank(S, k)
  <2> HIDE DEF below
  <2>1. k # c + 1
    BY <1>2
  <2>2. Cardinality(below(T, n)) # k
    BY <1>2, <1>4, <2>1 
  <2> HIDE DEF T
  <2>3. \A x \in S : Cardinality(below(T, x)) = Cardinality(below(S, x)) /\ x \in T
    BY <1>3 DEF T
  <2> QED BY <1>5, <2>2, <2>3
<1>8. rank(T, c + 1) = {n}
  <2> HIDE DEF below
  <2>1. \A x \in S : Cardinality(below(T, x)) # c + 1
    BY <1>2, <1>3
  <2>2. n \in T /\ Cardinality(below(T, n)) = c + 1
    BY <1>2, <1>4
  <2> HIDE DEF T
  <2> QED BY <1>5, <2>1, <2>2
<1>9. \A k \in 1..c : Ascending(T)[k] = Ascending(S)[k]
  <2> HIDE DEF rank, T, c
  <2>1. Ascending(S) = [k \in 1..c |-> Min(rank(S, k))]
    BY <1>6 DEF c
  <2>2. Ascending(T) = [k \in 1..(c + 1) |-> Min(rank(T, k))]
    BY <1>2, <1>6
  <2>3. \A k \in 1..c : k \in 1..(c + 1)
    BY <1>2
  <2> QED BY <1>7, <2>1, <2>2, <2>3
<1>10. Ascending(T)[c + 1] = n
  <2>1. Min(rank(T, c + 1)) = n
    BY <1>8, MinOfOne
  <2> HIDE DEF rank, T, c
  <2>2. Ascending(T) = [k \in 1..(c + 1) |-> Min(rank(T, k))]
    BY <1>2, <1>6
  <2>3. c + 1 \in 1..(c + 1)
    BY <1>2
  <2> QED BY <2>1, <2>2, <2>3
<1> QED BY <1>2, <1>9, <1>10

\* What stands at a greater number comes last.
LEMMA AlongAppend ==
  ASSUME NEW S, S \subseteq Int, IsFiniteSet(S), NEW n \in Int, \A y \in S : y < n,
         NEW g, NEW A, Along(g, S) \in Seq(A), g[n] \in A
  PROVE  Along(g, S \union {n}) = Append(Along(g, S), g[n])
<1> DEFINE T == S \union {n}
           c == Cardinality(S)
           s == Along(g, S)
<1>1. /\ c \in Nat /\ Cardinality(T) = c + 1 /\ Ascending(T)[c + 1] = n
      /\ \A k \in 1..c : Ascending(T)[k] = Ascending(S)[k]
  BY AscendingAppend
<1>2. s = [k \in 1..c |-> g[Ascending(S)[k]]]
  BY DEF Along
<1>3. Along(g, T) = [k \in 1..(c + 1) |-> g[Ascending(T)[k]]]
  BY <1>1 DEF Along
<1> HIDE DEF T, c, s
<1>4. s \in Seq(A) /\ Len(s) = c
  <2>1. s \in Seq(A)
    BY DEF s
  <2> QED BY <1>1, <1>2, <2>1
<1>5. Append(s, g[n]) = [k \in 1..(c + 1) |-> IF k = c + 1 THEN g[n] ELSE s[k]]
  BY <1>1, <1>4
<1>6. \A k \in 1..(c + 1) : k = c + 1 \/ k \in 1..c
  BY <1>1
<1>7. \A k \in 1..(c + 1) : g[Ascending(T)[k]] = IF k = c + 1 THEN g[n] ELSE s[k]
  BY <1>1, <1>2, <1>6
<1>8. Along(g, T) = Append(s, g[n])
  BY <1>3, <1>5, <1>7
<1> QED BY <1>8 DEF T, s

LEMMA MaxOf ==
  ASSUME NEW S, S \subseteq Int, NEW x \in S, \A y \in S : y <= x
  PROVE  Max(S) = x
<1>1. \E z \in S : \A y \in S : z >= y
  OBVIOUS
<1>2. Max(S) \in S /\ \A y \in S : Max(S) >= y
  BY <1>1 DEF Max
<1>3. Max(S) >= x /\ Max(S) <= x /\ Max(S) \in Int /\ x \in Int
  BY <1>2
<1> QED BY <1>3

LEMMA OddStep ==
  ASSUME NEW m \in Nat
  PROVE  (m + 1) % 2 = 1 <=> ~(m % 2 = 1)
OBVIOUS

\* The backslashes that stand before a position.
Backslashes(text, i) == {k \in 0..(i - 1) : \A j \in (i - k)..(i - 1) : text[j] = Backslash}

\* A backslash escapes what follows it, unless it is itself escaped.
LEMMA EscapedStep ==
  ASSUME NEW text, NEW n \in Nat \ {0}
  PROVE  /\ ~Escaped(text, 1)
         /\ Escaped(text, n + 1) <=> text[n] = Backslash /\ ~Escaped(text, n)
<1>1. \A i \in Nat \ {0} : /\ Backslashes(text, i) \subseteq 0..(i - 1)
                           /\ 0 \in Backslashes(text, i)
                           /\ Escaped(text, i) <=> Max(Backslashes(text, i)) % 2 = 1
  BY DEF Backslashes, Escaped
<1>2. ~Escaped(text, 1)
  <2>1. Backslashes(text, 1) = {0}
    BY <1>1
  <2>2. Max({0}) % 2 # 1
    BY MaxOf
  <2>3. 1 \in Nat \ {0}
    OBVIOUS
  <2> QED BY <1>1, <2>1, <2>2, <2>3
<1>3. CASE text[n] = Backslash
  <2> DEFINE B == Backslashes(text, n)
  <2>1. B \subseteq 0..(n - 1) /\ B # {} /\ IsFiniteSet(B)
    <3>1. IsFiniteSet(0..(n - 1))
      BY FS_Interval
    <3>2. B \subseteq 0..(n - 1) /\ B # {}
      BY <1>1
    <3> HIDE DEF B
    <3>3. IsFiniteSet(B)
      BY <3>1, <3>2, SubsetOfFinite
    <3> QED BY <3>2, <3>3
  <2>2. \A k \in B : k \in 0..(n - 1) /\ k \in Int
    BY <2>1
  <2>9. PICK m \in B : \A k \in B : k <= m
    <3> HIDE DEF B
    <3> QED BY <2>1, <2>2, GreatestElement
  <2>3. Max(B) = m
    <3> HIDE DEF B
    <3> QED BY <2>2, <2>9, MaxOf
  <2>4. m + 1 \in Backslashes(text, n + 1)
    <3>1. \A j \in (n + 1 - (m + 1))..(n + 1 - 1) : j = n \/ j \in (n - m)..(n - 1)
      BY <2>2
    <3>2. m + 1 \in 0..(n + 1 - 1)
      BY <2>2
    <3> QED BY <1>3, <3>1, <3>2 DEF Backslashes
  <2>5. \A k \in Backslashes(text, n + 1) : k <= m + 1
    <3>1. TAKE k \in Backslashes(text, n + 1)
    <3>2. k \in 0..n
      BY DEF Backslashes
    <3>3. CASE k = 0
      BY <2>2, <3>3
    <3>4. CASE k # 0
      <4>1. k - 1 \in 0..(n - 1)
        BY <3>2, <3>4
      <4>2. \A j \in (n - (k - 1))..(n - 1) : j \in (n + 1 - k)..(n + 1 - 1)
        BY <3>2
      <4>3. k - 1 \in B
        BY <4>1, <4>2 DEF Backslashes
      <4>4. k - 1 <= m
        BY <2>9, <4>3
      <4> QED BY <2>2, <3>2, <4>4
    <3> QED BY <3>3, <3>4
  <2>6. Max(Backslashes(text, n + 1)) = m + 1
    <3>1. Backslashes(text, n + 1) \subseteq Int
      BY DEF Backslashes
    <3> QED BY <2>4, <2>5, <3>1, MaxOf
  <2>7. m \in Nat /\ n + 1 \in Nat \ {0}
    BY <2>2
  <2> HIDE DEF B
  <2>8. (Escaped(text, n) <=> m % 2 = 1) /\ (Escaped(text, n + 1) <=> (m + 1) % 2 = 1)
    BY <1>1, <2>3, <2>6, <2>7 DEF B
  <2> QED BY <1>2, <1>3, <2>7, <2>8, OddStep
<1>4. CASE text[n] # Backslash
  <2>1. \A k \in Backslashes(text, n + 1) : k = 0
    <3>1. TAKE k \in Backslashes(text, n + 1)
    <3>2. SUFFICES ASSUME k # 0 PROVE FALSE
      OBVIOUS
    <3>3. k \in 0..n /\ n \in (n + 1 - k)..(n + 1 - 1)
      BY <3>2 DEF Backslashes
    <3> QED BY <1>4, <3>3 DEF Backslashes
  <2>2. Backslashes(text, n + 1) = {0}
    BY <1>1, <2>1
  <2>3. Max({0}) % 2 # 1
    BY MaxOf
  <2>4. n + 1 \in Nat \ {0}
    OBVIOUS
  <2>5. ~Escaped(text, n + 1)
    BY <1>1, <2>2, <2>3, <2>4
  <2> QED BY <1>2, <1>4, <2>5
<1> QED BY <1>3, <1>4

Quotes(text, i) == {j \in 1..(i - 1) : text[j] = Quote /\ Markup(text, j)}

\* A quote that is not escaped begins or ends a quotation.
LEMMA QuotedStep ==
  ASSUME NEW text, NEW n \in Nat \ {0}
  PROVE  /\ ~Quoted(text, 1)
         /\ Quoted(text, n + 1) <=> IF text[n] = Quote /\ Markup(text, n)
                                    THEN ~Quoted(text, n) ELSE Quoted(text, n)
<1>1. \A i : Quoted(text, i) <=> Cardinality(Quotes(text, i)) % 2 = 1
  BY DEF Quotes, Quoted
<1>2. ~Quoted(text, 1)
  <2>1. Quotes(text, 1) = {}
    BY DEF Quotes
  <2> QED BY <1>1, <2>1, FS_EmptySet
<1>3. IsFiniteSet(Quotes(text, n)) /\ Cardinality(Quotes(text, n)) \in Nat
  <2>1. Quotes(text, n) \subseteq 1..(n - 1) /\ IsFiniteSet(1..(n - 1))
    BY FS_Interval DEF Quotes
  <2> QED BY <2>1, SubsetOfFinite
<1>4. \A j : j \in 1..(n + 1 - 1) <=> j = n \/ j \in 1..(n - 1)
  OBVIOUS
<1>5. CASE text[n] = Quote /\ Markup(text, n)
  <2>1. Quotes(text, n + 1) = Quotes(text, n) \union {n} /\ n \notin Quotes(text, n)
    BY <1>4, <1>5 DEF Quotes
  <2>2. Cardinality(Quotes(text, n + 1)) = Cardinality(Quotes(text, n)) + 1
    BY <1>3, <2>1, FS_AddElement
  <2> QED BY <1>1, <1>2, <1>3, <1>5, <2>2, OddStep
<1>6. CASE ~(text[n] = Quote /\ Markup(text, n))
  <2>1. Quotes(text, n + 1) = Quotes(text, n)
    BY <1>4, <1>6 DEF Quotes
  <2> QED BY <1>1, <1>2, <1>6, <2>1
<1> QED BY <1>5, <1>6

\* One character, by what it is: a separator, or else markup or not.
LEMMA ScanStep ==
  ASSUME NEW s \in States, NEW c \in Chars, NEW t, t = Scan(s, c)
  PROVE  /\ t.escaped <=> c = Backslash /\ ~s.escaped
         /\ t.inQuote <=> IF c = Quote /\ ~s.escaped THEN ~s.inQuote ELSE s.inQuote
         /\ ~(c \in Blanks /\ ~s.escaped /\ ~s.inQuote) =>
              /\ t.tokens = s.tokens /\ (t.inToken <=> s.inToken \/ ~s.escaped)
              /\ t.cur = IF c \in {Backslash, Quote} /\ ~s.escaped THEN s.cur ELSE Append(s.cur, c)
         /\ c \in Blanks /\ ~s.escaped /\ ~s.inQuote =>
              /\ ~t.inToken
              /\ t.tokens = IF s.inToken THEN Append(s.tokens, s.cur) ELSE s.tokens
              /\ t.cur = IF s.inToken THEN <<>> ELSE s.cur
<1>1. Backslash # Quote /\ Backslash \notin Blanks /\ Quote \notin Blanks
  BY DEF Backslash, Quote, Blanks, Blank, Return
<1>2. /\ s.escaped \in BOOLEAN /\ s.inQuote \in BOOLEAN /\ s.inToken \in BOOLEAN
      /\ DOMAIN s = {"tokens", "cur", "inQuote", "inToken", "escaped"}
  BY DEF States
<1>3. CASE s.escaped
  <2>1. t = [s EXCEPT !.cur = Append(s.cur, c), !.escaped = FALSE]
    BY <1>3 DEF Scan
  <2> QED BY <1>2, <1>3, <2>1
<1>4. CASE ~s.escaped /\ c = Backslash
  <2>1. t = [s EXCEPT !.inToken = TRUE, !.escaped = TRUE]
    BY <1>1, <1>4 DEF Scan
  <2> QED BY <1>1, <1>2, <1>4, <2>1
<1>5. CASE ~s.escaped /\ c = Quote
  <2>1. t = [s EXCEPT !.inQuote = ~s.inQuote, !.inToken = TRUE]
    BY <1>1, <1>5 DEF Scan
  <2> QED BY <1>1, <1>2, <1>5, <2>1
<1>6. CASE ~s.escaped /\ c \in Blanks /\ ~s.inQuote
  <2>1. t = IF s.inToken
              THEN [s EXCEPT !.tokens = Append(s.tokens, s.cur), !.cur = <<>>, !.inToken = FALSE]
              ELSE s
    BY <1>1, <1>6 DEF Scan
  <2>2. CASE s.inToken
    BY <1>1, <1>2, <1>6, <2>1, <2>2
  <2>3. CASE ~s.inToken
    BY <1>1, <1>2, <1>6, <2>1, <2>3
  <2> QED BY <2>2, <2>3
<1>7. CASE ~s.escaped /\ c # Backslash /\ c # Quote /\ ~(c \in Blanks /\ ~s.inQuote)
  <2>1. t = [s EXCEPT !.cur = Append(s.cur, c), !.inToken = TRUE]
    BY <1>7 DEF Scan
  <2> QED BY <1>1, <1>2, <1>7, <2>1
<1> QED BY <1>3, <1>4, <1>5, <1>6, <1>7

\* A token ends at the first separator behind its start.
LEMMA EndIs ==
  ASSUME NEW text \in Seq(Chars), NEW i \in 1..(Len(text) + 1)
  PROVE  /\ End(text, i) \in i..(Len(text) + 1) /\ Separates(text, End(text, i))
         /\ \A j \in i..(Len(text) + 1) : Separates(text, j) => End(text, i) <= j
<1> DEFINE S == {j \in i..(Len(text) + 1) : Separates(text, j)}
           N == Len(text)
<1>1. N \in Nat /\ N + 1 \in S /\ i \in 1..(N + 1)
  BY DEF Separates
<1>2. S \subseteq i..(N + 1) /\ S # {} /\ \A j \in S : j \in Int
  <2>1. S # {}
    BY <1>1
  <2> QED BY <2>1
<1>3. IsFiniteSet(i..(N + 1))
  BY <1>1, FS_Interval
<1>4. \E x \in S : \A y \in S : x <= y
  <2> HIDE DEF S, N
  <2>1. IsFiniteSet(S)
    BY <1>2, <1>3, SubsetOfFinite
  <2> QED BY <1>2, <2>1, LeastElement
<1>5. End(text, i) = Min(S)
  BY DEF End
<1> HIDE DEF S
<1>6. End(text, i) \in S /\ \A y \in S : End(text, i) <= y
  BY <1>4, <1>5 DEF Min
<1> QED BY <1>6 DEF S

\* Position n belongs to the token that starts at first.
Within(text, first, n) ==
  first \in 1..Len(text) /\ Separates(text, first - 1) /\ \A j \in first..n : ~Separates(text, j)

Closed(text, n) == {i \in Starts(text) : End(text, i) <= n}

\* The tokens that have ended start somewhere in the text.
LEMMA ClosedFinite ==
  ASSUME NEW text \in Seq(Chars), NEW n
  PROVE  /\ Closed(text, n) \subseteq 1..Len(text) /\ IsFiniteSet(Closed(text, n))
         /\ Closed(text, n) \subseteq Int
<1>1. Closed(text, n) \subseteq 1..Len(text)
  BY DEF Closed, Starts
<1>2. Len(text) \in Nat /\ 1..Len(text) \subseteq Int
  OBVIOUS
<1>3. IsFiniteSet(1..Len(text))
  BY <1>2, FS_Interval
<1> QED BY <1>1, <1>2, <1>3, SubsetOfFinite

\* A token that is open comes behind those that are closed.
LEMMA OpenIsLast ==
  ASSUME NEW text \in Seq(Chars), NEW n \in 0..Len(text), NEW first \in 1..n,
         Within(text, first, n), NEW c \in Closed(text, n)
  PROVE  c < first
<1>1. SUFFICES ASSUME first <= c PROVE FALSE
  <2>1. c \in Int /\ first \in Int
    BY ClosedFinite
  <2> QED BY <1>1, <2>1
<1>2. c \in 1..Len(text) /\ End(text, c) <= n
  BY DEF Closed, Starts
<1>3. End(text, c) \in c..(Len(text) + 1) /\ Separates(text, End(text, c))
  BY <1>2, EndIs
<1>4. End(text, c) \in first..n
  BY <1>1, <1>2, <1>3
<1> QED BY <1>3, <1>4 DEF Within

\* What a character adds to the tokens that are closed.
LEMMA NoneClosed ==
  ASSUME NEW text \in Seq(Chars), NEW n \in 0..Len(text),
         ~Separates(text, n + 1) \/ Separates(text, n)
  PROVE  Closed(text, n + 1) = Closed(text, n)
<1>1. ASSUME NEW i \in Starts(text), End(text, i) <= n + 1 PROVE End(text, i) <= n
  <2>1. i \in 1..Len(text) /\ ~Separates(text, i)
    BY DEF Starts
  <2> DEFINE e == End(text, i)
  <2>2. /\ e \in i..(Len(text) + 1) /\ Separates(text, e)
        /\ \A j \in i..(Len(text) + 1) : Separates(text, j) => e <= j
    BY <2>1, EndIs
  <2> HIDE DEF e
  <2>3. SUFFICES ASSUME e = n + 1 PROVE FALSE
    BY <1>1, <2>2 DEF e
  <2>4. Separates(text, n)
    BY <2>2, <2>3
  <2>5. i # n + 1
    BY <2>1, <2>2, <2>3
  <2>6. n \in i..(Len(text) + 1) /\ ~(e <= n)
    BY <2>1, <2>2, <2>3, <2>5
  <2> QED BY <2>2, <2>4, <2>6
<1>2. ASSUME NEW i \in Starts(text), End(text, i) <= n PROVE End(text, i) <= n + 1
  <2>1. i \in 1..Len(text)
    BY DEF Starts
  <2>2. End(text, i) \in i..(Len(text) + 1)
    BY <2>1, EndIs
  <2> QED BY <1>2, <2>1, <2>2
<1> QED BY <1>1, <1>2 DEF Closed

\* A separator behind an open token closes it, and no other.
LEMMA OneClosed ==
  ASSUME NEW text \in Seq(Chars), NEW n \in 0..Len(text), NEW first \in 1..n,
         Within(text, first, n), Separates(text, n + 1)
  PROVE  /\ first \in Starts(text) /\ End(text, first) = n + 1
         /\ Closed(text, n + 1) = Closed(text, n) \union {first}
<1>1. first \in Starts(text)
  <2>1. first \in first..n /\ first \in DOMAIN text
    BY DEF Within
  <2> QED BY <2>1 DEF Within, Starts
<1>2. End(text, first) = n + 1
  <2> DEFINE e == End(text, first)
  <2>1. /\ e \in first..(Len(text) + 1) /\ Separates(text, e)
        /\ \A j \in first..(Len(text) + 1) : Separates(text, j) => e <= j
    <3>1. first \in 1..(Len(text) + 1)
      OBVIOUS
    <3> QED BY <3>1, EndIs
  <2> HIDE DEF e
  <2>2. e <= n + 1
    <3>1. n + 1 \in first..(Len(text) + 1)
      OBVIOUS
    <3> QED BY <2>1, <3>1
  <2>3. e \notin first..n
    BY <2>1 DEF Within
  <2> QED BY <2>1, <2>2, <2>3 DEF e
<1>3. ASSUME NEW i \in Starts(text), End(text, i) <= n + 1, ~(End(text, i) <= n) PROVE i = first
  <2>1. i \in 1..Len(text) /\ ~Separates(text, i) /\ Separates(text, i - 1)
    BY DEF Starts
  <2>2. /\ End(text, i) \in i..(Len(text) + 1)
        /\ \A j \in i..(Len(text) + 1) : Separates(text, j) => End(text, i) <= j
    BY <2>1, EndIs
  <2>3. \A j \in i..n : ~Separates(text, j)
    <3>1. TAKE j \in i..n
    <3>2. j \in i..(Len(text) + 1) /\ ~(End(text, i) <= j)
      BY <1>3, <2>1, <2>2
    <3> QED BY <2>2, <3>2
  <2>4. ~(i < first)
    <3>1. SUFFICES ASSUME i < first PROVE FALSE
      OBVIOUS
    <3>2. first - 1 \in i..n
      BY <2>1, <3>1
    <3> QED BY <2>3, <3>2 DEF Within
  <2>5. ~(first < i)
    <3>1. SUFFICES ASSUME first < i PROVE FALSE
      OBVIOUS
    <3>2. i \in 1..(n + 1) /\ i # n + 1
      BY <1>3, <2>1, <2>2
    <3>3. i - 1 \in first..n
      BY <2>1, <3>1, <3>2
    <3> QED BY <2>1, <3>3 DEF Within
  <2> QED BY <2>1, <2>4, <2>5
<1>4. ASSUME NEW i \in Starts(text), End(text, i) <= n PROVE End(text, i) <= n + 1
  <2>1. i \in 1..Len(text)
    BY DEF Starts
  <2>2. End(text, i) \in i..(Len(text) + 1)
    BY <2>1, EndIs
  <2> QED BY <1>4, <2>1, <2>2
<1>5. n + 1 <= n + 1
  OBVIOUS
<1> QED BY <1>1, <1>2, <1>3, <1>4, <1>5 DEF Closed

Kept(text, first, n) == {j \in first..n : ~Markup(text, j)}

TokenOf(text) == [i \in Starts(text) |-> Token(text, i)]

\* What the tokenizer has found after n characters.
Agrees(text, n, s) ==
  /\ s.escaped <=> Escaped(text, n + 1)
  /\ s.inQuote <=> Quoted(text, n + 1)
  /\ s.inToken <=> ~Separates(text, n)
  /\ s.tokens = Along(TokenOf(text), Closed(text, n))
  /\ s.inToken => \E first \in 1..n : Within(text, first, n) /\ s.cur = Along(text, Kept(text, first, n))
  /\ ~s.inToken => s.cur = <<>>

\* A character that is no separator is kept, unless it is markup.
LEMMA KeptNext ==
  ASSUME NEW text \in Seq(Chars), NEW n \in 0..(Len(text) - 1), NEW first \in 1..(n + 1),
         Along(text, Kept(text, first, n)) \in Seq(Chars)
  PROVE  Along(text, Kept(text, first, n + 1)) =
           IF Markup(text, n + 1) THEN Along(text, Kept(text, first, n))
           ELSE Append(Along(text, Kept(text, first, n)), text[n + 1])
<1>1. n \in Nat /\ n + 1 \in 1..Len(text) /\ text[n + 1] \in Chars
  OBVIOUS
<1>2. \A j : j \in first..(n + 1) <=> j = n + 1 \/ j \in first..n
  BY <1>1
<1>3. CASE Markup(text, n + 1)
  <2>1. Kept(text, first, n + 1) = Kept(text, first, n)
    BY <1>2, <1>3 DEF Kept
  <2> QED BY <1>3, <2>1
<1>4. CASE ~Markup(text, n + 1)
  <2>1. Kept(text, first, n + 1) = Kept(text, first, n) \union {n + 1}
    BY <1>2, <1>4 DEF Kept
  <2>2. Kept(text, first, n) \subseteq first..n
    BY DEF Kept
  <2>3. IsFiniteSet(first..n)
    BY <1>1, FS_Interval
  <2>4. /\ Kept(text, first, n) \subseteq Int /\ IsFiniteSet(Kept(text, first, n))
        /\ \A y \in Kept(text, first, n) : y < n + 1
    <3>1. IsFiniteSet(Kept(text, first, n))
      BY <2>2, <2>3, SubsetOfFinite
    <3> QED BY <1>1, <2>2, <3>1
  <2>5. n + 1 \in Int
    BY <1>1
  <2>6. Along(text, Kept(text, first, n) \union {n + 1}) =
          Append(Along(text, Kept(text, first, n)), text[n + 1])
    BY <1>1, <2>4, <2>5, AlongAppend
  <2> QED BY <1>4, <2>1, <2>6
<1> QED BY <1>3, <1>4

LEMMA KeptNone ==
  ASSUME NEW text, NEW n \in Int
  PROVE  Along(text, Kept(text, n + 1, n)) = <<>>
<1>1. Kept(text, n + 1, n) = {}
  BY DEF Kept
<1> QED BY <1>1, AscendingEmpty

\* The separator behind a token closes it.
LEMMA TokenClosed ==
  ASSUME NEW text \in Seq(Chars), NEW n \in 0..Len(text), NEW s \in States, Agrees(text, n, s),
         s.inToken, Separates(text, n + 1)
  PROVE  Append(s.tokens, s.cur) = Along(TokenOf(text), Closed(text, n + 1))
<1>1. PICK first \in 1..n : Within(text, first, n) /\ s.cur = Along(text, Kept(text, first, n))
  BY DEF Agrees
<1>2. /\ first \in Starts(text) /\ End(text, first) = n + 1
      /\ Closed(text, n + 1) = Closed(text, n) \union {first}
  BY <1>1, OneClosed
<1>3. TokenOf(text)[first] = s.cur
  <2>1. Token(text, first) = Along(text, Kept(text, first, n + 1 - 1))
    BY <1>2 DEF Token, Kept
  <2>2. n + 1 - 1 = n
    OBVIOUS
  <2> QED BY <1>1, <1>2, <2>1, <2>2 DEF TokenOf
<1>4. s.tokens = Along(TokenOf(text), Closed(text, n))
  BY DEF Agrees
<1>5. s.tokens \in Seq(Seq(Chars)) /\ s.cur \in Seq(Chars)
  BY DEF States
<1>6. /\ Closed(text, n) \subseteq Int /\ IsFiniteSet(Closed(text, n)) /\ first \in Int
      /\ \A c \in Closed(text, n) : c < first
  BY <1>1, ClosedFinite, OpenIsLast
<1>7. Along(TokenOf(text), Closed(text, n) \union {first}) =
        Append(Along(TokenOf(text), Closed(text, n)), TokenOf(text)[first])
  <2>1. Along(TokenOf(text), Closed(text, n)) \in Seq(Seq(Chars)) /\ TokenOf(text)[first] \in Seq(Chars)
    BY <1>3, <1>4, <1>5
  <2> QED BY <1>6, <2>1, AlongAppend
<1> QED BY <1>2, <1>3, <1>4, <1>7

\* One character of the loop finds what one position more says.
LEMMA ScanAgrees ==
  ASSUME NEW text \in Seq(Chars), NEW n \in 0..(Len(text) - 1),
         NEW s \in States, Agrees(text, n, s), NEW t, t = Scan(s, text[n + 1])
  PROVE  Agrees(text, n + 1, t)
<1> DEFINE c == text[n + 1]
<1>1. /\ n \in 0..Len(text) /\ n \in Nat /\ n + 1 \in Nat \ {0} /\ n + 1 \in DOMAIN text /\ c \in Chars
      /\ n + 1 \in 1..Len(text) /\ n \in Int
  OBVIOUS
<1>2. /\ s.escaped \in BOOLEAN /\ s.inQuote \in BOOLEAN /\ s.inToken \in BOOLEAN
      /\ s.cur \in Seq(Chars)
  BY DEF States
<1>3. /\ Separates(text, n + 1) <=> c \in Blanks /\ ~s.escaped /\ ~s.inQuote
      /\ Markup(text, n + 1) <=> c \in {Backslash, Quote} /\ ~s.escaped
  BY <1>1 DEF Agrees, Separates, Markup
<1>4. /\ t.escaped <=> c = Backslash /\ ~s.escaped
      /\ t.inQuote <=> IF c = Quote /\ ~s.escaped THEN ~s.inQuote ELSE s.inQuote
      /\ ~Separates(text, n + 1) =>
           /\ t.tokens = s.tokens /\ (t.inToken <=> s.inToken \/ ~s.escaped)
           /\ t.cur = IF Markup(text, n + 1) THEN s.cur ELSE Append(s.cur, c)
      /\ Separates(text, n + 1) =>
           /\ ~t.inToken
           /\ t.tokens = IF s.inToken THEN Append(s.tokens, s.cur) ELSE s.tokens
           /\ t.cur = IF s.inToken THEN <<>> ELSE s.cur
  <2> HIDE DEF c
  <2>1. t = Scan(s, c)
    BY DEF c
  <2> QED BY <1>1, <1>3, <2>1, ScanStep
<1>5. t.escaped <=> Escaped(text, n + 1 + 1)
  <2>1. Escaped(text, n + 1 + 1) <=> c = Backslash /\ ~Escaped(text, n + 1)
    BY <1>1, EscapedStep
  <2> QED BY <1>4, <2>1 DEF Agrees
<1>6. t.inQuote <=> Quoted(text, n + 1 + 1)
  <2>1. Quoted(text, n + 1 + 1) <=> IF c = Quote /\ Markup(text, n + 1)
                                    THEN ~Quoted(text, n + 1) ELSE Quoted(text, n + 1)
    BY <1>1, QuotedStep
  <2> QED BY <1>3, <1>4, <2>1 DEF Agrees
<1>7. CASE Separates(text, n + 1)
  <2>1. t.tokens = Along(TokenOf(text), Closed(text, n + 1))
    <3>1. CASE s.inToken
      BY <1>1, <1>4, <1>7, <3>1, TokenClosed
    <3>2. CASE ~s.inToken
      <4>1. Separates(text, n) /\ s.tokens = Along(TokenOf(text), Closed(text, n))
        BY <3>2 DEF Agrees
      <4> QED BY <1>1, <1>4, <1>7, <3>2, <4>1, NoneClosed
    <3> QED BY <3>1, <3>2
  <2>2. t.cur = <<>>
    BY <1>4, <1>7 DEF Agrees
  <2> QED BY <1>4, <1>5, <1>6, <1>7, <2>1, <2>2 DEF Agrees
<1>8. CASE ~Separates(text, n + 1)
  <2>1. t.inToken
    <3>1. SUFFICES ASSUME s.escaped, ~s.inToken PROVE FALSE
      BY <1>4, <1>8
    <3>2. Escaped(text, n + 1) /\ Separates(text, n)
      BY <3>1 DEF Agrees
    <3>3. n # 0
      <4>1. ~Escaped(text, 1)
        BY <1>1, EscapedStep
      <4> QED BY <3>2, <4>1
    <3>4. text[n] = Backslash /\ n \in DOMAIN text
      <4>1. n \in Nat \ {0} /\ n \in DOMAIN text
        BY <1>1, <3>3
      <4>2. text[n] = Backslash
        BY <3>2, <4>1, EscapedStep
      <4> QED BY <4>1, <4>2
    <3> QED BY <3>2, <3>4, NoBlank DEF Separates
  <2>2. t.tokens = Along(TokenOf(text), Closed(text, n + 1))
    <3>1. s.tokens = Along(TokenOf(text), Closed(text, n))
      BY DEF Agrees
    <3> QED BY <1>1, <1>4, <1>8, <3>1, NoneClosed
  <2>3. PICK first \in 1..(n + 1) : /\ Separates(text, first - 1)
                                    /\ \A j \in first..n : ~Separates(text, j)
                                    /\ s.cur = Along(text, Kept(text, first, n))
    <3>1. CASE s.inToken
      <4>1. PICK first \in 1..n : Within(text, first, n) /\ s.cur = Along(text, Kept(text, first, n))
        BY <3>1 DEF Agrees
      <4> QED BY <1>1, <4>1 DEF Within
    <3>2. CASE ~s.inToken
      <4>1. Separates(text, n + 1 - 1) /\ s.cur = <<>>
        BY <1>1, <3>2 DEF Agrees
      <4>2. Along(text, Kept(text, n + 1, n)) = <<>>
        BY <1>1, KeptNone
      <4>3. \A j \in (n + 1)..n : ~Separates(text, j)
        BY <1>1
      <4>4. n + 1 \in 1..(n + 1)
        BY <1>1
      <4> QED BY <4>1, <4>2, <4>3, <4>4
    <3> QED BY <3>1, <3>2
  <2>4. Within(text, first, n + 1)
    <3>1. \A j \in first..(n + 1) : j = n + 1 \/ j \in first..n
      BY <1>1
    <3>2. first \in 1..Len(text)
      BY <1>1
    <3> QED BY <1>8, <2>3, <3>1, <3>2 DEF Within
  <2>5. t.cur = Along(text, Kept(text, first, n + 1))
    <3>1. Along(text, Kept(text, first, n)) \in Seq(Chars)
      BY <1>2, <2>3
    <3> QED BY <1>4, <1>8, <2>3, <3>1, KeptNext
  <2> QED BY <1>4, <1>5, <1>6, <1>8, <2>1, <2>2, <2>4, <2>5 DEF Agrees
<1> QED BY <1>7, <1>8

\* The loop of split_shell_like finds the stretches between separators.
LEMMA SplitIsTokens ==
  ASSUME NEW text \in Seq(Chars)
  PROVE  Split(text) = Tokens(text)
<1> DEFINE N == Len(text)
           T == {n \in 0..N : Agrees(text, n, Scanned(text)[n])}
<1>1. N \in Nat
  OBVIOUS
<1>2. /\ Scanned(text)[0] = Start
      /\ \A n \in 1..N : Scanned(text)[n] = Scan(Scanned(text)[n - 1], text[n])
      /\ \A n \in 0..N : Scanned(text)[n] \in States
  BY ScannedAt
<1>3. 0 \in T
  <2>1. Closed(text, 0) = {}
    <3>1. \A i \in Starts(text) : i \in 1..N /\ End(text, i) \in i..(N + 1)
      BY EndIs DEF Starts
    <3>2. \A i \in Starts(text) : ~(End(text, i) <= 0)
      BY <1>1, <3>1
    <3> QED BY <3>2 DEF Closed
  <2>2. Along(TokenOf(text), Closed(text, 0)) = <<>>
    BY <2>1, AscendingEmpty
  <2>3. Separates(text, 0) /\ 0 \in 0..N
    BY <1>1 DEF Separates
  <2>4. ~Escaped(text, 0 + 1) /\ ~Quoted(text, 0 + 1)
    BY EscapedStep, QuotedStep
  <2>5. Agrees(text, 0, Start)
    BY <2>2, <2>3, <2>4 DEF Agrees, Start
  <2> QED BY <1>2, <2>3, <2>5
<1>4. ASSUME NEW n \in 0..(N - 1), n \in T PROVE n + 1 \in T
  <2>1. n + 1 \in 1..N /\ n + 1 \in 0..N /\ n + 1 - 1 = n /\ n \in 0..N
    BY <1>1
  <2>2. Scanned(text)[n + 1] = Scan(Scanned(text)[n], text[n + 1]) /\ Scanned(text)[n] \in States
    BY <1>2, <2>1
  <2>3. Agrees(text, n, Scanned(text)[n])
    BY <1>4
  <2>4. Agrees(text, n + 1, Scanned(text)[n + 1])
    BY <2>2, <2>3, ScanAgrees
  <2> QED BY <2>1, <2>4
<1>5. N \in T
  <2> HIDE DEF T, N
  <2>1. N \in 0..N
    BY <1>1
  <2> QED BY <1>1, <1>3, <1>4, <2>1, Counting
<1> DEFINE s == Scanned(text)[N]
<1>6. Agrees(text, N, s) /\ s \in States
  BY <1>2, <1>5
<1>7. Split(text) = IF s.inToken THEN Append(s.tokens, s.cur) ELSE s.tokens
  BY DEF Split
<1> HIDE DEF s
<1>8. Separates(text, N + 1) /\ N \in 0..N
  BY <1>1 DEF Separates
<1>9. Split(text) = Along(TokenOf(text), Closed(text, N + 1))
  <2>1. CASE s.inToken
    BY <1>6, <1>7, <1>8, <2>1, TokenClosed
  <2>2. CASE ~s.inToken
    <3>1. Separates(text, N) /\ s.tokens = Along(TokenOf(text), Closed(text, N))
      BY <1>6, <2>2 DEF Agrees
    <3>2. Closed(text, N + 1) = Closed(text, N)
      BY <1>8, <3>1, NoneClosed
    <3> QED BY <1>7, <2>2, <3>1, <3>2
  <2> QED BY <2>1, <2>2
<1>10. Closed(text, N + 1) = Starts(text)
  <2>1. \A i \in Starts(text) : i \in 1..N /\ End(text, i) \in i..(N + 1)
    BY EndIs DEF Starts
  <2>2. \A i \in Starts(text) : End(text, i) <= N + 1
    BY <1>1, <2>1
  <2> QED BY <2>2 DEF Closed
<1> QED BY <1>9, <1>10 DEF Tokens, TokenOf

\* A text of blanks has no tokens.
LEMMA BlankTokens ==
  ASSUME NEW text \in Seq(Chars), \A j \in 1..Len(text) : text[j] \in Blanks
  PROVE  Tokens(text) = <<>>
<1>1. \A j \in 1..Len(text) : text[j] # Backslash /\ text[j] # Quote
  BY DEF Backslash, Quote, Blanks, Blank, Return
<1>2. ASSUME NEW i \in 1..Len(text) PROVE Separates(text, i)
  <2>1. ~Escaped(text, i)
    <3>1. CASE i = 1
      BY <3>1, EscapedStep
    <3>2. CASE i # 1
      <4> DEFINE n == i - 1
      <4>1. n \in Nat \ {0} /\ n \in 1..Len(text) /\ i = n + 1
        BY <3>2
      <4> HIDE DEF n
      <4> QED BY <1>1, <4>1, EscapedStep
    <3> QED BY <3>1, <3>2
  <2>2. ~Quoted(text, i)
    <3>1. Quotes(text, i) = {}
      BY <1>1 DEF Quotes
    <3>2. Quotes(text, 1) = {}
      BY DEF Quotes
    <3>3. ~Quoted(text, 1)
      BY QuotedStep
    <3> QED BY <3>1, <3>2, <3>3 DEF Quotes, Quoted
  <2> QED BY <2>1, <2>2 DEF Separates
<1>3. Starts(text) = {}
  BY <1>2 DEF Starts
<1> QED BY <1>3, AscendingEmpty DEF Tokens

-----------------------------------------------------------------------------
(* The inductive invariant.                                                  *)

Typed ==
  /\ source \in {"script", "terminal"} /\ input \in Seq(Seq(Chars))
  /\ next \in 1..(Len(input) + 1) /\ line \in Seq(Chars)
  /\ pc \in {"read", "join", "execute", "done"}
  /\ executed \in Seq([from : Int, to : Int, tokens : {Split(text) : text \in Seq(Chars)}])
  /\ from \in 1..(Len(input) + 1)

\* All lines so far are continued, up to the last of them, and what is put
\* together is continued as that one is, with a second backslash only if that one
\* has it.
Joining ==
  /\ from \in 1..(next - 1) /\ \A i \in from..(next - 2) : Continues(input[i])
  /\ Continues(line) <=> Continues(input[next - 1])
  /\ Continues(line) /\ Continues(Consumed(line)) => Continues(Content(next - 1))

\* What may be executed.
Complete(first, last) ==
  Whole(first, last) \/ (source = "script" /\ reported /\ last = Len(input))

Inv ==
  /\ Typed
  /\ Unambiguous =>
       /\ pc = "join" => Joining
       /\ pc = "execute" => Complete(from, next - 1)
       /\ \A k \in DOMAIN executed : Complete(executed[k].from, executed[k].to)

LEMMA Initially == Init => Inv
<1> SUFFICES ASSUME Init PROVE Inv
  OBVIOUS
<1>1. input \in Seq(Seq(Chars))
  BY LinesAssumption DEF Init
<1>2. Typed
  BY <1>1 DEF Init, Typed
<1> QED BY <1>2 DEF Init, Inv

\* The line behind the ones put together, when it is read.
LEMMA NextLine ==
  ASSUME Typed, next <= Len(input)
  PROVE  /\ next \in DOMAIN input /\ input[next] \in Seq(Chars)
         /\ Chomped(input[next]) \in Seq(Chars)
         /\ Continues(Chomped(input[next])) <=> Continues(input[next])
         /\ Content(next) = Held(Chomped(input[next]))
<1>1. next \in DOMAIN input /\ input[next] \in Seq(Chars)
  BY DEF Typed
<1>2. /\ Chomped(input[next]) \in Seq(Chars)
      /\ Continues(Chomped(input[next])) <=> Continues(input[next])
  BY <1>1, ChompedContinues
<1>3. Content(next) = Held(Chomped(input[next]))
  BY DEF Content, Held
<1> QED BY <1>1, <1>2, <1>3

\* The line that is joined to what ends in a backslash is not blank.
LEMMA NoneBlank ==
  ASSUME Inv, Unambiguous, LineContinued
  PROVE  /\ Consumed(line) \in Seq(Chars) /\ Stripped(Consumed(line)) = Consumed(line)
         /\ Continues(Consumed(line)) => Stripped(Held(Chomped(input[next]))) # <<>>
<1>1. /\ Typed /\ next <= Len(input) /\ pc = "join" /\ Continues(line) /\ line \in Seq(Chars)
      /\ Joining
  BY DEF Inv, Typed, LineContinued
<1>2. ASSUME Continues(Consumed(line)) PROVE Stripped(Held(Chomped(input[next]))) # <<>>
  <2>1. Continues(Content(next - 1))
    BY <1>1, <1>2 DEF Joining
  <2>2. next - 1 \in 1..(Len(input) - 1) /\ next - 1 + 1 = next
    BY <1>1 DEF Typed, Joining
  <2>3. Stripped(Content(next)) # <<>>
    BY <2>1, <2>2 DEF Unambiguous
  <2> QED BY <1>1, <2>3, NextLine
<1> QED BY <1>1, <1>2, ConsumedType, ConsumedStripped

\* Apart from its report a step leaves alone what was executed before.
LEMMA Earlier ==
  ASSUME Inv, Unambiguous, UNCHANGED <<source, input, executed>>, reported => reported'
  PROVE  \A k \in DOMAIN executed' : Complete(executed[k].from, executed[k].to)'
BY DEF Inv, Complete, Whole

LEMMA LineReadKeeps ==
  ASSUME Inv, LineRead
  PROVE  Inv'
<1>1. /\ Typed /\ next <= Len(input) /\ pc' = "join" /\ line' = Chomped(input[next])
      /\ from' = next /\ next' = next + 1 /\ UNCHANGED <<source, input, executed, reported>>
  BY DEF Inv, LineRead
<1>2. Typed'
  BY <1>1, NextLine DEF Typed
<1>3. ASSUME Unambiguous PROVE Joining'
  <2>1. Continues(line') <=> Continues(input[next])
    BY <1>1, NextLine
  <2>2. Continues(line') /\ Continues(Consumed(line')) => Continues(Content(next))
    BY <1>1, NextLine DEF Held
  <2>3. next' - 1 = next /\ from' \in 1..(next' - 1) /\ from'..(next' - 2) = {}
    BY <1>1 DEF Typed
  <2>4. Content(next - 1)' = Content(next)
    BY <1>1, <2>3 DEF Content, Chomped
  <2> QED BY <1>1, <2>1, <2>2, <2>3, <2>4 DEF Joining
<1>4. Unambiguous' <=> Unambiguous
  BY <1>1 DEF Unambiguous, Content, Chomped
<1>5. Unambiguous => \A k \in DOMAIN executed' : Complete(executed[k].from, executed[k].to)'
  BY <1>1, Earlier
<1> QED BY <1>1, <1>2, <1>3, <1>4, <1>5 DEF Inv

LEMMA LineContinuedKeeps ==
  ASSUME Inv, LineContinued
  PROVE  Inv'
<1>1. /\ Typed /\ next <= Len(input) /\ pc = "join" /\ pc' = "join" /\ Continues(line)
      /\ line' = Joined(Consumed(line), Chomped(input[next])) /\ next' = next + 1
      /\ UNCHANGED <<source, input, from, executed, reported>>
  BY DEF Inv, LineContinued
<1>2. Consumed(line) \in Seq(Chars) /\ Chomped(input[next]) \in Seq(Chars)
  BY <1>1, NextLine, ConsumedType DEF Typed
<1>3. line' \in Seq(Chars)
  BY <1>1, <1>2 DEF Joined, Chars, Blanks
<1>4. Typed'
  BY <1>1, <1>3 DEF Typed
<1>5. ASSUME Unambiguous PROVE Joining'
  <2>1. Joining
    BY <1>1, <1>5 DEF Inv
  <2>2. /\ Stripped(Consumed(line)) = Consumed(line)
        /\ Continues(Consumed(line)) => Stripped(Held(Chomped(input[next]))) # <<>>
    BY <1>5, NoneBlank
  <2>3. Continues(line') <=> Continues(input[next])
    BY <1>1, <1>2, <2>2, NextLine, JoinedContinues
  <2>4. Continues(line') /\ Continues(Consumed(line')) => Continues(Content(next))
    BY <1>1, <1>2, <2>2, NextLine, JoinedContinues DEF Held
  <2>5. next \in Nat /\ from \in 1..(next - 1) /\ next' - 1 = next /\ next' - 2 = next - 1
    BY <1>1, <2>1 DEF Typed, Joining
  <2>6. \A i \in from..(next - 1) : Continues(input[i])
    <3>1. Continues(input[next - 1])
      BY <1>1, <2>1 DEF Joining
    <3>2. \A i \in from..(next - 1) : i = next - 1 \/ i \in from..(next - 2)
      BY <2>5
    <3> QED BY <2>1, <3>1, <3>2 DEF Joining
  <2>7. from \in 1..next
    BY <2>5
  <2>8. Content(next - 1)' = Content(next)
    BY <1>1, <2>5 DEF Content, Chomped
  <2> QED BY <1>1, <2>3, <2>4, <2>5, <2>6, <2>7, <2>8 DEF Joining
<1>6. Unambiguous' <=> Unambiguous
  BY <1>1 DEF Unambiguous, Content, Chomped
<1>7. Unambiguous => \A k \in DOMAIN executed' : Complete(executed[k].from, executed[k].to)'
  BY <1>1, Earlier
<1> QED BY <1>1, <1>4, <1>5, <1>6, <1>7 DEF Inv

\* A line that is not continued completes its command; a file that ends in one
\* that is, is reported.
LEMMA ToBeExecuted ==
  ASSUME Inv, LineComplete \/ ContinuationMissing
  PROVE  Inv'
<1>1. /\ Typed /\ pc = "join" /\ pc' = "execute" /\ line' = Consumed(line)
      /\ UNCHANGED <<source, input, next, from, executed>> /\ (reported => reported')
  BY DEF Inv, LineComplete, ContinuationMissing
<1>2. Typed'
  BY <1>1, ConsumedType DEF Typed
<1>3. ASSUME Unambiguous PROVE Complete(from, next - 1)'
  <2>1. Joining
    BY <1>1, <1>3 DEF Inv
  <2>2. CASE LineComplete
    <3>1. ~Continues(input[next - 1]) /\ \A i \in from..(next - 2) : Continues(input[i])
      BY <2>1, <2>2 DEF LineComplete, Joining
    <3>2. next - 1 - 1 = next - 2
      BY <1>1 DEF Typed
    <3> QED BY <1>1, <3>1, <3>2 DEF Complete, Whole
  <2>3. CASE ContinuationMissing
    <3>1. next - 1 = Len(input) /\ source' = "script" /\ reported' /\ UNCHANGED <<next, input>>
      BY <1>1, <2>3, SMTT(30) DEF ContinuationMissing, Typed
    <3> QED BY <3>1 DEF Complete
  <2> QED BY <2>2, <2>3
<1>4. Unambiguous' <=> Unambiguous
  BY <1>1 DEF Unambiguous, Content, Chomped
<1>5. Unambiguous => \A k \in DOMAIN executed' : Complete(executed[k].from, executed[k].to)'
  BY <1>1, Earlier
<1> QED BY <1>1, <1>2, <1>3, <1>4, <1>5 DEF Inv

LEMMA LineExecutedKeeps ==
  ASSUME Inv, LineExecuted
  PROVE  Inv'
<1> DEFINE E == [from : Int, to : Int, tokens : {Split(text) : text \in Seq(Chars)}]
           command == [from |-> from, to |-> next - 1, tokens |-> Split(line)]
<1>1. /\ Typed /\ pc = "execute" /\ pc' = "read" /\ executed' = Append(executed, command)
      /\ UNCHANGED <<source, input, next, line, from, reported>>
  BY DEF Inv, LineExecuted
<1>2. command \in E /\ executed \in Seq(E)
  <2>1. Split(line) \in {Split(text) : text \in Seq(Chars)}
    BY <1>1 DEF Typed
  <2>2. from \in Int /\ next - 1 \in Int
    BY <1>1 DEF Typed
  <2>3. executed \in Seq(E)
    BY <1>1 DEF Typed
  <2> QED BY <2>1, <2>2, <2>3
<1>3. command.from = from /\ command.to = next - 1
  OBVIOUS
<1> HIDE DEF E, command
<1>4. /\ executed' \in Seq(E) /\ Len(executed') = Len(executed) + 1 /\ Len(executed) \in Nat
      /\ executed'[Len(executed) + 1] = command
      /\ \A k \in 1..Len(executed) : k \in DOMAIN executed /\ executed'[k] = executed[k]
  BY <1>1, <1>2
<1>5. Typed'
  BY <1>1, <1>4 DEF Typed, E
<1>6. ASSUME Unambiguous
      PROVE  \A k \in DOMAIN executed' : Complete(executed'[k].from, executed'[k].to)
  <2>1. TAKE k \in DOMAIN executed'
  <2>2. k = Len(executed) + 1 \/ k \in 1..Len(executed)
    BY <1>4
  <2>3. CASE k = Len(executed) + 1
    BY <1>1, <1>3, <1>4, <1>6, <2>3 DEF Inv
  <2>4. CASE k \in 1..Len(executed)
    <3>1. k \in DOMAIN executed /\ executed'[k] = executed[k]
      BY <1>4, <2>4
    <3>2. Complete(executed[k].from, executed[k].to)
      BY <1>6, <3>1 DEF Inv
    <3> QED BY <3>1, <3>2
  <2> QED BY <2>2, <2>3, <2>4
<1>7. Unambiguous' <=> Unambiguous
  BY <1>1 DEF Unambiguous, Content, Chomped
<1>8. Unambiguous => \A k \in DOMAIN executed' : Complete(executed[k].from, executed[k].to)'
  BY <1>1, <1>6 DEF Complete, Whole
<1> QED BY <1>1, <1>5, <1>7, <1>8 DEF Inv

\* The steps that put nothing together and execute nothing.
LEMMA OtherwiseKeeps ==
  ASSUME Inv,
         InputEnds \/ ContinuationCancelled \/ LineSkipped \/ UNCHANGED vars
  PROVE  Inv'
<1>1. CASE InputEnds \/ ContinuationCancelled \/ LineSkipped
  <2>1. /\ Typed /\ (pc' = "read" \/ pc' = "done")
        /\ UNCHANGED <<source, input, next, from, executed, reported>>
    BY <1>1 DEF Inv, InputEnds, ContinuationCancelled, LineSkipped
  <2>2. Typed'
    <3>1. line' = line \/ line' = <<>>
      BY <1>1 DEF InputEnds, ContinuationCancelled, LineSkipped
    <3>2. line' \in Seq(Chars)
      <4>1. line \in Seq(Chars) /\ <<>> \in Seq(Chars)
        BY <2>1 DEF Typed
      <4> QED BY <3>1, <4>1
    <3> QED BY <2>1, <3>2 DEF Typed
  <2>3. Unambiguous' <=> Unambiguous
    BY <2>1 DEF Unambiguous, Content, Chomped
  <2>4. Unambiguous => \A k \in DOMAIN executed' : Complete(executed[k].from, executed[k].to)'
    BY <2>1, Earlier
  <2> QED BY <2>1, <2>2, <2>3, <2>4 DEF Inv
<1>2. CASE UNCHANGED vars
  BY <1>2 DEF vars, Inv, Typed, Joining, Complete, Whole, Unambiguous, Content, Chomped
<1> QED BY <1>1, <1>2

\* The invariant holds of every behaviour, on every input.
THEOREM Invariance == Spec => []Inv
<1>1. ASSUME Inv, [Next]_vars PROVE Inv'
  <2>1. CASE LineRead
    BY <1>1, <2>1, LineReadKeeps
  <2>2. CASE LineContinued
    BY <1>1, <2>2, LineContinuedKeeps
  <2>3. CASE LineComplete \/ ContinuationMissing
    BY <1>1, <2>3, ToBeExecuted
  <2>4. CASE LineExecuted
    BY <1>1, <2>4, LineExecutedKeeps
  <2>5. CASE InputEnds \/ ContinuationCancelled \/ LineSkipped \/ UNCHANGED vars
    BY <1>1, <2>5, OtherwiseKeeps
  <2> QED BY <1>1, <2>1, <2>2, <2>3, <2>4, <2>5 DEF Next, Done
<1> QED BY <1>1, Initially, PTL DEF Spec

\* No part of a command is executed, unless its file ends within it, which is
\* reported: whatever and however many the lines.
THEOREM NothingPartial == Spec => []WholeCommands
<1>1. ASSUME Inv PROVE WholeCommands
  BY <1>1 DEF Inv, Complete, WholeCommands
<1> QED BY <1>1, Invariance, PTL

-----------------------------------------------------------------------------
(* The order of the commands.                                                *)

\* Each line belongs to one command at most, commands are executed in the order
\* of their lines, and those of a script begin behind a line that is complete.
OnceInOrder ==
  /\ \A k \in DOMAIN executed : executed[k].from <= executed[k].to
  /\ \A j, k \in DOMAIN executed : j < k => executed[j].to < executed[k].from
  /\ Unambiguous /\ source = "script" => \A k \in DOMAIN executed : Begins(executed[k].from)

AtBeginning ==
  Unambiguous /\ source = "script" =>
    /\ pc \in {"read", "execute"} => Begins(next) \/ next > Len(input)
    /\ pc \in {"join", "execute"} => Begins(from)

Ordered ==
  /\ OnceInOrder /\ AtBeginning
  /\ \A k \in DOMAIN executed : executed[k].to < next
  /\ pc \in {"join", "execute"} =>
       from < next /\ \A k \in DOMAIN executed : executed[k].to < from

LEMMA LinesOfCommands ==
  ASSUME Inv
  PROVE  /\ Len(executed) \in Nat /\ DOMAIN executed = 1..Len(executed)
         /\ \A k \in DOMAIN executed : executed[k].to \in Int
<1> DEFINE T == {Split(text) : text \in Seq(Chars)}
           E == [from : Int, to : Int, tokens : T]
<1>1. executed \in Seq(E)
  BY DEF Inv, Typed
<1> HIDE DEF T
<1>2. \A e \in E : e.to \in Int
  OBVIOUS
<1> HIDE DEF E
<1> QED BY <1>1, <1>2

\* What does not execute anything only has to keep the lines apart.
LEMMA OrderKept ==
  ASSUME Inv, Ordered, UNCHANGED <<source, input, executed>>,
         next' = next \/ next' = next + 1, AtBeginning',
         pc' \in {"join", "execute"} =>
           from' < next' /\ \A k \in DOMAIN executed : executed[k].to < from'
  PROVE  Ordered'
<1>1. OnceInOrder'
  <2>1. Unambiguous' <=> Unambiguous
    BY DEF Unambiguous, Content, Chomped
  <2>2. OnceInOrder
    BY DEF Ordered
  <2>3. /\ \A k \in DOMAIN executed' : executed'[k].from <= executed'[k].to
        /\ \A j, k \in DOMAIN executed' : j < k => executed'[j].to < executed'[k].from
    BY <2>2 DEF OnceInOrder
  <2>4. ASSUME Unambiguous, source = "script"
        PROVE  \A k \in DOMAIN executed' : Begins(executed[k].from)'
    BY <2>2, <2>4 DEF OnceInOrder, Begins
  <2> QED BY <2>1, <2>3, <2>4 DEF OnceInOrder
<1>2. \A k \in DOMAIN executed : executed[k].to < next'
  <2>1. TAKE k \in DOMAIN executed
  <2>2. executed[k].to \in Int /\ next \in Int
    BY LinesOfCommands DEF Inv, Typed
  <2>3. executed[k].to < next
    BY DEF Ordered
  <2> QED BY <2>2, <2>3
<1> QED BY <1>1, <1>2 DEF Ordered

LEMMA LineReadInOrder ==
  ASSUME Inv, Ordered, LineRead
  PROVE  Ordered'
<1>1. /\ next \in Nat /\ next <= Len(input) /\ pc = "read" /\ pc' = "join" /\ from' = next
      /\ next' = next + 1 /\ UNCHANGED <<source, input, executed>> /\ Len(input) \in Nat
  BY DEF LineRead, Inv, Typed
<1>2. Unambiguous' <=> Unambiguous
  BY <1>1 DEF Unambiguous, Content, Chomped
<1>3. AtBeginning'
  BY <1>1, <1>2 DEF Ordered, AtBeginning, Begins
<1>4. from' < next' /\ \A k \in DOMAIN executed : executed[k].to < from'
  BY <1>1 DEF Ordered
<1> QED BY <1>1, <1>3, <1>4, OrderKept

LEMMA JoiningInOrder ==
  ASSUME Inv, Ordered, LineContinued \/ LineComplete \/ ContinuationMissing
  PROVE  Ordered'
<1>1. /\ next \in Nat /\ from \in Nat /\ pc = "join" /\ pc' \in {"join", "execute"}
      /\ (next' = next \/ next' = next + 1) /\ UNCHANGED <<source, input, from, executed>>
      /\ \A k \in DOMAIN executed : executed[k].to < from
      /\ from < next
  BY DEF LineContinued, LineComplete, ContinuationMissing, Inv, Typed, Ordered
<1>2. Unambiguous' <=> Unambiguous
  BY <1>1 DEF Unambiguous, Content, Chomped
<1>3. pc' = "execute" /\ Unambiguous => Begins(next)' \/ (next > Len(input))'
  <2>1. SUFFICES ASSUME pc' = "execute", Unambiguous PROVE Begins(next)' \/ (next > Len(input))'
    OBVIOUS
  <2>2. next' = next /\ input' = input /\ (~Continues(line) \/ next > Len(input))
    BY <2>1, <1>1 DEF LineContinued, LineComplete, ContinuationMissing
  <2>3. Continues(line) <=> Continues(input[next - 1])
    BY <1>1, <2>1 DEF Inv, Joining
  <2> QED BY <2>2, <2>3 DEF Begins
<1>4. AtBeginning'
  BY <1>1, <1>2, <1>3 DEF Ordered, AtBeginning, Begins
<1>5. from' < next' /\ \A k \in DOMAIN executed : executed[k].to < from'
  BY <1>1
<1> QED BY <1>1, <1>4, <1>5, OrderKept

LEMMA ExecutedInOrder ==
  ASSUME Inv, Ordered, LineExecuted
  PROVE  Ordered'
<1> DEFINE command == [from |-> from, to |-> next - 1, tokens |-> Split(line)]
           n == Len(executed)
<1>1. /\ pc = "execute" /\ pc' = "read" /\ executed' = Append(executed, command)
      /\ UNCHANGED <<source, input, next, from>> /\ next \in Nat /\ from \in Nat
      /\ command.from = from /\ command.to = next - 1
      /\ n \in Nat /\ DOMAIN executed = 1..n
      /\ \A k \in 1..n : executed[k].to \in Int
  <2>1. /\ pc = "execute" /\ pc' = "read" /\ executed' = Append(executed, command)
        /\ UNCHANGED <<source, input, next, from>>
    BY DEF LineExecuted
  <2>2. next \in Nat /\ from \in Nat
    BY DEF Inv, Typed
  <2> QED BY <2>1, <2>2, LinesOfCommands
<1> HIDE DEF command
<1>2. /\ DOMAIN executed' = 1..(n + 1) /\ executed'[n + 1] = command
      /\ \A k \in 1..n : executed'[k] = executed[k]
  <2>1. executed \in Seq([from : Int, to : Int, tokens : {Split(text) : text \in Seq(Chars)}])
    BY DEF Inv, Typed
  <2> QED BY <1>1, <2>1
<1> HIDE DEF n
<1>3. /\ from < next /\ \A k \in 1..n : executed[k].to < from
      /\ \A k \in 1..n : executed[k].to < next
  BY <1>1 DEF Ordered
<1>4. \A k \in 1..(n + 1) : k \in 1..n \/ k = n + 1
  BY <1>1
<1>5. Unambiguous' <=> Unambiguous
  BY <1>1 DEF Unambiguous, Content, Chomped
<1>6. OnceInOrder'
  <2>1. \A k \in 1..(n + 1) : executed'[k].from <= executed'[k].to
    <3>1. from <= next - 1
      BY <1>1, <1>3
    <3> QED BY <1>1, <1>2, <1>4, <3>1 DEF Ordered, OnceInOrder
  <2>2. \A j, k \in 1..(n + 1) : j < k => executed'[j].to < executed'[k].from
    <3>1. TAKE j, k \in 1..(n + 1)
    <3>2. SUFFICES ASSUME j < k PROVE executed'[j].to < executed'[k].from
      OBVIOUS
    <3>3. j \in 1..n
      BY <1>1, <3>2
    <3>4. CASE k \in 1..n
      BY <1>1, <1>2, <3>2, <3>3, <3>4 DEF Ordered, OnceInOrder
    <3>5. CASE k = n + 1
      BY <1>1, <1>2, <1>3, <3>3, <3>5
    <3> QED BY <1>4, <3>4, <3>5
  <2>3. ASSUME Unambiguous, source = "script"
        PROVE  \A k \in 1..(n + 1) : Begins(executed'[k].from)
    <3>1. Begins(from)
      BY <1>1, <2>3 DEF Ordered, AtBeginning
    <3>2. \A k \in 1..n : Begins(executed[k].from)
      BY <1>1, <2>3 DEF Ordered, OnceInOrder
    <3> QED BY <1>1, <1>2, <1>4, <3>1, <3>2
  <2> QED BY <1>1, <1>2, <1>5, <2>1, <2>2, <2>3 DEF OnceInOrder, Begins
<1>7. AtBeginning'
  BY <1>1, <1>5 DEF Ordered, AtBeginning, Begins
<1>8. \A k \in DOMAIN executed' : executed'[k].to < next
  BY <1>1, <1>2, <1>3, <1>4
<1> QED BY <1>1, <1>6, <1>7, <1>8 DEF Ordered

LEMMA OtherwiseInOrder ==
  ASSUME Inv, Ordered,
         InputEnds \/ ContinuationCancelled \/ LineSkipped \/ UNCHANGED vars
  PROVE  Ordered'
<1>1. /\ UNCHANGED <<source, input, next, executed>>
      /\ (pc' = "read" \/ pc' = "done") \/ UNCHANGED <<pc, from>>
  BY DEF InputEnds, ContinuationCancelled, LineSkipped, vars
<1>2. Unambiguous' <=> Unambiguous
  BY <1>1 DEF Unambiguous, Content, Chomped
<1>3. AtBeginning'
  <2>1. CASE pc' = "read" /\ source = "script" /\ pc' # pc
    <3>1. pc = "execute"
      BY <2>1 DEF InputEnds, ContinuationCancelled, LineSkipped, vars
    <3> QED BY <1>1, <1>2, <2>1, <3>1 DEF Ordered, AtBeginning, Begins
  <2>2. CASE pc' = "done" \/ source # "script"
    BY <1>1, <2>2 DEF AtBeginning
  <2>3. CASE UNCHANGED vars
    BY <1>2, <2>3 DEF vars, Ordered, AtBeginning, Begins
  <2> QED BY <2>1, <2>2, <2>3 DEF InputEnds, ContinuationCancelled, LineSkipped
<1>4. pc' \in {"join", "execute"} =>
        from' < next' /\ \A k \in DOMAIN executed : executed[k].to < from'
  BY <1>1 DEF Ordered
<1> QED BY <1>1, <1>3, <1>4, OrderKept

\* The order of the commands is kept in every behaviour.
LEMMA OrderedAlways == Spec => []Ordered
<1>1. Init => Ordered
  BY DEF Init, Ordered, OnceInOrder, AtBeginning, Begins
<1>2. ASSUME Inv, Ordered, [Next]_vars PROVE Ordered'
  <2>1. CASE LineRead
    BY <1>2, <2>1, LineReadInOrder
  <2>2. CASE LineContinued \/ LineComplete \/ ContinuationMissing
    BY <1>2, <2>2, JoiningInOrder
  <2>3. CASE LineExecuted
    BY <1>2, <2>3, ExecutedInOrder
  <2>4. CASE InputEnds \/ ContinuationCancelled \/ LineSkipped \/ UNCHANGED vars
    BY <1>2, <2>4, OtherwiseInOrder
  <2> QED BY <1>2, <2>1, <2>2, <2>3, <2>4 DEF Next, Done
<1> QED BY <1>1, <1>2, Invariance, PTL DEF Spec

\* No line is executed twice, no command overtakes another, and no command of a
\* script begins within another's lines, whatever and however many the lines.
THEOREM CommandsInOrder == Spec => []OnceInOrder
<1>1. Ordered => OnceInOrder
  BY DEF Ordered
<1> QED BY <1>1, OrderedAlways, PTL

-----------------------------------------------------------------------------
(* What a joined line holds, without the backslashes that continue it.       *)

LEMMA ContentHeld ==
  ASSUME input \in Seq(Seq(Chars)), NEW i \in DOMAIN input
  PROVE  /\ Chomped(input[i]) \in Seq(Chars) /\ Content(i) = Held(Chomped(input[i]))
         /\ Content(i) \in Seq(Chars)
<1>1. input[i] \in Seq(Chars)
  OBVIOUS
<1>2. Chomped(input[i]) \in Seq(Chars)
  BY <1>1, ChompedContinues
<1>3. Content(i) = Held(Chomped(input[i]))
  BY DEF Content, Held
<1> QED BY <1>2, <1>3, ConsumedType DEF Held

\* The text of the lines from first to i, by that of the lines before i.
TextNext(first, i, text) ==
  IF i < first THEN <<>>
  ELSE IF ~Adds(i) THEN text
  ELSE IF \A j \in first..(i - 1) : ~Adds(j) THEN Content(i)
  ELSE Append(text, Blank) \o Content(i)

LEMMA TextFromAt ==
  ASSUME input \in Seq(Seq(Chars)), NEW first \in Nat \ {0}
  PROVE  \A i \in 0..Len(input) : TextFrom(first)[i] = TextNext(first, i, TextFrom(first)[i - 1])
<1> DEFINE N == Len(input)
           step == [p \in Nat \X Seq(Chars) |->
                      IF p[1] \in 1..N THEN TextNext(first, p[1], p[2]) ELSE p[2]]
<1>1. N \in Nat /\ DOMAIN input = 1..N
  OBVIOUS
<1>2. ASSUME NEW i \in 1..N, NEW t \in Seq(Chars) PROVE TextNext(first, i, t) \in Seq(Chars)
  <2>1. Content(i) \in Seq(Chars)
    BY <1>1, ContentHeld
  <2>2. Append(t, Blank) \o Content(i) \in Seq(Chars) /\ <<>> \in Seq(Chars)
    BY <2>1 DEF Chars, Blanks
  <2> QED BY <2>1, <2>2 DEF TextNext
<1>3. step \in [Nat \X Seq(Chars) -> Seq(Chars)]
  <2>1. ASSUME NEW p \in Nat \X Seq(Chars)
        PROVE  (IF p[1] \in 1..N THEN TextNext(first, p[1], p[2]) ELSE p[2]) \in Seq(Chars)
    <3>1. p[2] \in Seq(Chars)
      BY <2>1
    <3>2. p[1] \in 1..N => TextNext(first, p[1], p[2]) \in Seq(Chars)
      BY <1>2, <3>1
    <3> QED BY <3>1, <3>2
  <2> QED BY <2>1
<1>4. \A i \in 1..N, t \in Seq(Chars) : step[<<i, t>>] = TextNext(first, i, t)
  OBVIOUS
<1>5. <<>> \in Seq(Chars)
  OBVIOUS
<1> HIDE DEF step
<1>6. PICK f : Recurs(f, <<>>, step, Seq(Chars), N)
  BY <1>1, <1>3, <1>5, Recursion
<1>7. f \in [0..N -> Seq(Chars)] /\ \A i \in 0..N : f[i] = TextNext(first, i, f[i - 1])
  <2>1. f \in [0..N -> Seq(Chars)] /\ f[0] = <<>>
        /\ \A i \in 1..N : i - 1 \in 0..N /\ f[i] = step[<<i, f[i - 1]>>]
    BY <1>1, <1>6 DEF Recurs
  <2>2. \A i \in 1..N : f[i - 1] \in Seq(Chars)
    BY <2>1
  <2>3. \A i \in 1..N : f[i] = TextNext(first, i, f[i - 1])
    BY <1>4, <2>1, <2>2
  <2>4. \A i \in 0..N : i = 0 \/ i \in 1..N
    BY <1>1
  <2>5. TextNext(first, 0, f[0 - 1]) = <<>>
    BY DEF TextNext
  <2> QED BY <2>1, <2>3, <2>4, <2>5
<1>8. f = [i \in 0..N |-> TextNext(first, i, f[i - 1])]
  BY <1>7
<1>9. TextFrom(first) = [i \in 0..N |-> TextNext(first, i, TextFrom(first)[i - 1])]
  BY <1>8 DEF TextFrom, TextNext
<1> DEFINE g == TextFrom(first)
<1> HIDE DEF g
<1>10. g = [i \in 0..N |-> TextNext(first, i, g[i - 1])]
  BY <1>9 DEF g
<1>11. \A i \in 0..N : g[i] = TextNext(first, i, g[i - 1])
  BY <1>10
<1> QED BY <1>11 DEF g

\* The text of the lines from first to n, by that of the lines before n.
LEMMA TextAt ==
  ASSUME input \in Seq(Seq(Chars)), NEW n \in 1..Len(input), NEW first \in 1..n
  PROVE  /\ Text(first, first - 1) = <<>>
         /\ Text(first, n) = IF ~Adds(n) THEN Text(first, n - 1)
                             ELSE IF \A j \in first..(n - 1) : ~Adds(j) THEN Content(n)
                             ELSE Spaced(Text(first, n - 1), Content(n))
<1>1. \A i \in 0..Len(input) : Text(first, i) = TextNext(first, i, Text(first, i - 1))
  BY TextFromAt DEF Text
<1>2. /\ n \in 0..Len(input) /\ first - 1 \in 0..Len(input)
      /\ ~(n < first) /\ first - 1 < first
  OBVIOUS
<1>3. Text(first, first - 1) = <<>>
  BY <1>1, <1>2 DEF TextNext
<1>4. Text(first, n) = TextNext(first, n, Text(first, n - 1))
  BY <1>1, <1>2
<1> QED BY <1>2, <1>3, <1>4 DEF TextNext, Spaced

\* A line that is joined to a continued one: what both hold.
LEMMA HeldJoined ==
  ASSUME NEW head \in Seq(Chars), NEW text \in Seq(Chars), Stripped(head) = head,
         Continues(head) => Stripped(Held(text)) # <<>>
  PROVE  Held(Joined(head, text)) =
           IF head = <<>> THEN Held(text)
           ELSE IF Continues(text) /\ Held(text) = <<>> THEN head
           ELSE Spaced(head, Held(text))
<1>1. CASE head = <<>>
  BY <1>1 DEF Joined
<1>2. CASE head # <<>>
  <2>1. Joined(head, text) = Spaced(head, text)
    BY <1>2 DEF Joined, Spaced
  <2>2. Continues(Spaced(head, text)) <=> Continues(text)
    BY <2>1, JoinedContinues
  <2>3. CASE Continues(text)
    BY <1>2, <2>1, <2>2, <2>3, ConsumedSpaced DEF Held
  <2>4. CASE ~Continues(text)
    BY <1>2, <2>1, <2>2, <2>4 DEF Held
  <2> QED BY <2>3, <2>4
<1> QED BY <1>1, <1>2

\* A complete line is executed as it is, or as an empty one if it is blank.
LEMMA CompleteTokens ==
  ASSUME NEW text \in Seq(Chars), ~Continues(text)
  PROVE  Tokens(Consumed(text)) = Tokens(text)
<1>1. CASE Stripped(text) = <<>>
  <2>1. PICK n \in 0..Len(text) : /\ Stripped(text) = SubSeq(text, 1, n)
                                  /\ \A j \in (n + 1)..Len(text) : text[j] \in Blanks
    BY StrippedAt
  <2>2. n = 0
    <3>1. Len(SubSeq(text, 1, n)) = n
      OBVIOUS
    <3> QED BY <1>1, <2>1, <3>1
  <2>3. \A j \in 1..Len(text) : text[j] \in Blanks
    BY <2>1, <2>2
  <2>4. Tokens(text) = <<>>
    BY <2>3, BlankTokens
  <2>5. Tokens(<<>>) = <<>>
    <3>1. <<>> \in Seq(Chars) /\ 1..Len(<<>>) = {}
      OBVIOUS
    <3> QED BY <3>1, BlankTokens
  <2> QED BY <1>1, <2>4, <2>5 DEF Consumed
<1>2. CASE Stripped(text) # <<>>
  BY <1>2 DEF Consumed
<1> QED BY <1>1, <1>2

-----------------------------------------------------------------------------
(* What the commands say.                                                    *)

\* What the lines say does not change with the state.
LEMMA SameText ==
  ASSUME UNCHANGED <<source, input>>
  PROVE  /\ Unambiguous' <=> Unambiguous
         /\ \A i : Adds(i)' <=> Adds(i)
         /\ \A first, last : Text(first, last)' = Text(first, last)
<1>1. \A i : Adds(i)' <=> Adds(i)
  BY DEF Content, Adds, Chomped
<1>2. Unambiguous' <=> Unambiguous
  BY DEF Unambiguous, Content, Chomped
<1>3. ASSUME NEW first, NEW last PROVE Text(first, last)' = Text(first, last)
  BY DEF Text, TextFrom, Adds, Content, Chomped
<1> QED BY <1>1, <1>2, <1>3

\* What is put together so far is the text of its lines, and is empty as long as
\* no line adds anything.
Assembled ==
  /\ Held(line) = Text(from, next - 1)
  /\ Continues(line) => (Held(line) = <<>> <=> \A i \in from..(next - 1) : ~Adds(i))

\* What is about to be executed.
Ready ==
  /\ Tokens(line) = Tokens(Text(from, next - 1))
  /\ from <= next - 1 /\ \A i \in from..(next - 2) : Continues(input[i])

Written(command) == command.tokens = Tokens(Text(command.from, command.to))

Said ==
  Unambiguous =>
    /\ pc = "join" => Assembled
    /\ pc = "execute" => Ready
    /\ \A k \in DOMAIN executed : Written(executed[k])

\* A line that is joined to h, which the lines before it hold: h' is what all
\* of them hold.
LEMMA JoinedText ==
  ASSUME Inv, Unambiguous, LineContinued, Assembled
  PROVE  Assembled'
<1> DEFINE h == Consumed(line)
           t == Chomped(input[next])
           n == next
<1>1. /\ Typed /\ n <= Len(input) /\ Continues(line) /\ line' = Joined(h, t) /\ n' = n + 1
      /\ pc = "join" /\ UNCHANGED <<source, input, from>>
  BY DEF Inv, LineContinued
<1>2. /\ line \in Seq(Chars) /\ input \in Seq(Seq(Chars)) /\ n \in DOMAIN input
      /\ n \in 1..Len(input) /\ n \in Nat
  BY <1>1, NextLine DEF Typed
<1>3. t \in Seq(Chars) /\ Content(n) = Held(t) /\ Content(n) \in Seq(Chars)
  BY <1>2, ContentHeld
<1>4. h \in Seq(Chars) /\ Stripped(h) = h /\ h = Held(line)
  BY <1>1, <1>2, ConsumedType, ConsumedStripped DEF Held
<1>5. /\ Continues(h) => Stripped(Held(t)) # <<>>
      /\ from \in 1..(n - 1)
  BY <1>1, NoneBlank DEF Inv, Joining
<1>6. /\ h = Text(from, n - 1)
      /\ h = <<>> <=> \A i \in from..(n - 1) : ~Adds(i)
  BY <1>1, <1>4 DEF Assembled
<1>7. Adds(n) <=> Held(t) # <<>> \/ ~Continues(t)
  BY <1>3 DEF Adds
<1>8. Text(from, n) = IF ~Adds(n) THEN h
                      ELSE IF h = <<>> THEN Held(t) ELSE Spaced(h, Held(t))
  <2>1. from \in 1..n
    BY <1>2, <1>5
  <2>2. Text(from, n) = IF ~Adds(n) THEN Text(from, n - 1)
                        ELSE IF \A j \in from..(n - 1) : ~Adds(j) THEN Content(n)
                        ELSE Spaced(Text(from, n - 1), Content(n))
    BY <1>2, <2>1, TextAt
  <2> HIDE DEF h, t, n
  <2> QED BY <1>3, <1>6, <2>2
<1> HIDE DEF h, t
<1>9. Held(line') = IF h = <<>> THEN Held(t)
                    ELSE IF Continues(t) /\ Held(t) = <<>> THEN h ELSE Spaced(h, Held(t))
  BY <1>1, <1>3, <1>4, <1>5, HeldJoined
<1>10. Held(line') = Text(from, n)
  BY <1>7, <1>8, <1>9
<1>11. Continues(line') => (Held(line') = <<>> <=> \A i \in from..n : ~Adds(i))
  <2>1. Continues(line') <=> Continues(t)
    BY <1>1, <1>3, <1>4, <1>5, JoinedContinues
  <2>2. Spaced(h, Held(t)) # <<>>
    <3>1. Held(t) \in Seq(Chars)
      BY <1>3
    <3>2. Len(Spaced(h, Held(t))) = Len(h) + 1 + Len(Held(t))
      BY <1>4, <3>1, SpacedAt
    <3>3. Len(h) \in Nat /\ Len(Held(t)) \in Nat
      BY <1>4, <3>1
    <3>4. Len(Spaced(h, Held(t))) # 0
      BY <3>2, <3>3
    <3> QED BY <3>4
  <2>3. (\A i \in from..n : ~Adds(i)) <=> ~Adds(n) /\ \A i \in from..(n - 1) : ~Adds(i)
    <3>1. \A i : i \in from..n <=> i = n \/ i \in from..(n - 1)
      BY <1>2, <1>5
    <3> QED BY <3>1
  <2> QED BY <1>6, <1>7, <1>9, <2>1, <2>2, <2>3
<1>12. n' - 1 = n
  BY <1>1, <1>2
<1>13. /\ \A i : Adds(i)' <=> Adds(i)
       /\ \A first, last : Text(first, last)' = Text(first, last)
  BY <1>1, SameText
<1> QED BY <1>1, <1>10, <1>11, <1>12, <1>13 DEF Assembled, Held

\* A command is executed behind those before it.
LEMMA ExecutedAppended ==
  ASSUME Inv, NEW command, executed' = Append(executed, command)
  PROVE  /\ Len(executed) \in Nat /\ DOMAIN executed = 1..Len(executed)
         /\ DOMAIN executed' = 1..(Len(executed) + 1) /\ executed'[Len(executed) + 1] = command
         /\ \A k \in 1..Len(executed) : executed'[k] = executed[k]
<1> DEFINE T == {Split(text) : text \in Seq(Chars)}
           E == [from : Int, to : Int, tokens : T]
<1>1. executed \in Seq(E)
  BY DEF Inv, Typed
<1> HIDE DEF E
<1> QED BY <1>1

\* What does not execute anything leaves alone what the commands say.
LEMMA WrittenKept ==
  ASSUME Said, Unambiguous, UNCHANGED <<source, input, executed>>
  PROVE  \A k \in DOMAIN executed' : Written(executed[k])'
<1>1. \A first, last : Text(first, last)' = Text(first, last)
  BY SameText
<1>2. \A k \in DOMAIN executed : Written(executed[k])
  BY DEF Said
<1> QED BY <1>1, <1>2 DEF Written

LEMMA LineReadSaid ==
  ASSUME Inv, Said, LineRead
  PROVE  Said'
<1> DEFINE n == next
<1>1. /\ Typed /\ n <= Len(input) /\ pc' = "join" /\ line' = Chomped(input[n])
      /\ from' = n /\ n' = n + 1 /\ UNCHANGED <<source, input, executed>>
  BY DEF Inv, LineRead
<1>2. SUFFICES ASSUME Unambiguous PROVE Assembled' /\ \A k \in DOMAIN executed' : Written(executed[k])'
  BY <1>1, SameText DEF Said
<1>3. /\ input \in Seq(Seq(Chars)) /\ n \in DOMAIN input /\ n \in 1..Len(input) /\ n \in Nat
      /\ n \in 1..n /\ n..(n - 1) = {} /\ n' - 1 = n
  BY <1>1 DEF Typed
<1>4. Content(n) = Held(line')
  BY <1>1, <1>3, ContentHeld
<1>5. Text(n, n) = IF ~Adds(n) THEN <<>> ELSE Content(n)
  BY <1>3, TextAt
<1>6. Adds(n) <=> Held(line') # <<>> \/ ~Continues(line')
  BY <1>1, <1>4 DEF Adds
<1>7. \A i : i \in n..n <=> i = n
  BY <1>3
<1>8. /\ \A i : Adds(i)' <=> Adds(i)
      /\ \A first, last : Text(first, last)' = Text(first, last)
  BY <1>1, SameText
<1> HIDE DEF n
<1>9. Held(line') = Text(n, n) /\ (Continues(line') => (Held(line') = <<>> <=> ~Adds(n)))
  BY <1>4, <1>5, <1>6
<1>10. /\ Held(line') = Text(from', n' - 1)
       /\ Continues(line') => (Held(line') = <<>> <=> \A i \in from'..(n' - 1) : ~Adds(i))
  BY <1>1, <1>3, <1>7, <1>9
<1>11. Assembled'
  BY <1>8, <1>10 DEF Assembled, Held, n
<1> QED BY <1>1, <1>2, <1>11, WrittenKept

LEMMA JoiningSaid ==
  ASSUME Inv, Said, LineContinued
  PROVE  Said'
<1>1. pc = "join" /\ pc' = "join" /\ UNCHANGED <<source, input, executed>>
  BY DEF LineContinued
<1>2. SUFFICES ASSUME Unambiguous PROVE Assembled' /\ \A k \in DOMAIN executed' : Written(executed[k])'
  BY <1>1, SameText DEF Said
<1>3. Assembled'
  BY <1>1, <1>2, JoinedText DEF Said
<1> QED BY <1>1, <1>2, <1>3, WrittenKept

LEMMA ToBeExecutedSaid ==
  ASSUME Inv, Said, LineComplete \/ ContinuationMissing
  PROVE  Said'
<1>1. /\ Typed /\ pc = "join" /\ pc' = "execute" /\ line' = Consumed(line)
      /\ UNCHANGED <<source, input, next, from, executed>>
  BY DEF Inv, LineComplete, ContinuationMissing
<1>2. SUFFICES ASSUME Unambiguous PROVE Ready' /\ \A k \in DOMAIN executed' : Written(executed[k])'
  BY <1>1, SameText DEF Said
<1>3. line \in Seq(Chars) /\ next \in Nat
  BY <1>1 DEF Typed
<1>4. Held(line) = Text(from, next - 1)
  BY <1>1, <1>2 DEF Said, Assembled
<1>5. Tokens(Consumed(line)) = Tokens(Held(line))
  BY <1>3, CompleteTokens DEF Held
<1>6. from \in 1..(next - 1) /\ \A i \in from..(next - 2) : Continues(input[i])
  BY <1>1, <1>2 DEF Inv, Joining
<1>7. \A first, last : Text(first, last)' = Text(first, last)
  BY <1>1, SameText
<1>8. Tokens(line') = Tokens(Text(from, next - 1))
  BY <1>1, <1>4, <1>5
<1>9. from <= next - 1
  BY <1>3, <1>6
<1>10. Ready'
  BY <1>1, <1>6, <1>7, <1>8, <1>9 DEF Ready
<1> QED BY <1>1, <1>2, <1>10, WrittenKept

\* What is executed are the tokens of its lines.
LEMMA ExecutedSaid ==
  ASSUME Inv, Said, LineExecuted
  PROVE  Said'
<1> DEFINE command == [from |-> from, to |-> next - 1, tokens |-> Split(line)]
           m == Len(executed)
<1>1. /\ Typed /\ pc = "execute" /\ pc' = "read" /\ executed' = Append(executed, command)
      /\ UNCHANGED <<source, input, next, line, from>>
  BY DEF Inv, LineExecuted
<1>2. SUFFICES ASSUME Unambiguous PROVE \A k \in DOMAIN executed' : Written(executed[k])'
  BY <1>1, SameText DEF Said
<1>3. Written(command)
  <2>1. Split(line) = Tokens(line)
    BY <1>1, SplitIsTokens DEF Typed
  <2>2. Tokens(line) = Tokens(Text(from, next - 1))
    BY <1>1, <1>2 DEF Said, Ready
  <2> QED BY <2>1, <2>2 DEF Written
<1>4. /\ m \in Nat /\ DOMAIN executed = 1..m
      /\ DOMAIN executed' = 1..(m + 1) /\ executed'[m + 1] = command
      /\ \A k \in 1..m : executed'[k] = executed[k]
  BY <1>1, ExecutedAppended
<1> HIDE DEF command, m
<1>5. \A k \in 1..m : Written(executed[k])
  BY <1>2, <1>4 DEF Said
<1>6. \A k \in 1..(m + 1) : Written(executed'[k])
  <2>1. \A k \in 1..(m + 1) : k = m + 1 \/ k \in 1..m
    BY <1>4
  <2> QED BY <1>3, <1>4, <1>5, <2>1
<1>7. \A first, last : Text(first, last)' = Text(first, last)
  BY <1>1, SameText
<1> QED BY <1>4, <1>6, <1>7 DEF Written

LEMMA OtherwiseSaid ==
  ASSUME Inv, Said,
         InputEnds \/ ContinuationCancelled \/ LineSkipped \/ UNCHANGED vars
  PROVE  Said'
<1>1. /\ UNCHANGED <<source, input, executed, next, from>>
      /\ (pc' = "read" \/ pc' = "done") \/ UNCHANGED <<pc, line>>
  BY DEF InputEnds, ContinuationCancelled, LineSkipped, vars
<1>2. SUFFICES ASSUME Unambiguous
               PROVE  /\ pc' = "join" => Assembled'
                      /\ pc' = "execute" => Ready'
                      /\ \A k \in DOMAIN executed' : Written(executed[k])'
  BY <1>1, SameText DEF Said
<1>3. /\ \A i : Adds(i)' <=> Adds(i)
      /\ \A first, last : Text(first, last)' = Text(first, last)
  BY <1>1, SameText
<1>4. pc' = "join" => Assembled'
  BY <1>1, <1>2, <1>3 DEF Said, Assembled, Held
<1>5. pc' = "execute" => Ready'
  BY <1>1, <1>2, <1>3 DEF Said, Ready
<1> QED BY <1>1, <1>2, <1>4, <1>5, WrittenKept

\* Commands say what their lines say, in every behaviour.
LEMMA SaidAlways == Spec => []Said
<1>1. Init => Said
  BY DEF Init, Said
<1>2. ASSUME Inv, Said, [Next]_vars PROVE Said'
  <2>1. CASE LineRead
    BY <1>2, <2>1, LineReadSaid
  <2>2. CASE LineContinued
    BY <1>2, <2>2, JoiningSaid
  <2>3. CASE LineComplete \/ ContinuationMissing
    BY <1>2, <2>3, ToBeExecutedSaid
  <2>4. CASE LineExecuted
    BY <1>2, <2>4, ExecutedSaid
  <2>5. CASE InputEnds \/ ContinuationCancelled \/ LineSkipped \/ UNCHANGED vars
    BY <1>2, <2>5, OtherwiseSaid
  <2> QED BY <1>2, <2>1, <2>2, <2>3, <2>4, <2>5 DEF Next, Done
<1> QED BY <1>1, <1>2, Invariance, PTL DEF Spec

\* A command consists of the tokens that its lines, joined, say, whatever the
\* lines.
THEOREM TokensProper == Spec => []TokensAsWritten
<1>1. Said => TokensAsWritten
  BY DEF Said, Written, TokensAsWritten
<1> QED BY <1>1, SaidAlways, PTL

-----------------------------------------------------------------------------
(* The commands of a script, all of them.                                    *)

\* The lines before limit at which a command begins that is not ignored.
Commands(limit) ==
  {i \in DOMAIN input : i < limit /\ Begins(i) /\ IsCommand(Tokens(Text(i, LastOf(i))))}

Listed ==
  Unambiguous /\ source = "script" =>
    /\ [k \in DOMAIN executed |-> executed[k].from] =
         Ascending(Commands(IF pc \in {"join", "execute"} THEN from ELSE next))
    /\ pc = "done" => next > Len(input)

LEMMA CommandsFinite ==
  ASSUME input \in Seq(Seq(Chars)), NEW limit
  PROVE  /\ IsFiniteSet(Commands(limit)) /\ Commands(limit) \subseteq Int
         /\ \A i \in Commands(limit) : i < limit
<1>1. Commands(limit) \subseteq 1..Len(input) /\ Len(input) \in Nat
  BY DEF Commands
<1>2. IsFiniteSet(1..Len(input))
  BY <1>1, FS_Interval
<1>3. IsFiniteSet(Commands(limit))
  BY <1>1, <1>2, SubsetOfFinite
<1> QED BY <1>1, <1>3 DEF Commands

LEMMA SameCommands ==
  ASSUME UNCHANGED <<source, input>>
  PROVE  \A limit : Commands(limit)' = Commands(limit)
<1>1. \A first, last : Text(first, last)' = Text(first, last)
  BY SameText
<1>2. \A i : LastOf(i)' = LastOf(i) /\ (Begins(i)' <=> Begins(i))
  BY DEF LastOf, Begins
<1> QED BY <1>1, <1>2 DEF Commands

\* The lines of a command end where the first of them that is not continued does.
LEMMA LastLine ==
  ASSUME input \in Seq(Seq(Chars)), NEW first \in Nat, NEW last \in first..Len(input),
         \A i \in first..(last - 1) : Continues(input[i]),
         last = Len(input) \/ ~Continues(input[last])
  PROVE  LastOf(first) = last
<1> DEFINE S == {j \in first..Len(input) : j = Len(input) \/ ~Continues(input[j])}
<1>1. last \in S /\ last \in Int
  OBVIOUS
<1>2. \A j \in S : last =< j
  <2>1. TAKE j \in S
  <2>2. SUFFICES ASSUME ~(last =< j) PROVE FALSE
    OBVIOUS
  <2>3. j \in first..(last - 1) /\ j # Len(input)
    BY <2>2
  <2> QED BY <2>3
<1>3. \A j \in S : j \in Int
  OBVIOUS
<1>4. LastOf(first) = Min(S)
  BY DEF LastOf
<1> HIDE DEF S
<1>5. Min(S) \in S /\ \A j \in S : Min(S) =< j
  <2>1. \E x \in S : \A j \in S : x =< j
    BY <1>1, <1>2
  <2> QED BY <2>1 DEF Min
<1>6. Min(S) \in Int /\ Min(S) =< last /\ last =< Min(S)
  BY <1>1, <1>2, <1>3, <1>5
<1> QED BY <1>1, <1>4, <1>6

\* No command begins within the lines of another.
LEMMA NextCommands ==
  ASSUME Inv, Ordered, Said, Unambiguous, source = "script", pc = "execute"
  PROVE  /\ Commands(next) = IF IsCommand(Split(line)) THEN Commands(from) \union {from}
                             ELSE Commands(from)
         /\ from \in Int
<1>1. /\ Typed /\ Ready /\ Complete(from, next - 1) /\ Begins(from)
  BY DEF Inv, Said, Ordered, AtBeginning
<1>2. /\ input \in Seq(Seq(Chars)) /\ Len(input) \in Nat /\ from \in Nat \ {0} /\ next \in Nat
      /\ next <= Len(input) + 1 /\ line \in Seq(Chars) /\ from <= next - 1
  BY <1>1 DEF Typed, Ready
<1>3. \A i \in from..(next - 2) : Continues(input[i])
  BY <1>1 DEF Ready
<1>4. LastOf(from) = next - 1
  <2>1. next - 1 \in from..Len(input) /\ next - 1 - 1 = next - 2
    BY <1>2
  <2>2. next - 1 = Len(input) \/ ~Continues(input[next - 1])
    BY <1>1 DEF Complete, Whole
  <2> QED BY <1>2, <1>3, <2>1, <2>2, LastLine
<1>5. IsCommand(Tokens(Text(from, LastOf(from)))) <=> IsCommand(Split(line))
  BY <1>1, <1>2, <1>4, SplitIsTokens DEF Ready
<1>6. \A i \in DOMAIN input : i < next /\ Begins(i) => i < from \/ i = from
  <2>1. TAKE i \in DOMAIN input
  <2>2. SUFFICES ASSUME i < next, Begins(i), from < i PROVE FALSE
    BY <1>2
  <2>3. i \in Nat /\ i - 1 \in from..(next - 2) /\ i # 1
    BY <1>2, <2>2
  <2> QED BY <1>3, <2>2, <2>3 DEF Begins
<1>7. \A i \in DOMAIN input : i < from => i < next
  BY <1>2
<1>8. from \in DOMAIN input /\ from < next /\ ~(from < from) /\ from \in Int
  BY <1>2
<1> QED BY <1>1, <1>5, <1>6, <1>7, <1>8 DEF Commands

\* Equal intervals have equal ends.
LEMMA SameLength ==
  ASSUME NEW m \in Nat, NEW n \in Nat, 1..m = 1..n
  PROVE  m = n
<1>1. ~(m < n)
  <2>1. m < n => n \in 1..n /\ n \notin 1..m
    OBVIOUS
  <2> QED BY <2>1
<1>2. ~(n < m)
  <2>1. n < m => m \in 1..m /\ m \notin 1..n
    OBVIOUS
  <2> QED BY <2>1
<1> QED BY <1>1, <1>2

LEMMA ExecutedListed ==
  ASSUME Inv, Ordered, Said, Listed, LineExecuted
  PROVE  Listed'
<1> DEFINE command == [from |-> from, to |-> next - 1, tokens |-> Split(line)]
           m == Len(executed)
           C == Commands(from)
           D == Commands(next)
<1>1. /\ Typed /\ pc = "execute" /\ pc' = "read" /\ executed' = Append(executed, command)
      /\ IsCommand(Split(line)) /\ UNCHANGED <<source, input, next, line, from>>
  BY DEF Inv, LineExecuted
<1>2. SUFFICES ASSUME Unambiguous, source = "script"
               PROVE  [k \in DOMAIN executed' |-> executed'[k].from] = Ascending(D)
  <2>1. Commands(next)' = Commands(next)
    BY <1>1, SameCommands
  <2>2. Unambiguous' <=> Unambiguous
    BY <1>1, SameText
  <2> QED BY <1>1, <2>1, <2>2 DEF Listed
<1>3. D = C \union {from} /\ from \in Int
  BY <1>1, <1>2, NextCommands
<1>4. IsFiniteSet(C) /\ C \subseteq Int /\ \A i \in C : i < from
  BY <1>1, CommandsFinite DEF Typed
<1>5. [k \in DOMAIN executed |-> executed[k].from] = Ascending(C)
  BY <1>1, <1>2 DEF Listed
<1>6. /\ m \in Nat /\ DOMAIN executed = 1..m
      /\ DOMAIN executed' = 1..(m + 1) /\ executed'[m + 1] = command
      /\ \A k \in 1..m : executed'[k] = executed[k]
  BY <1>1, ExecutedAppended
<1>7. command.from = from
  OBVIOUS
<1> HIDE DEF command, m, C, D
<1>8. /\ Cardinality(C) \in Nat /\ Cardinality(D) = Cardinality(C) + 1
      /\ \A k \in 1..Cardinality(C) : Ascending(D)[k] = Ascending(C)[k]
      /\ Ascending(D)[Cardinality(C) + 1] = from
  BY <1>3, <1>4, AscendingAppend
<1>9. DOMAIN Ascending(C) = 1..Cardinality(C) /\ DOMAIN Ascending(D) = 1..Cardinality(D)
  BY DEF Ascending
<1>10. m = Cardinality(C)
  <2>1. 1..m = 1..Cardinality(C)
    BY <1>5, <1>6, <1>9
  <2> QED BY <1>6, <1>8, <2>1, SameLength
<1>11. \A k \in 1..m : executed[k].from = Ascending(C)[k]
  BY <1>5, <1>6
<1>12. \A k \in 1..(m + 1) : executed'[k].from = Ascending(D)[k]
  <2>1. \A k \in 1..(m + 1) : k = m + 1 \/ k \in 1..m
    BY <1>6
  <2> QED BY <1>6, <1>7, <1>8, <1>10, <1>11, <2>1
<1>13. Ascending(D) = [k \in 1..(m + 1) |-> Ascending(D)[k]]
  <2>1. Ascending(D) = [k \in DOMAIN Ascending(D) |-> Ascending(D)[k]]
    BY DEF Ascending
  <2> QED BY <1>8, <1>9, <1>10, <2>1
<1> QED BY <1>6, <1>12, <1>13

\* What does not execute anything lists nothing.
LEMMA OtherwiseListed ==
  ASSUME Inv, Ordered, Said, Listed, [Next]_vars, ~LineExecuted
  PROVE  Listed'
<1> DEFINE limit == IF pc \in {"join", "execute"} THEN from ELSE next
<1>1. UNCHANGED <<source, input, executed>>
  BY DEF Next, vars, LineRead, InputEnds, LineContinued, ContinuationMissing,
         ContinuationCancelled, LineComplete, LineSkipped, Done
<1>2. SUFFICES ASSUME Unambiguous, source = "script"
               PROVE  /\ Commands(limit') = Commands(limit)
                      /\ pc' = "done" => next' > Len(input)
  <2>1. Unambiguous' <=> Unambiguous
    BY <1>1, SameText
  <2>2. Commands(limit)' = Commands(limit')
    BY <1>1, SameCommands
  <2> QED BY <1>1, <2>1, <2>2 DEF Listed
<1>3. pc' = "done" => next' > Len(input)
  BY <1>2 DEF Listed, Next, vars, LineRead, InputEnds, LineContinued, ContinuationMissing,
     ContinuationCancelled, LineComplete, LineSkipped, Done
<1>4. CASE LineSkipped
  <2>1. limit = from /\ limit' = next /\ pc = "execute" /\ ~IsCommand(Split(line))
    BY <1>4 DEF LineSkipped
  <2> QED BY <1>2, <1>3, <2>1, NextCommands
<1>5. CASE ~LineSkipped
  <2>1. limit' = limit
    BY <1>2, <1>5 DEF Next, vars, LineRead, InputEnds, LineContinued, ContinuationMissing,
       ContinuationCancelled, LineComplete, Done
  <2> QED BY <1>3, <2>1
<1> QED BY <1>4, <1>5

\* A script executes each of its commands, in the order of its file, whatever
\* and however many its lines.
THEOREM EveryCommandExecuted == Spec => []EveryCommand
<1>1. Init => Listed
  <2> SUFFICES ASSUME Init PROVE Listed
    OBVIOUS
  <2>1. Commands(1) = {}
    <3>1. input \in Seq(Seq(Chars))
      BY LinesAssumption DEF Init
    <3>2. \A i \in DOMAIN input : ~(i < 1)
      BY <3>1
    <3> QED BY <3>2 DEF Commands
  <2>2. [k \in DOMAIN executed |-> executed[k].from] = <<>>
    BY DEF Init
  <2> QED BY <2>1, <2>2, AscendingEmpty DEF Init, Listed
<1>2. ASSUME Inv, Ordered, Said, Listed, [Next]_vars PROVE Listed'
  BY <1>2, ExecutedListed, OtherwiseListed
<1>3. Inv /\ Listed => EveryCommand
  <2> SUFFICES ASSUME Inv, Listed, Unambiguous, source = "script", pc = "done"
               PROVE  [k \in DOMAIN executed |-> executed[k].from] =
                        Ascending({i \in DOMAIN input :
                                     Begins(i) /\ IsCommand(Tokens(Text(i, LastOf(i))))})
    BY DEF EveryCommand
  <2>1. next > Len(input) /\ [k \in DOMAIN executed |-> executed[k].from] = Ascending(Commands(next))
    BY DEF Listed
  <2>2. \A i \in DOMAIN input : i < next
    BY <2>1 DEF Inv, Typed
  <2>3. Commands(next) = {i \in DOMAIN input : Begins(i) /\ IsCommand(Tokens(Text(i, LastOf(i))))}
    BY <2>2 DEF Commands
  <2> QED BY <2>1, <2>3
<1> QED BY <1>1, <1>2, <1>3, Invariance, OrderedAlways, SaidAlways, PTL DEF Spec

=============================================================================
