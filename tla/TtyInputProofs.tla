---------------------------- MODULE TtyInputProofs ----------------------------
(***************************************************************************)
(* Proofs about the line that is read, for any sizes of characters, any    *)
(* number of keys and any chunks: no character of it is ever cut in two,   *)
(* Backspace erases one character, or, in one case only, two, and what is  *)
(* returned is what the user means, if all characters are of one kind.     *)
(***************************************************************************)
EXTENDS TtyInput, SequenceTheorems, TLAPS

\* What was typed and not edited away: the buffer and the bytes that are still to come.
Stream == data \o chunk \o pending

\* Each text byte of s belongs to a character that is there as a whole.
Whole(s) == \A i \in 1..Len(s) : s[i] \in Text => InCharacter(s, i)

\* The buffer alone may end inside a character; the stream is whole at all times.
IInv ==
  /\ TypeOK
  /\ Whole(meant)
  /\ outcome = "reading" => data \in Seq(Text) /\ Whole(Stream)
  /\ ReturnsWholeCharacters

-------------------------------------------------------------------------------
LEMMA Utf8Bytes ==
  ASSUME NEW n \in CharSize
  PROVE  /\ n \in 1..4
         /\ Utf8(n) \in Seq(Text) /\ Len(Utf8(n)) = n
         /\ Utf8(n)[1] # "cont"
         /\ \A j \in 1..n : j > 1 => Utf8(n)[j] = "cont"
<1>1. n \in 1..4
  BY SizesAreUtf8
<1>2. DOMAIN Utf8(n) = 1..n /\ \A j \in 1..n : Utf8(n)[j] \in Text
  BY DEF Utf8, Text
<1>3. Utf8(n) \in [1..n -> Text]
  BY <1>2 DEF Utf8
<1>4. Utf8(n) \in Seq(Text)
  BY <1>1, <1>3, SeqDef
<1>5. Len(Utf8(n)) = n
  BY <1>1, <1>2, <1>4, LenProperties
<1>6. QED
  BY <1>1, <1>4, <1>5 DEF Utf8

\* A command byte and the m+1st to the last byte before it go, and the rest moves up. No
\* character is cut when the m+1st byte is not in the middle of one. The same is true of
\* the first m bytes alone.
LEMMA CutIsWhole ==
  ASSUME NEW w \in Seq(Byte), Whole(w),
         NEW c \in 1..Len(w), w[c] \in Command,
         NEW m \in 0..c - 1, m = 0 \/ w[m + 1] # "cont",
         NEW v \in Seq(Byte), Len(v) \in {m, Len(w) - (c - m)},
         \A i \in 1..Len(v) : v[i] = IF i <= m THEN w[i] ELSE w[i + (c - m)]
  PROVE  Whole(v)
<1>0. /\ Len(w) \in Nat
      /\ Len(v) \in Nat
      /\ c \in 1..Len(w) /\ m \in Nat /\ m < c
      /\ w[c] \notin Text
  <2>1. \A b \in Command : b \notin Text
    BY DEF Command, Text
  <2>2. QED
    BY <2>1, LenProperties
<1>1. \A n \in CharSize : n \in 1..4
  BY SizesAreUtf8
<1> SUFFICES ASSUME NEW i \in 1..Len(v), v[i] \in Text
             PROVE  InCharacter(v, i)
  BY DEF Whole
<1>2. CASE i <= m
  <2>1. w[i] = v[i] /\ i \in 1..Len(w)
    BY <1>0, <1>2
  <2>2. PICK n \in CharSize, f \in 1..i :
          /\ i < f + n /\ f + n <= Len(w) + 1
          /\ \A j \in 1..n : w[f + j - 1] = Utf8(n)[j]
          /\ f + n <= Len(w) => w[f + n] # "cont"
    BY <2>1 DEF Whole, InCharacter
  <2>3. n \in 1..4 /\ \A j \in 1..n : Utf8(n)[j] \in Text /\ (j > 1 => Utf8(n)[j] = "cont")
    BY <1>1, Utf8Bytes DEF Utf8, Text
  <2>4. f + n <= m + 1
    <3>1. SUFFICES ASSUME f + n > m + 1 PROVE FALSE
      BY <1>0, <2>3
    <3> DEFINE k == m + 2 - f
    <3>2. k \in 1..n /\ k > 1 /\ f + k - 1 = m + 1
      BY <1>0, <1>2, <2>3, <3>1
    <3>3. w[m + 1] = Utf8(n)[k] /\ Utf8(n)[k] = "cont"
      BY <2>2, <2>3, <3>2
    <3>4. QED
      BY <1>0, <1>2, <3>3
  <2>5. \A j \in 1..n : v[f + j - 1] = Utf8(n)[j]
    <3> SUFFICES ASSUME NEW j \in 1..n PROVE v[f + j - 1] = Utf8(n)[j]
      OBVIOUS
    <3>1. f + j - 1 \in 1..Len(v) /\ f + j - 1 <= m
      BY <1>0, <1>2, <2>3, <2>4
    <3>2. QED
      BY <2>2, <3>1
  <2>6. f + n <= Len(v) => v[f + n] # "cont"
    <3> SUFFICES ASSUME f + n <= Len(v), v[f + n] = "cont" PROVE FALSE
      OBVIOUS
    <3>1. CASE f + n <= m
      BY <1>0, <2>2, <2>3, <3>1
    <3>2. CASE f + n = m + 1
      <4>1. c + 1 \in 1..Len(w) /\ w[c + 1] = "cont"
        BY <1>0, <3>2
      <4>2. PICK p \in CharSize, g \in 1..c + 1 :
              /\ c + 1 < g + p /\ g + p <= Len(w) + 1
              /\ \A j \in 1..p : w[g + j - 1] = Utf8(p)[j]
        BY <4>1 DEF Whole, InCharacter, Text
      <4>3. p \in 1..4 /\ Utf8(p)[1] # "cont" /\ \A j \in 1..p : Utf8(p)[j] \in Text
        BY <1>1, Utf8Bytes DEF Utf8, Text
      <4>4. g # c + 1
        BY <1>0, <4>1, <4>2, <4>3
      <4>5. c - g + 1 \in 1..p /\ g + (c - g + 1) - 1 = c
        BY <1>0, <4>2, <4>3, <4>4
      <4>6. w[c] \in Text
        BY <4>2, <4>3, <4>5
      <4>7. QED
        BY <1>0, <4>6
    <3>3. QED
      BY <1>0, <2>3, <2>4, <3>1, <3>2
  <2>7. f + n <= Len(v) + 1
    BY <1>0, <2>3, <2>4
  <2>8. QED
    BY <2>2, <2>5, <2>6, <2>7 DEF InCharacter
<1>3. CASE i > m
  <2> DEFINE d == c - m
  <2>0. d \in Nat /\ Len(v) = Len(w) - d /\ d > 0
    BY <1>0, <1>3
  <2>1. w[i + d] = v[i] /\ i + d \in 1..Len(w) /\ i + d > c
    BY <1>0, <1>3, <2>0
  <2>2. PICK n \in CharSize, f \in 1..i + d :
          /\ i + d < f + n /\ f + n <= Len(w) + 1
          /\ \A j \in 1..n : w[f + j - 1] = Utf8(n)[j]
          /\ f + n <= Len(w) => w[f + n] # "cont"
    BY <2>1 DEF Whole, InCharacter
  <2>3. n \in 1..4 /\ \A j \in 1..n : Utf8(n)[j] \in Text
    BY <1>1, Utf8Bytes DEF Utf8, Text
  <2>4. f > c
    <3>1. SUFFICES ASSUME f <= c PROVE FALSE
      BY <1>0, <2>0
    <3>2. c - f + 1 \in 1..n /\ f + (c - f + 1) - 1 = c
      BY <1>0, <2>0, <2>1, <2>2, <2>3, <3>1
    <3>3. QED
      BY <1>0, <2>2, <2>3, <3>2
  <2> DEFINE g == f - d
  <2>5. g \in 1..i /\ g > m /\ i < g + n /\ g + n <= Len(v) + 1
    BY <1>0, <2>0, <2>2, <2>3, <2>4
  <2>6. \A j \in 1..n : v[g + j - 1] = Utf8(n)[j]
    <3> SUFFICES ASSUME NEW j \in 1..n PROVE v[g + j - 1] = Utf8(n)[j]
      OBVIOUS
    <3>1. g + j - 1 \in 1..Len(v) /\ ~(g + j - 1 <= m) /\ g + j - 1 + d = f + j - 1
      BY <1>0, <2>0, <2>3, <2>5
    <3>2. QED
      BY <2>2, <3>1
  <2>7. g + n <= Len(v) => v[g + n] # "cont"
    <3>1. SUFFICES ASSUME g + n <= Len(v) PROVE v[g + n] # "cont"
      OBVIOUS
    <3>2. g + n \in 1..Len(v) /\ ~(g + n <= m) /\ g + n + d = f + n /\ f + n <= Len(w)
      BY <1>0, <2>0, <2>3, <2>5, <3>1
    <3>3. QED
      BY <2>2, <3>2
  <2>8. QED
    BY <2>5, <2>6, <2>7 DEF InCharacter
<1>4. QED
  BY <1>0, <1>2, <1>3

\* A key is one more character, or a command byte that belongs to none.
LEMMA KeyIsWhole ==
  ASSUME NEW w \in Seq(Byte), Whole(w), NEW key \in Key
  PROVE  /\ key \in Seq(Byte)
         /\ Whole(w \o key)
<1>0. Len(w) \in Nat /\ \A b \in Command : b \notin Text
  BY LenProperties DEF Command, Text
<1>1. CASE key \in Character
  <2>1. PICK p \in CharSize : key = Utf8(p)
    BY <1>1 DEF Character
  <2>2. /\ p \in 1..4 /\ key \in Seq(Text) /\ Len(key) = p
        /\ key[1] # "cont"
    BY <2>1, Utf8Bytes
  <2>3. key \in Seq(Byte)
    BY <2>2, SeqMonotonic DEF Byte
  <2> DEFINE v == w \o key
  <2>4. /\ Len(v) = Len(w) + p
        /\ \A i \in 1..Len(w) + p : v[i] = IF i <= Len(w) THEN w[i] ELSE key[i - Len(w)]
    BY <2>2, <2>3, ConcatProperties
  <2> HIDE DEF v
  <2>5. ASSUME NEW i \in 1..Len(v), v[i] \in Text
        PROVE  InCharacter(v, i)
    <3>1. CASE i <= Len(w)
      <4>1. w[i] \in Text /\ i \in 1..Len(w)
        BY <1>0, <2>2, <2>4, <2>5, <3>1
      <4>2. PICK n \in CharSize, f \in 1..i :
              /\ i < f + n /\ f + n <= Len(w) + 1
              /\ \A j \in 1..n : w[f + j - 1] = Utf8(n)[j]
              /\ f + n <= Len(w) => w[f + n] # "cont"
        BY <4>1 DEF Whole, InCharacter
      <4>3. n \in 1..4
        BY Utf8Bytes
      <4>4. ASSUME NEW j \in 1..n PROVE v[f + j - 1] = Utf8(n)[j]
        <5>1. f + j - 1 \in 1..Len(w) /\ w[f + j - 1] = Utf8(n)[j]
          BY <1>0, <4>1, <4>2, <4>3
        <5>2. v[f + j - 1] = w[f + j - 1]
          BY <1>0, <2>2, <2>4, <5>1
        <5>3. QED
          BY <5>1, <5>2
      <4>5. v[f + n] # "cont"
        <5>1. CASE f + n <= Len(w)
          BY <1>0, <2>2, <2>4, <4>1, <4>2, <4>3, <5>1
        <5>2. CASE f + n = Len(w) + 1
          BY <1>0, <2>2, <2>4, <5>2
        <5>3. QED
          BY <1>0, <4>1, <4>2, <4>3, <5>1, <5>2
      <4>6. f + n <= Len(v) + 1
        BY <1>0, <2>2, <2>4, <4>1, <4>2, <4>3
      <4>7. QED
        BY <4>2, <4>4, <4>5, <4>6 DEF InCharacter
    <3>2. CASE i > Len(w)
      <4> DEFINE f == Len(w) + 1
      <4>1. f \in 1..i /\ i < f + p /\ f + p = Len(v) + 1
        BY <1>0, <2>2, <2>4, <3>2
      <4>2. \A j \in 1..p : v[f + j - 1] = Utf8(p)[j]
        BY <1>0, <2>1, <2>2, <2>4
      <4>3. ~(f + p <= Len(v))
        BY <1>0, <2>2, <2>4
      <4>4. QED
        BY <4>1, <4>2, <4>3 DEF InCharacter
    <3>3. QED
      BY <1>0, <2>2, <2>4, <3>1, <3>2
  <2>6. QED
    BY <2>3, <2>5 DEF Whole, v
<1>2. CASE key \in {<<b>> : b \in Command}
  <2>1. PICK b \in Command : key = <<b>>
    BY <1>2
  <2>2. b \in Byte /\ b \notin Text /\ b # "cont"
    BY <1>0, <2>1 DEF Byte, Command
  <2>3. key \in Seq(Byte) /\ Len(key) = 1 /\ key[1] = b
    BY <2>1, <2>2
  <2> DEFINE v == w \o key
  <2>4. /\ Len(v) = Len(w) + 1
        /\ \A i \in 1..Len(w) : v[i] = w[i]
        /\ v[Len(w) + 1] = b
    BY <1>0, <2>3, ConcatProperties
  <2> HIDE DEF v
  <2>5. ASSUME NEW i \in 1..Len(v), v[i] \in Text
        PROVE  InCharacter(v, i)
    <3>1. w[i] \in Text /\ i \in 1..Len(w)
      BY <1>0, <2>2, <2>4, <2>5
    <3>2. PICK n \in CharSize, f \in 1..i :
            /\ i < f + n /\ f + n <= Len(w) + 1
            /\ \A j \in 1..n : w[f + j - 1] = Utf8(n)[j]
            /\ f + n <= Len(w) => w[f + n] # "cont"
      BY <3>1 DEF Whole, InCharacter
    <3>3. n \in 1..4
      BY Utf8Bytes
    <3>4. \A j \in 1..n : v[f + j - 1] = Utf8(n)[j]
      BY <1>0, <2>4, <3>1, <3>2, <3>3
    <3>5. v[f + n] # "cont" /\ f + n <= Len(v) + 1
      BY <1>0, <2>2, <2>4, <3>1, <3>2, <3>3
    <3>6. QED
      BY <3>2, <3>4, <3>5 DEF InCharacter
  <2>6. QED
    BY <2>3, <2>5 DEF Whole, v
<1>3. QED
  BY <1>1, <1>2 DEF Key

\* A buffer that ends with the character of n bytes from f.
LEMMA EndsWith ==
  ASSUME NEW buf \in Seq(Text), NEW n \in CharSize, NEW f \in 1..Len(buf), f + n = Len(buf) + 1,
         \A j \in 1..n : buf[f + j - 1] = Utf8(n)[j]
  PROVE  /\ SubSeq(buf, 1, f - 1) \in Seq(Text) /\ Len(SubSeq(buf, 1, f - 1)) = f - 1
         /\ buf = SubSeq(buf, 1, f - 1) \o Utf8(n)
<1>0. Len(buf) \in Nat /\ \A i \in 1..Len(buf) : buf[i] \in Text
  BY LenProperties, ElementOfSeq
<1> DEFINE d == SubSeq(buf, 1, f - 1)
<1>1. /\ d \in Seq(Text) /\ Len(d) = f - 1
      /\ \A i \in 1..f - 1 : d[i] = buf[i]
  BY <1>0, SubSeqProperties
<1>2. n \in 1..4 /\ Utf8(n) \in Seq(Text) /\ Len(Utf8(n)) = n
  BY Utf8Bytes
<1> HIDE DEF d
<1> DEFINE v == d \o Utf8(n)
<1>3. /\ v \in Seq(Text) /\ Len(v) = f - 1 + n
      /\ \A i \in 1..f - 1 + n : v[i] = IF i <= f - 1 THEN d[i] ELSE Utf8(n)[i - (f - 1)]
  <2>1. d \in Seq(Text) /\ Utf8(n) \in Seq(Text)
    BY <1>1, <1>2
  <2>2. /\ v \in Seq(Text) /\ Len(v) = Len(d) + Len(Utf8(n))
        /\ \A i \in 1..Len(d) + Len(Utf8(n)) :
             v[i] = IF i <= Len(d) THEN d[i] ELSE Utf8(n)[i - Len(d)]
    BY ONLY <2>1, ConcatProperties
  <2>3. Len(d) = f - 1 /\ Len(Utf8(n)) = n
    BY <1>1, <1>2
  <2> HIDE DEF v
  <2>4. QED
    BY ONLY <2>2, <2>3
<1> HIDE DEF v
<1>4. ASSUME NEW i \in 1..Len(buf) PROVE buf[i] = v[i]
  <2>1. CASE i <= f - 1
    <3>1. i \in 1..f - 1 /\ i \in 1..f - 1 + n
      BY <1>0, <1>2, <2>1
    <3>2. v[i] = d[i] /\ d[i] = buf[i]
      BY <1>1, <1>3, <2>1, <3>1
    <3>3. QED
      BY <3>2
  <2>2. CASE i > f - 1
    <3>1. i - (f - 1) \in 1..n /\ f + (i - (f - 1)) - 1 = i
      BY <1>0, <1>2, <2>2
    <3>2. QED
      BY <1>0, <1>2, <1>3, <2>2, <3>1
  <2>3. QED
    BY <1>0, <2>1, <2>2
<1>5. buf = v
  <2>1. Len(buf) = Len(v)
    BY <1>0, <1>2, <1>3
  <2>2. QED
    BY <1>3, <1>4, <2>1, SeqEqual
<1>6. QED
  BY <1>1, <1>5 DEF d, v

\* What a line is without its last character does not depend on where one looks for it.
LEMMA OneLastCharacter ==
  ASSUME NEW a \in Seq(Text), NEW b \in Seq(Text), NEW n \in CharSize, NEW p \in CharSize,
         a \o Utf8(n) = b \o Utf8(p)
  PROVE  a = b
<1>0. /\ \A k \in CharSize : /\ k \in 1..4 /\ Utf8(k) \in Seq(Text) /\ Len(Utf8(k)) = k
                             /\ Utf8(k)[1] # "cont"
                             /\ \A j \in 1..k : j > 1 => Utf8(k)[j] = "cont"
      /\ Len(a) \in Nat /\ Len(b) \in Nat
  BY Utf8Bytes, LenProperties
<1>1. \A l \in Seq(Text), k \in CharSize :
        /\ Len(l \o Utf8(k)) = Len(l) + k
        /\ \A i \in 1..Len(l) + k :
             (l \o Utf8(k))[i] = IF i <= Len(l) THEN l[i] ELSE Utf8(k)[i - Len(l)]
  <2> SUFFICES ASSUME NEW l \in Seq(Text), NEW k \in CharSize
               PROVE  /\ Len(l \o Utf8(k)) = Len(l) + k
                      /\ \A i \in 1..Len(l) + k :
                           (l \o Utf8(k))[i] = IF i <= Len(l) THEN l[i] ELSE Utf8(k)[i - Len(l)]
    OBVIOUS
  <2>1. Utf8(k) \in Seq(Text) /\ Len(Utf8(k)) = k
    BY <1>0
  <2>2. QED
    BY <2>1, ConcatProperties
<1>2. Len(a) + n = Len(b) + p
  BY <1>1
\* Else the first byte of the shorter character is inside the longer one.
<1>3. ASSUME NEW l \in Seq(Text), NEW r \in Seq(Text), NEW k \in CharSize, NEW q \in CharSize,
             l \o Utf8(k) = r \o Utf8(q), Len(l) + k = Len(r) + q, k < q
      PROVE  FALSE
  <2>1. k \in 1..4 /\ q \in 1..4 /\ Len(l) \in Nat /\ Len(r) \in Nat
    BY <1>0, LenProperties
  <2> DEFINE i == Len(l) + 1
  <2>2. /\ i \in 1..Len(l) + k /\ i \in 1..Len(r) + q
        /\ ~(i <= Len(l)) /\ ~(i <= Len(r))
        /\ i - Len(l) = 1 /\ i - Len(r) \in 1..q /\ i - Len(r) > 1
    BY <1>3, <2>1
  <2> HIDE DEF i
  <2>3. (l \o Utf8(k))[i] = Utf8(k)[1]
    BY <1>1, <2>2
  <2>4. (r \o Utf8(q))[i] = Utf8(q)[i - Len(r)]
    BY <1>1, <2>2
  <2>5. Utf8(k)[1] # "cont" /\ Utf8(q)[i - Len(r)] = "cont"
    BY <1>0, <2>2
  <2>6. QED
    BY <1>3, <2>3, <2>4, <2>5
<1>4. n = p
  <2>1. n \in 1..4 /\ p \in 1..4
    BY <1>0
  <2>2. ~(n < p)
    BY <1>2, <1>3
  <2>3. ~(p < n)
    BY <1>2, <1>3
  <2>4. QED
    BY <2>1, <2>2, <2>3
<1>5. Len(a) = Len(b) /\ \A i \in 1..Len(a) : a[i] = b[i]
  <2>1. n \in 1..4
    BY <1>0
  <2>2. Len(a) = Len(b)
    BY <1>0, <1>2, <1>4, <2>1
  <2>3. ASSUME NEW i \in 1..Len(a) PROVE a[i] = b[i]
    <3>1. i \in 1..Len(a) + n /\ i \in 1..Len(b) + p /\ i <= Len(a) /\ i <= Len(b)
      BY <1>0, <1>4, <2>1, <2>2
    <3>2. (a \o Utf8(n))[i] = a[i] /\ (b \o Utf8(p))[i] = b[i]
      BY <1>1, <3>1
    <3>3. QED
      BY <3>2
  <2>4. QED
    BY <2>2, <2>3
<1>6. QED
  BY <1>5, SeqEqual

\* A line of whole characters is one less of them, and its last character.
LEMMA WithoutLastIsWhole ==
  ASSUME NEW line \in Seq(Text), Whole(line), line # <<>>
  PROVE  /\ WithoutLast(line) \in Seq(Text) /\ Whole(WithoutLast(line))
         /\ \E n \in CharSize : line = WithoutLast(line) \o Utf8(n)
<1> DEFINE L == Len(line)
<1>0. L \in Nat /\ L > 0 /\ \A i \in 1..L : line[i] \in Text
  BY LenProperties, ElementOfSeq, EmptySeq
<1>1. PICK n \in CharSize, f \in 1..L :
        /\ L < f + n /\ f + n <= L + 1
        /\ \A j \in 1..n : line[f + j - 1] = Utf8(n)[j]
  BY <1>0 DEF Whole, InCharacter
<1>2. n \in 1..4 /\ f + n = L + 1 /\ line[f] # "cont"
  BY <1>0, <1>1, Utf8Bytes
<1> DEFINE rest == SubSeq(line, 1, f - 1)
<1>3. rest \in Seq(Text) /\ Len(rest) = f - 1 /\ line = rest \o Utf8(n)
  BY <1>1, <1>2, EndsWith
<1>4. \A i \in 1..f - 1 : rest[i] = line[i]
  BY <1>0, SubSeqProperties
<1>5. f - 1 \in 0..L
  BY <1>0
<1>6. rest \in {SubSeq(line, 1, m) : m \in 0..Len(line)}
  BY <1>5
<1> HIDE DEF rest
\* What is left is whole, as it was before a Backspace.
<1>7. Whole(rest)
  <2> DEFINE w == line \o <<"erase">>
             c == L + 1
             m == f - 1
  <2>1. line \in Seq(Byte) /\ rest \in Seq(Byte) /\ <<"erase">> \in Key
    BY <1>3, SeqMonotonic DEF Byte, Key, Command
  <2>2. Whole(w) /\ <<"erase">> \in Seq(Byte)
    BY <2>1, KeyIsWhole
  <2>3. /\ w \in Seq(Byte) /\ Len(w) = L + 1
        /\ \A i \in 1..L : w[i] = line[i]
        /\ w[L + 1] = "erase"
    <3>1. /\ w \in Seq(Byte) /\ Len(w) = L + Len(<<"erase">>)
          /\ \A i \in 1..L + Len(<<"erase">>) :
               w[i] = IF i <= L THEN line[i] ELSE <<"erase">>[i - L]
      BY <2>1, <2>2, ConcatProperties
    <3> HIDE DEF w
    <3>2. QED
      BY <1>0, <3>1
  <2> HIDE DEF w
  <2>4. c \in 1..Len(w) /\ w[c] \in Command /\ m \in 0..c - 1 /\ w[m + 1] # "cont"
    BY <1>0, <1>2, <2>3 DEF Command
  <2>5. \A i \in 1..Len(rest) : rest[i] = IF i <= m THEN w[i] ELSE w[i + (c - m)]
    BY <1>0, <1>3, <1>4, <2>3
  <2>6. QED
    BY <1>3, <2>1, <2>2, <2>3, <2>4, <2>5, CutIsWhole
<1>8. \A r \in Seq(Text), p \in CharSize : line = r \o Utf8(p) => r = rest
  BY <1>3, OneLastCharacter
<1>9. WithoutLast(line) = rest
  <2>1. \A r \in {SubSeq(line, 1, m) : m \in 0..Len(line)} : r \in Seq(Text)
    BY <1>0, SubSeqProperties
  <2>2. \E char \in Character : line = rest \o char
    BY <1>3 DEF Character
  <2>3. \A r \in {SubSeq(line, 1, m) : m \in 0..Len(line)} :
          (\E char \in Character : line = r \o char) => r = rest
    BY <1>8, <2>1 DEF Character
  <2>4. QED
    BY <1>6, <2>2, <2>3 DEF WithoutLast
<1>10. QED
  BY <1>3, <1>7, <1>9

LEMMA CommandIsNoCharacter ==
  ASSUME NEW b \in Command
  PROVE  <<b>> \notin Character
<1> SUFFICES ASSUME NEW n \in CharSize, <<b>> = Utf8(n) PROVE FALSE
  BY DEF Character
<1>1. Utf8(n) \in Seq(Text) /\ n \in 1..4 /\ Len(Utf8(n)) = n
  BY Utf8Bytes
<1>2. Utf8(n)[1] \in Text /\ <<b>>[1] = b
  BY <1>1, ElementOfSeq
<1>3. QED
  BY <1>2 DEF Text, Command

\* What is meant is a line of whole characters.
LEMMA EditIsWhole ==
  ASSUME NEW line \in Seq(Text), Whole(line), NEW key \in Key
  PROVE  Edit(line, key) \in Seq(Text) /\ Whole(Edit(line, key))
<1>1. CASE key \in Character
  <2>1. key \in Seq(Text)
    BY <1>1, Utf8Bytes DEF Character
  <2>2. line \in Seq(Byte) /\ line \o key \in Seq(Text)
    BY <2>1, SeqMonotonic, ConcatProperties DEF Byte
  <2>3. Whole(line \o key)
    BY <2>2, KeyIsWhole
  <2>4. Edit(line, key) = line \o key
    BY <1>1, CommandIsNoCharacter DEF Edit, Command
  <2>5. QED
    BY <2>2, <2>3, <2>4
<1>2. CASE key \notin Character /\ key = <<"erase">> /\ line # <<>>
  BY <1>2, WithoutLastIsWhole DEF Edit
<1>3. CASE key \notin Character /\ ~(key = <<"erase">> /\ line # <<>>)
  <2>1. Edit(line, key) = <<>> \/ Edit(line, key) = line
    BY <1>3 DEF Edit
  <2>2. <<>> \in Seq(Text) /\ Whole(<<>>)
    BY DEF Whole
  <2>3. QED
    BY <2>1, <2>2
<1>4. QED
  BY <1>1, <1>2, <1>3

\* Backspace leaves what comes before the character to which the byte before the last
\* belongs, n bytes from f, or all of that character if it is one of one byte.
LEMMA PopUtf8Place ==
  ASSUME NEW buf \in Seq(Text), NEW w \in Seq(Byte), Whole(w), Len(buf) <= Len(w),
         \A i \in 1..Len(buf) : buf[i] = w[i],
         Len(buf) > 1
  PROVE  \E n \in CharSize, f \in 1..Len(buf) - 1 :
           /\ Len(buf) - 1 < f + n /\ f + n <= Len(w) + 1
           /\ \A j \in 1..n : w[f + j - 1] = Utf8(n)[j]
           /\ f + n <= Len(w) => w[f + n] # "cont"
           /\ PopUtf8(buf) = SubSeq(buf, 1, IF n = 1 THEN f ELSE f - 1)
<1>0. Len(buf) \in Nat /\ Len(w) \in Nat /\ \A i \in 1..Len(buf) : buf[i] \in Text
  BY LenProperties, ElementOfSeq
<1> DEFINE front == Front(buf)
           b == Len(buf) - 1
<1>1. /\ b \in Nat /\ b > 0
      /\ front \in Seq(Text) /\ Len(front) = b
      /\ \A i \in 1..b : front[i] = w[i]
  BY <1>0, SubSeqProperties DEF Front
<1>2. DOMAIN front = 1..b
  BY <1>1, LenProperties
<1> HIDE DEF front
<1>3. b \in 1..Len(w) /\ w[b] \in Text
  BY <1>0, <1>1
<1>4. PICK n \in CharSize, f \in 1..b :
        /\ b < f + n /\ f + n <= Len(w) + 1
        /\ \A j \in 1..n : w[f + j - 1] = Utf8(n)[j]
        /\ f + n <= Len(w) => w[f + n] # "cont"
  BY <1>3 DEF Whole, InCharacter
<1>5. n \in 1..4 /\ w[f] = Utf8(n)[1]
  BY <1>4, Utf8Bytes
<1>6. w[f] # "cont" /\ \A i \in f + 1..b : w[i] = "cont"
  <2>1. w[f] # "cont"
    BY <1>5, Utf8Bytes
  <2>2. ASSUME NEW i \in f + 1..b PROVE w[i] = "cont"
    <3>1. i - f + 1 \in 1..n /\ i - f + 1 > 1 /\ f + (i - f + 1) - 1 = i
      BY <1>1, <1>4, <1>5, <2>2
    <3>2. QED
      BY <1>4, <3>1, Utf8Bytes
  <2>3. QED
    BY <2>1, <2>2
<1>7. Max({0} \union {i \in 1..b : front[i] # "cont"}) = f
  <2> DEFINE S == {0} \union {i \in 1..b : front[i] # "cont"}
  <2>1. f \in S /\ \A y \in S : f >= y /\ y \in Nat
    BY <1>1, <1>6
  <2> HIDE DEF S
  <2>2. \A x \in S : (\A y \in S : x >= y) => x = f
    BY <2>1
  <2>3. QED
    BY <2>1, <2>2 DEF Max, S
<1> DEFINE rest == WithoutTail(front)
<1>8. rest = SubSeq(front, 1, f)
  BY <1>2, <1>7 DEF WithoutTail
<1>9. rest = SubSeq(buf, 1, f)
  <2>1. front = SubSeq(buf, 1, b)
    BY DEF front, Front
  <2>2. QED
    BY <1>0, <1>1, <1>8, <2>1, SubSeqOfSubSeq
<1>10. /\ rest \in Seq(Text) /\ Len(rest) = f
       /\ \A i \in 1..f : rest[i] = w[i]
  BY <1>0, <1>1, <1>9, SubSeqProperties
<1>11. rest # <<>> /\ Last(rest) = w[f] /\ buf # <<>>
  BY <1>10 DEF Last
<1> HIDE DEF rest
<1>12. CASE n > 1
  <2>1. w[f] = "lead"
    BY <1>5, <1>12 DEF Utf8
  <2>2. PopUtf8(buf) = Front(rest)
    BY <1>11, <2>1 DEF PopUtf8, rest, front
  <2>3. Front(rest) = SubSeq(rest, 1, f - 1)
    BY <1>10 DEF Front
  <2>4. SubSeq(rest, 1, f - 1) = SubSeq(buf, 1, f - 1)
    <3>1. CASE f = 1
      BY <3>1, SubSeqEmpty
    <3>2. CASE f > 1
      BY <1>0, <1>1, <1>9, <3>2, SubSeqOfSubSeq
    <3>3. QED
      BY <3>1, <3>2
  <2>5. QED
    BY <1>4, <1>12, <2>2, <2>3, <2>4
<1>13. CASE n = 1
  <2>1. w[f] # "lead"
    BY <1>5, <1>13 DEF Utf8
  <2>2. PopUtf8(buf) = SubSeq(buf, 1, f)
    BY <1>9, <1>11, <2>1 DEF PopUtf8, rest, front
  <2>3. QED
    BY <1>4, <1>13, <2>2
<1>14. n = 1 \/ n > 1
  BY <1>5
<1>15. QED
  BY <1>12, <1>13, <1>14, Zenon

\* Of at most one byte Backspace leaves nothing.
LEMMA PopUtf8Empties ==
  ASSUME NEW buf \in Seq(Text), Len(buf) <= 1
  PROVE  PopUtf8(buf) = <<>> /\ (buf = <<>> \/ Len(buf) = 1)
<1>1. Len(buf) \in Nat /\ (Len(buf) = 0 => buf = <<>>)
  BY LenProperties, EmptySeq
<1>2. CASE buf = <<>>
  BY <1>2 DEF PopUtf8
<1>3. CASE buf # <<>> /\ Len(buf) = 1
  <2>1. Front(buf) = <<>>
    BY <1>3, SubSeqEmpty DEF Front
  <2>2. {0} \union {i \in DOMAIN <<>> : <<>>[i] # "cont"} = {0}
    OBVIOUS
  <2>3. Max({0}) = 0
    BY DEF Max
  <2>4. WithoutTail(<<>>) = <<>>
    BY <2>2, <2>3, SubSeqEmpty DEF WithoutTail
  <2>5. QED
    BY <1>3, <2>1, <2>4 DEF PopUtf8
<1>4. QED
  <2>1. Len(buf) = 0 \/ Len(buf) = 1
    BY <1>1
  <2>2. QED
    BY <1>1, <1>2, <1>3, <2>1

\* Backspace leaves the first m bytes of the buffer, and a character begins behind them.
LEMMA PopUtf8Cuts ==
  ASSUME NEW buf \in Seq(Text), NEW w \in Seq(Byte), Whole(w), Len(buf) <= Len(w),
         \A i \in 1..Len(buf) : buf[i] = w[i]
  PROVE  \E m \in 0..Len(buf) :
           /\ PopUtf8(buf) = SubSeq(buf, 1, m)
           /\ m = 0 \/ m = Len(buf) \/ w[m + 1] # "cont"
<1>1. Len(buf) \in Nat /\ Len(w) \in Nat
  BY LenProperties
<1>2. CASE Len(buf) <= 1
  <2>1. PopUtf8(buf) = <<>> /\ <<>> = SubSeq(buf, 1, 0)
    BY <1>2, PopUtf8Empties, SubSeqEmpty
  <2>2. QED
    BY <1>1, <2>1
<1>3. CASE Len(buf) > 1
  <2>1. PICK n \in CharSize, f \in 1..Len(buf) - 1 :
          /\ Len(buf) - 1 < f + n /\ f + n <= Len(w) + 1
          /\ \A j \in 1..n : w[f + j - 1] = Utf8(n)[j]
          /\ f + n <= Len(w) => w[f + n] # "cont"
          /\ PopUtf8(buf) = SubSeq(buf, 1, IF n = 1 THEN f ELSE f - 1)
    BY <1>3, PopUtf8Place
  <2>2. n \in 1..4 /\ Utf8(n)[1] # "cont"
    BY Utf8Bytes
  <2>3. w[f] = Utf8(n)[1]
    BY <1>1, <2>1, <2>2
  <2>4. CASE n = 1
    BY <1>1, <2>1, <2>4
  <2>5. CASE n # 1
    <3>1. f - 1 \in 0..Len(buf) /\ f - 1 + 1 = f
      BY <1>1
    <3>2. QED
      BY <2>1, <2>2, <2>3, <2>5, <3>1
  <2>6. QED
    BY <2>4, <2>5
<1>4. QED
  BY <1>1, <1>2, <1>3

LEMMA ConcatBytes ==
  ASSUME NEW S, NEW a \in Seq(S), NEW b \in Seq(S), NEW c \in Seq(S)
  PROVE  /\ a \o b \o c \in Seq(S)
         /\ Len(a) \in Nat /\ Len(b) \in Nat /\ Len(c) \in Nat
         /\ Len(a \o b \o c) = Len(a) + Len(b) + Len(c)
         /\ \A i \in 1..Len(a) : (a \o b \o c)[i] = a[i]
         /\ \A i \in 1..Len(b) : (a \o b \o c)[Len(a) + i] = b[i]
         /\ \A i \in 1..Len(c) : (a \o b \o c)[Len(a) + Len(b) + i] = c[i]
<1>1. Len(a) \in Nat /\ Len(b) \in Nat /\ Len(c) \in Nat
  BY LenProperties
<1> DEFINE ab == a \o b
<1>2. /\ ab \in Seq(S) /\ Len(ab) = Len(a) + Len(b)
      /\ \A i \in 1..Len(a) + Len(b) : ab[i] = IF i <= Len(a) THEN a[i] ELSE b[i - Len(a)]
  BY ConcatProperties
<1> HIDE DEF ab
<1>3. /\ ab \o c \in Seq(S) /\ Len(ab \o c) = Len(ab) + Len(c)
      /\ \A i \in 1..Len(ab) + Len(c) : (ab \o c)[i] = IF i <= Len(ab) THEN ab[i] ELSE c[i - Len(ab)]
  <2>1. ab \in Seq(S)
    BY <1>2
  <2>2. QED
    BY <2>1, ConcatProperties, Zenon
<1> DEFINE abc == ab \o c
<1> HIDE DEF abc
<1>4. /\ abc \in Seq(S) /\ Len(abc) = Len(a) + Len(b) + Len(c)
      /\ \A i \in 1..Len(a) : abc[i] = a[i]
      /\ \A i \in 1..Len(b) : abc[Len(a) + i] = b[i]
      /\ \A i \in 1..Len(c) : abc[Len(a) + Len(b) + i] = c[i]
  BY <1>1, <1>2, <1>3 DEF abc
<1>5. QED
  BY <1>1, <1>4 DEF abc, ab

\* A command byte is taken out of the chunk, and the buffer is cut to its first m bytes.
LEMMA CutBuffer ==
  ASSUME NEW d \in Seq(Text), NEW e \in Seq(Byte), NEW p \in Seq(Byte),
         Whole(d \o e \o p), e # <<>>, Head(e) \in Command,
         NEW m \in 0..Len(d), m = 0 \/ m = Len(d) \/ d[m + 1] # "cont"
  PROVE  /\ SubSeq(d, 1, m) \in Seq(Text)
         /\ Whole(SubSeq(d, 1, m) \o Tail(e) \o p)
         /\ Whole(SubSeq(d, 1, m))
<1>0. d \in Seq(Byte) /\ Len(d) \in Nat /\ \A i \in 1..Len(d) : d[i] \in Text
  BY SeqMonotonic, LenProperties, ElementOfSeq DEF Byte
<1>1. /\ Len(e) \in Nat /\ Len(e) > 0 /\ Head(e) = e[1]
      /\ Tail(e) \in Seq(Byte) /\ Len(Tail(e)) = Len(e) - 1
      /\ \A i \in 1..Len(e) - 1 : Tail(e)[i] = e[i + 1]
  BY EmptySeq, HeadTailProperties
<1> DEFINE a == SubSeq(d, 1, m)
           w == d \o e \o p
           v == a \o Tail(e) \o p
           c == Len(d) + 1
<1>2. /\ a \in Seq(Text) /\ Len(a) = m
      /\ \A i \in 1..m : a[i] = d[i]
  BY <1>0, SubSeqProperties
<1>3. a \in Seq(Byte)
  BY <1>2, SeqMonotonic DEF Byte
<1> HIDE DEF a
<1>4. /\ w \in Seq(Byte) /\ Len(p) \in Nat
      /\ Len(w) = Len(d) + Len(e) + Len(p)
      /\ \A i \in 1..Len(d) : w[i] = d[i]
      /\ \A i \in 1..Len(e) : w[Len(d) + i] = e[i]
      /\ \A i \in 1..Len(p) : w[Len(d) + Len(e) + i] = p[i]
  BY <1>0, ConcatBytes
<1>5. /\ v \in Seq(Byte)
      /\ Len(v) = m + (Len(e) - 1) + Len(p)
      /\ \A i \in 1..m : v[i] = a[i]
      /\ \A i \in 1..Len(e) - 1 : v[m + i] = Tail(e)[i]
      /\ \A i \in 1..Len(p) : v[m + (Len(e) - 1) + i] = p[i]
  <2>1. /\ v \in Seq(Byte)
        /\ Len(v) = Len(a) + Len(Tail(e)) + Len(p)
        /\ \A i \in 1..Len(a) : v[i] = a[i]
        /\ \A i \in 1..Len(Tail(e)) : v[Len(a) + i] = Tail(e)[i]
        /\ \A i \in 1..Len(p) : v[Len(a) + Len(Tail(e)) + i] = p[i]
    BY <1>1, <1>3, ConcatBytes
  <2>2. QED
    BY <1>1, <1>2, <2>1
<1>6. Whole(w)
  BY DEF w
<1> HIDE DEF w, v
<1>7. c \in 1..Len(w) /\ w[c] \in Command /\ m \in 0..c - 1
  BY <1>0, <1>1, <1>4
<1>8. m = 0 \/ w[m + 1] # "cont"
  <2>1. m = Len(d) => w[m + 1] # "cont"
    BY <1>7 DEF Command
  <2>2. m # Len(d) => w[m + 1] = d[m + 1]
    BY <1>0, <1>4
  <2>3. QED
    BY <2>1, <2>2
<1>9. \A i \in 1..Len(v) : v[i] = IF i <= m THEN w[i] ELSE w[i + (c - m)]
  <2> SUFFICES ASSUME NEW i \in 1..Len(v)
               PROVE  v[i] = IF i <= m THEN w[i] ELSE w[i + (c - m)]
    OBVIOUS
  <2>1. CASE i <= m
    <3>1. i \in 1..m /\ i \in 1..Len(d)
      BY <1>0, <1>5, <2>1
    <3>2. v[i] = w[i]
      BY <1>2, <1>4, <1>5, <3>1
    <3>3. QED
      BY <2>1, <3>2
  <2>2. CASE i > m /\ i <= m + (Len(e) - 1)
    <3> DEFINE j == i - m
    <3>1. j \in 1..Len(e) - 1 /\ j + 1 \in 1..Len(e) /\ m + j = i /\ Len(d) + (j + 1) = i + (c - m)
      BY <1>0, <1>1, <1>5, <2>2
    <3>2. v[m + j] = e[j + 1] /\ w[Len(d) + (j + 1)] = e[j + 1]
      BY <1>1, <1>4, <1>5, <3>1
    <3>3. QED
      BY <2>2, <3>1, <3>2
  <2>3. CASE i > m + (Len(e) - 1)
    <3> DEFINE j == i - (m + (Len(e) - 1))
    <3>1. /\ j \in 1..Len(p) /\ m + (Len(e) - 1) + j = i /\ ~(i <= m)
          /\ Len(d) + Len(e) + j = i + (c - m)
      BY <1>0, <1>1, <1>4, <1>5, <2>3
    <3>2. v[m + (Len(e) - 1) + j] = p[j] /\ w[Len(d) + Len(e) + j] = p[j]
      BY <1>4, <1>5, <3>1
    <3>3. QED
      BY <3>1, <3>2
  <2>4. QED
    BY <1>0, <1>1, <2>1, <2>2, <2>3
<1>10. Len(v) = Len(w) - (c - m)
  BY <1>0, <1>1, <1>4, <1>5
<1>11. Whole(v)
  BY <1>4, <1>5, <1>6, <1>7, <1>8, <1>9, <1>10, CutIsWhole
<1>12. \A i \in 1..Len(a) : a[i] = IF i <= m THEN w[i] ELSE w[i + (c - m)]
  <2> SUFFICES ASSUME NEW i \in 1..m
               PROVE  a[i] = IF i <= m THEN w[i] ELSE w[i + (c - m)]
    BY <1>2
  <2>1. i \in 1..Len(d) /\ i <= m
    BY <1>0
  <2>2. a[i] = w[i]
    BY <1>2, <1>4, <2>1
  <2>3. QED
    BY <2>1, <2>2
<1>13. Whole(a)
  BY <1>2, <1>3, <1>4, <1>6, <1>7, <1>8, <1>12, CutIsWhole
<1>14. QED
  BY <1>2, <1>11, <1>13 DEF v, a

-------------------------------------------------------------------------------
LEMMA WipedBytes ==
  ASSUME NEW S, NEW buf \in Seq(S)
  PROVE  Wiped(buf) \in Seq(Text \union {"zero"})
<1>1. DOMAIN buf = 1..Len(buf) /\ Len(buf) \in Nat
  BY LenProperties
<1>2. Wiped(buf) \in [1..Len(buf) -> Text \union {"zero"}]
  BY <1>1 DEF Wiped
<1>3. QED
  BY <1>1, <1>2, SeqDef

LEMMA MeantStays == ASSUME IInv, meant' = meant PROVE Whole(meant)'
  BY DEF IInv, Whole, InCharacter

LEMMA InitIInv == Init => IInv
<1> SUFFICES ASSUME Init PROVE IInv
  OBVIOUS
<1>1. /\ typed = <<>> /\ meant = <<>> /\ pending = <<>> /\ chunk = <<>> /\ data = <<>>
      /\ outcome = "reading"
  BY DEF Init
<1>2. \A S : <<>> \in Seq(S) /\ Len(<<>>) = 0
  BY EmptySeq
<1>3. Stream = <<>>
  BY <1>1, <1>2, ConcatEmptySeq DEF Stream
<1>4. Whole(<<>>)
  BY DEF Whole
<1>5. TypeOK
  BY <1>1, <1>2, MaxKeysIsNat DEF TypeOK
<1>6. QED
  BY <1>1, <1>2, <1>3, <1>4, <1>5 DEF IInv, ReturnsWholeCharacters

LEMMA PressIInv ==
  ASSUME IInv, NEW key \in Key, Press(key)
  PROVE  IInv'
<1>1. /\ outcome = "reading" /\ Len(typed) < MaxKeys
      /\ typed' = Append(typed, key)
      /\ meant' = meant \/ meant' = Edit(meant, key)
      /\ pending' = pending \o key
      /\ chunk' = chunk /\ data' = data /\ outcome' = outcome
  BY DEF Press
<1>2. /\ TypeOK /\ data \in Seq(Text) /\ Whole(Stream)
      /\ typed \in Seq(Key) /\ pending \in Seq(Byte) /\ chunk \in Seq(Byte)
  BY <1>1 DEF IInv, TypeOK
<1>3. data \in Seq(Byte)
  BY <1>2, SeqMonotonic DEF Byte
<1>4. Stream \in Seq(Byte) /\ data \o chunk \in Seq(Byte)
  BY <1>2, <1>3, ConcatProperties DEF Stream
<1>5. key \in Seq(Byte) /\ Whole(Stream \o key)
  BY <1>2, <1>4, KeyIsWhole
<1>6. Stream' = Stream \o key
  <2>1. data \o chunk \in Seq(Byte) /\ pending \in Seq(Byte) /\ key \in Seq(Byte)
    BY <1>2, <1>4, <1>5
  <2>2. ((data \o chunk) \o pending) \o key = (data \o chunk) \o (pending \o key)
    BY <2>1, ConcatAssociative
  <2>3. QED
    BY <1>1, <2>2 DEF Stream
<1>7. Whole(Stream)'
  BY <1>5, <1>6 DEF Whole, InCharacter
<1>8. pending' \in Seq(Byte)
  BY <1>1, <1>2, <1>5, ConcatProperties
<1>9. typed' \in Seq(Key) /\ Len(typed') <= MaxKeys
  <2>1. typed' \in Seq(Key) /\ Len(typed') = Len(typed) + 1 /\ Len(typed) \in Nat
    BY <1>1, <1>2, AppendProperties, LenProperties
  <2>2. QED
    BY <1>1, <2>1, MaxKeysIsNat
<1>10. meant' \in Seq(Text) /\ Whole(meant')
  BY <1>1, EditIsWhole DEF IInv, TypeOK
<1>11. TypeOK'
  BY <1>1, <1>2, <1>8, <1>9, <1>10 DEF TypeOK
<1>12. Whole(meant)'
  BY <1>10 DEF Whole, InCharacter
<1>13. QED
  BY <1>1, <1>2, <1>7, <1>11, <1>12 DEF IInv, ReturnsWholeCharacters

LEMMA ReadSomeIInv ==
  ASSUME IInv, ReadSome
  PROVE  IInv'
<1>1. PICK n \in 1..Len(pending) :
        /\ outcome = "reading" /\ chunk = <<>>
        /\ chunk' = SubSeq(pending, 1, n)
        /\ pending' = SubSeq(pending, n + 1, Len(pending))
        /\ typed' = typed /\ meant' = meant /\ outcome' = outcome /\ data' = data
  BY DEF ReadSome, Receive
<1>2. /\ TypeOK /\ data \in Seq(Text) /\ Whole(Stream)
      /\ typed \in Seq(Key) /\ pending \in Seq(Byte)
  BY <1>1 DEF IInv, TypeOK
<1>3. data \in Seq(Byte)
  BY <1>2, SeqMonotonic DEF Byte
<1>4. /\ Len(pending) \in Nat
      /\ \A i \in 1..Len(pending) : pending[i] \in Byte
  BY <1>2, LenProperties, ElementOfSeq
<1>5. chunk' \in Seq(Byte) /\ pending' \in Seq(Byte)
  BY <1>1, <1>4, SubSeqProperties
<1>6. chunk' \o pending' = pending
  <2>1. /\ 1 \in 1..Len(pending) + 1
        /\ n \in 1 - 1..Len(pending)
        /\ Len(pending) \in n..Len(pending)
    BY <1>4
  <2>2. chunk' \o pending' = SubSeq(pending, 1, Len(pending))
    BY <1>1, <1>2, <2>1, ConcatAdjacentSubSeq
  <2>3. QED
    BY <1>2, <2>2, SubSeqFull
<1>7. Stream' = Stream
  <2>1. Stream = data \o pending
    BY <1>1, <1>3, ConcatEmptySeq DEF Stream
  <2>2. (data' \o chunk') \o pending' = data \o (chunk' \o pending')
    <3>1. (data \o chunk') \o pending' = data \o (chunk' \o pending')
      BY <1>3, <1>5, ConcatAssociative
    <3>2. QED
      BY <1>1, <3>1
  <2>3. QED
    BY <1>6, <2>1, <2>2 DEF Stream
<1>8. Whole(Stream)'
  BY <1>2, <1>7 DEF Whole, InCharacter
<1>9. TypeOK'
  BY <1>1, <1>2, <1>5 DEF TypeOK
<1>10. QED
  BY <1>1, <1>2, <1>8, <1>9 DEF IInv, ReturnsWholeCharacters

\* The buffer takes a text byte: the stream is as it was.
LEMMA TakeText ==
  ASSUME NEW d \in Seq(Text), NEW e \in Seq(Byte), NEW p \in Seq(Byte),
         e # <<>>, Head(e) \in Text
  PROVE  /\ Append(d, Head(e)) \in Seq(Text)
         /\ Append(d, Head(e)) \o Tail(e) \o p = d \o e \o p
<1>1. /\ Len(e) \in Nat /\ Len(e) > 0 /\ Head(e) = e[1]
      /\ Tail(e) \in Seq(Byte) /\ Tail(e) = SubSeq(e, 2, Len(e))
  BY EmptySeq, HeadTailProperties, TailIsSubSeq
<1>2. d \in Seq(Byte) /\ Head(e) \in Byte /\ <<Head(e)>> \in Seq(Byte)
  BY SeqMonotonic DEF Byte
<1>3. Append(d, Head(e)) = d \o <<Head(e)>>
  BY AppendIsConcat
<1>4. e = <<Head(e)>> \o Tail(e)
  <2>1. 1 \in 1..Len(e) /\ Len(e) \in 1..Len(e)
    BY <1>1
  <2>2. SubSeq(e, 1, Len(e)) = <<e[1]>> \o SubSeq(e, 1 + 1, Len(e))
    BY <2>1, SubSeqRecursiveFirst
  <2>3. SubSeq(e, 1, Len(e)) = e
    BY SubSeqFull
  <2>4. QED
    BY <1>1, <2>2, <2>3
<1>5. (d \o <<Head(e)>>) \o Tail(e) = d \o (<<Head(e)>> \o Tail(e))
  BY <1>1, <1>2, ConcatAssociative
<1>6. Append(d, Head(e)) \o Tail(e) = d \o e
  BY <1>3, <1>4, <1>5
<1>7. QED
  BY <1>6, AppendProperties

LEMMA HandleByteIInv ==
  ASSUME IInv, HandleByte
  PROVE  IInv'
<1> DEFINE byte == Head(chunk)
<1>1. /\ outcome = "reading" /\ chunk # <<>>
      /\ chunk' = Tail(chunk)
      /\ typed' = typed /\ meant' = meant /\ pending' = pending
      /\ \/ byte = "enter" /\ outcome' = "returned" /\ data' = data
         \/ byte = "cancel" /\ outcome' = "raised" /\ data' = Wiped(data)
         \/ byte \notin {"enter", "cancel"} /\ data' = Edited(data, byte) /\ outcome' = outcome
  BY DEF HandleByte
<1>2. /\ TypeOK /\ data \in Seq(Text) /\ Whole(data \o chunk \o pending)
      /\ typed \in Seq(Key) /\ Len(typed) <= MaxKeys
      /\ pending \in Seq(Byte) /\ chunk \in Seq(Byte)
  BY <1>1 DEF IInv, TypeOK, Stream
<1>3. chunk' \in Seq(Byte) /\ byte \in Byte
  BY <1>1, <1>2, HeadTailProperties
<1>4. Len(data) \in Nat
  BY <1>2, LenProperties
<1>5. Text \subseteq Text \union {"zero"}
  OBVIOUS
<1> HIDE DEF byte
<1>6. CASE byte = "enter"
  <2>1. outcome' = "returned" /\ data' = data
    BY <1>1, <1>6
  <2>2. Head(chunk) \in Command
    BY <1>6 DEF byte, Command
  <2>3. Whole(SubSeq(data, 1, Len(data)))
    BY <1>1, <1>2, <1>4, <2>2, CutBuffer
  <2>4. Whole(data)
    BY <1>2, <2>3, SubSeqFull
  <2>5. \A i \in 1..Len(data) : InCharacter(data, i)
    BY <1>2, <2>4, ElementOfSeq DEF Whole
  <2>6. TypeOK'
    BY <1>1, <1>2, <1>3, <1>5, <2>1, SeqMonotonic DEF TypeOK
  <2>7. QED
    BY <1>1, <2>1, <2>5, <2>6, MeantStays DEF IInv, ReturnsWholeCharacters, InCharacter
<1>7. CASE byte = "cancel"
  <2>1. outcome' = "raised" /\ data' = Wiped(data)
    BY <1>1, <1>7
  <2>2. TypeOK'
    BY <1>1, <1>2, <1>3, <2>1, WipedBytes DEF TypeOK
  <2>3. QED
    BY <1>1, <2>1, <2>2, MeantStays DEF IInv, ReturnsWholeCharacters
<1>8. CASE byte \notin {"enter", "cancel"}
  <2>1. outcome' = "reading" /\ data' = Edited(data, byte)
    BY <1>1, <1>8
  <2>2. SUFFICES data' \in Seq(Text) /\ Whole(data' \o Tail(chunk) \o pending)
    <3>1. TypeOK'
      BY <1>1, <1>2, <1>3, <1>5, <2>1, <2>2, SeqMonotonic DEF TypeOK
    <3>2. Whole(Stream)'
      BY <1>1, <2>2 DEF Whole, InCharacter, Stream
    <3>3. QED
      BY <1>1, <2>1, <2>2, <3>1, <3>2, MeantStays DEF IInv, ReturnsWholeCharacters
  <2>3. CASE byte \in Text
    <3>1. data' = Append(data, byte)
      BY <2>1, <2>3 DEF Edited, Text
    <3>2. QED
      BY <1>1, <1>2, <2>3, <3>1, TakeText DEF byte
  <2>4. CASE byte \in Command
    <3>1. byte \in {"erase", "kill", "control"}
      BY <1>8, <2>4 DEF Command
    <3>2. \E m \in 0..Len(data) :
            /\ data' = SubSeq(data, 1, m)
            /\ m = 0 \/ m = Len(data) \/ data[m + 1] # "cont"
      <4>1. CASE byte = "erase"
        <5>1. data' = PopUtf8(data)
          BY <2>1, <4>1 DEF Edited
        <5> DEFINE w == data \o chunk \o pending
        <5>2. data \in Seq(Byte)
          BY <1>2, SeqMonotonic DEF Byte
        <5>3. /\ w \in Seq(Byte) /\ Len(data) <= Len(w)
              /\ \A i \in 1..Len(data) : data[i] = w[i]
          <6>1. /\ w \in Seq(Byte) /\ Len(chunk) \in Nat /\ Len(pending) \in Nat
                /\ Len(w) = Len(data) + Len(chunk) + Len(pending)
                /\ \A i \in 1..Len(data) : w[i] = data[i]
            BY <1>2, <5>2, ConcatBytes
          <6> HIDE DEF w
          <6>2. QED
            BY <1>4, <6>1
        <5>4. Whole(w)
          BY <1>2
        <5> HIDE DEF w
        <5>5. PICK m \in 0..Len(data) :
                /\ PopUtf8(data) = SubSeq(data, 1, m)
                /\ m = 0 \/ m = Len(data) \/ w[m + 1] # "cont"
          BY <1>2, <5>3, <5>4, PopUtf8Cuts
        <5>6. m # Len(data) => data[m + 1] = w[m + 1]
          BY <1>4, <5>3
        <5>7. QED
          BY <5>1, <5>5, <5>6
      <4>2. CASE byte = "kill"
        <5>1. data' = SubSeq(data, 1, 0)
          BY <2>1, <4>2, SubSeqEmpty DEF Edited
        <5>2. QED
          BY <1>4, <5>1
      <4>3. CASE byte = "control"
        <5>1. data' = SubSeq(data, 1, Len(data))
          BY <1>2, <2>1, <4>3, SubSeqFull DEF Edited
        <5>2. QED
          BY <1>4, <5>1
      <4>4. QED
        BY <3>1, <4>1, <4>2, <4>3
    <3>3. PICK m \in 0..Len(data) :
            /\ data' = SubSeq(data, 1, m)
            /\ m = 0 \/ m = Len(data) \/ data[m + 1] # "cont"
      BY <3>2
    <3>4. QED
      BY <1>1, <1>2, <2>4, <3>3, CutBuffer DEF byte
  <2>5. QED
    BY <1>3, <2>3, <2>4 DEF Byte
<1>9. QED
  BY <1>6, <1>7, <1>8

LEMMA FailIInv ==
  ASSUME IInv, Fail
  PROVE  IInv'
<1>1. /\ outcome' = "raised" /\ data' = Wiped(data)
      /\ typed' = typed /\ meant' = meant /\ pending' = pending /\ chunk' = chunk
  BY DEF Fail
<1>2. TypeOK
  BY DEF IInv
<1>3. TypeOK'
  BY <1>1, <1>2, WipedBytes DEF TypeOK
<1>4. QED
  BY <1>1, <1>3 DEF IInv, ReturnsWholeCharacters

\* The invariant holds for any sizes of characters, any number of keys and any chunks.
THEOREM Invariance == Spec => []IInv
<1>1. Init => IInv
  BY InitIInv
<1>2. IInv /\ [Next]_vars => IInv'
  <2> SUFFICES ASSUME IInv, [Next]_vars PROVE IInv'
    OBVIOUS
  <2>1. CASE \E key \in Key : Press(key)
    BY <2>1, PressIInv
  <2>2. CASE ReadSome
    BY <2>2, ReadSomeIInv
  <2>3. CASE HandleByte
    BY <2>3, HandleByteIInv
  <2>4. CASE Fail
    BY <2>4, FailIInv
  <2>5. CASE UNCHANGED vars
    <3>1. UNCHANGED <<typed, meant, pending, chunk, data, outcome>>
      BY <2>5 DEF vars
    <3>2. TypeOK'
      BY <3>1 DEF IInv, TypeOK
    <3>3. ReturnsWholeCharacters'
      BY <3>1 DEF IInv, ReturnsWholeCharacters, InCharacter
    <3>4. Stream' = Stream
      BY <3>1 DEF Stream
    <3>5. (outcome = "reading" => data \in Seq(Text) /\ Whole(Stream))'
      BY <3>1, <3>4 DEF IInv, Whole, InCharacter
    <3>6. QED
      BY <3>1, <3>2, <3>3, <3>5, MeantStays DEF IInv
  <2>6. QED
    BY <2>1, <2>2, <2>3, <2>4, <2>5 DEF Next
<1>3. QED
  BY <1>1, <1>2, PTL DEF Spec

\* read_secret keeps no byte in its buffer that is not text, except the zeros of wipe.
THEOREM TypeCorrect == Spec => []TypeOK
<1>1. IInv => TypeOK
  BY DEF IInv
<1>2. QED
  BY <1>1, Invariance, PTL

\* However the line is edited, _pop_utf8 cuts no character in two: what read_secret
\* returns is made of whole characters.
THEOREM WholeCharacters == Spec => []ReturnsWholeCharacters
<1>1. IInv => ReturnsWholeCharacters
  BY DEF IInv
<1>2. QED
  BY <1>1, Invariance, PTL
-------------------------------------------------------------------------------
\* Of a buffer of whole characters Backspace takes the last one, or, when that is a
\* one-byte character behind a longer one, both.
LEMMA PopUtf8Erases ==
  ASSUME NEW buf \in Seq(Text), Whole(buf), buf # <<>>
  PROVE  /\ PopUtf8(buf) \in Seq(Text)
         /\ \/ \E n \in CharSize : buf = PopUtf8(buf) \o Utf8(n)
            \/ 1 \in CharSize /\ \E n \in CharSize \ {1} : buf = PopUtf8(buf) \o Utf8(n) \o Utf8(1)
<1>0. Len(buf) \in Nat /\ Len(buf) > 0 /\ \A i \in 1..Len(buf) : buf[i] \in Text
  BY LenProperties, ElementOfSeq, EmptySeq
\* The last byte, if it is no continuation byte, is a character of its own.
<1>1. ASSUME buf[Len(buf)] # "cont"
      PROVE  1 \in CharSize /\ buf[Len(buf)] = Utf8(1)[1]
  <2>1. PICK p \in CharSize, g \in 1..Len(buf) :
          /\ Len(buf) < g + p /\ g + p <= Len(buf) + 1
          /\ \A j \in 1..p : buf[g + j - 1] = Utf8(p)[j]
    BY <1>0 DEF Whole, InCharacter
  <2>2. p \in 1..4 /\ \A j \in 1..p : j > 1 => Utf8(p)[j] = "cont"
    BY Utf8Bytes
  <2>3. p \in 1..p /\ g + p - 1 = Len(buf)
    BY <1>0, <2>1, <2>2
  <2>4. ~(p > 1)
    BY <1>1, <2>1, <2>2, <2>3
  <2>5. p = 1
    BY <2>2, <2>4
  <2>6. QED
    BY <2>1, <2>3, <2>5
<1>2. CASE Len(buf) = 1
  <2>1. buf[1] # "cont"
    <3>1. PICK p \in CharSize, g \in 1..1 : \A j \in 1..p : buf[g + j - 1] = Utf8(p)[j]
      BY <1>0, <1>2 DEF Whole, InCharacter
    <3>2. p \in 1..4 /\ Utf8(p)[1] # "cont"
      BY Utf8Bytes
    <3>3. QED
      BY <3>1, <3>2
  <2>2. 1 \in CharSize /\ buf[1] = Utf8(1)[1]
    BY <1>1, <1>2, <2>1
  <2>3. PopUtf8(buf) = <<>>
    <3>1. Len(buf) <= 1
      BY <1>2
    <3>2. QED
      BY <3>1, PopUtf8Empties
  <2>4. \A j \in 1..1 : buf[1 + j - 1] = Utf8(1)[j]
    BY <2>2
  <2>5. buf = SubSeq(buf, 1, 1 - 1) \o Utf8(1)
    BY <1>2, <2>2, <2>4, EndsWith
  <2>6. SubSeq(buf, 1, 1 - 1) = <<>>
    BY SubSeqEmpty
  <2>7. PopUtf8(buf) \in Seq(Text) /\ buf = PopUtf8(buf) \o Utf8(1)
    <3>1. <<>> \in Seq(Text)
      OBVIOUS
    <3>2. PopUtf8(buf) \in Seq(Text)
      BY <2>3, <3>1, Zenon
    <3>3. buf = <<>> \o Utf8(1)
      BY <2>5, <2>6, Zenon
    <3>4. QED
      BY <2>3, <3>2, <3>3, Zenon
  <2>8. QED
    BY <2>2, <2>7, Zenon
<1>3. CASE Len(buf) > 1
  <2>1. PICK n \in CharSize, f \in 1..Len(buf) - 1 :
          /\ Len(buf) - 1 < f + n /\ f + n <= Len(buf) + 1
          /\ \A j \in 1..n : buf[f + j - 1] = Utf8(n)[j]
          /\ f + n <= Len(buf) => buf[f + n] # "cont"
          /\ PopUtf8(buf) = SubSeq(buf, 1, IF n = 1 THEN f ELSE f - 1)
    <3>1. buf \in Seq(Byte)
      BY SeqMonotonic DEF Byte
    <3>2. QED
      BY <1>0, <1>3, <3>1, PopUtf8Place
  <2>2. n \in 1..4
    BY Utf8Bytes
  \* The longer character was the last one,
  <2>3. CASE f + n = Len(buf) + 1
    <3>1. n # 1 /\ f \in 1..Len(buf)
      BY <1>0, <2>3
    <3>2. PopUtf8(buf) = SubSeq(buf, 1, f - 1)
      BY <2>1, <3>1
    <3>3. SubSeq(buf, 1, f - 1) \in Seq(Text) /\ buf = SubSeq(buf, 1, f - 1) \o Utf8(n)
      BY <2>1, <2>3, <3>1, EndsWith
    <3>4. QED
      BY <3>2, <3>3, Zenon
  \* or there is a one-byte character behind it.
  <2>4. CASE f + n = Len(buf)
    <3> DEFINE L == Len(buf)
               front == SubSeq(buf, 1, L - 1)
    <3>1. 1 \in CharSize /\ buf[L] = Utf8(1)[1]
      BY <1>0, <1>1, <2>1, <2>4
    <3>2. \A j \in 1..1 : buf[L + j - 1] = Utf8(1)[j]
      BY <1>0, <3>1
    <3>3. L \in 1..Len(buf) /\ L + 1 = Len(buf) + 1
      BY <1>0
    <3>4. front \in Seq(Text) /\ Len(front) = L - 1 /\ buf = front \o Utf8(1)
      BY <3>1, <3>2, <3>3, EndsWith
    <3>5. CASE n = 1
      <4>1. PopUtf8(buf) = front
        BY <1>0, <2>1, <2>4, <3>5
      <4>2. QED
        BY <3>1, <3>4, <4>1
    <3>6. CASE n # 1
      <4>1. PopUtf8(buf) = SubSeq(buf, 1, f - 1)
        BY <2>1, <3>6
      <4>2. \A i \in 1..L - 1 : front[i] = buf[i]
        BY <1>0, SubSeqProperties
      <4>3. f \in 1..Len(front) /\ f + n = Len(front) + 1
        BY <1>0, <2>4, <3>4
      <4>4. \A j \in 1..n : front[f + j - 1] = Utf8(n)[j]
        BY <1>0, <2>1, <2>2, <2>4, <4>2
      <4>5. /\ SubSeq(front, 1, f - 1) \in Seq(Text)
            /\ front = SubSeq(front, 1, f - 1) \o Utf8(n)
        <5> HIDE DEF front
        <5>1. QED
          BY <3>4, <4>3, <4>4, EndsWith
      <4>6. SubSeq(front, 1, f - 1) = SubSeq(buf, 1, f - 1)
        <5>1. CASE f = 1
          BY <5>1, SubSeqEmpty
        <5>2. CASE f > 1
          BY <1>0, <2>2, <2>4, <5>2, SubSeqOfSubSeq
        <5>3. QED
          BY <5>1, <5>2
      <4>7. QED
        BY <3>1, <3>4, <3>6, <4>1, <4>5, <4>6
    <3>7. QED
      BY <3>5, <3>6
  <2>5. f + n = Len(buf) + 1 \/ f + n = Len(buf)
    BY <1>0, <2>1, <2>2
  <2>6. QED
    BY <2>3, <2>4, <2>5, Zenon
<1>4. Len(buf) = 1 \/ Len(buf) > 1
  <2>1. \A k \in Nat : k > 0 => k = 1 \/ k > 1
    OBVIOUS
  <2>2. QED
    BY <1>0, <2>1, Zenon
<1>5. QED
  BY <1>2, <1>3, <1>4, Zenon

\* Before a byte that is no text the buffer is made of whole characters.
LEMMA CommandFindsWhole ==
  ASSUME IInv, outcome = "reading", chunk # <<>>, Head(chunk) \in Command
  PROVE  data \in Seq(Text) /\ Whole(data)
<1>1. /\ data \in Seq(Text) /\ Whole(data \o chunk \o pending)
      /\ pending \in Seq(Byte) /\ chunk \in Seq(Byte)
  BY DEF IInv, TypeOK, Stream
<1>2. Len(data) \in 0..Len(data)
  BY <1>1, LenProperties
<1>3. Whole(SubSeq(data, 1, Len(data)))
  BY <1>1, <1>2, CutBuffer
<1>4. QED
  BY <1>1, <1>3, SubSeqFull

\* Backspace, pressed when the line is not empty.
Erases == HandleByte /\ Head(chunk) = "erase" /\ data # <<>>

\* _pop_utf8 takes the last character off the line; when that is a one-byte character
\* behind a longer one, it takes both, and never more than these two.
ErasesOneOrTwo ==
  [][Erases => \/ \E n \in CharSize : data = data' \o Utf8(n)
               \/ 1 \in CharSize /\ \E n \in CharSize \ {1} : data = data' \o Utf8(n) \o Utf8(1)]_vars

LEMMA ErasesOneOrTwoStep ==
  ASSUME IInv, Erases
  PROVE  /\ data \in Seq(Text) /\ data' \in Seq(Text)
         /\ \/ \E n \in CharSize : data = data' \o Utf8(n)
            \/ 1 \in CharSize /\ \E n \in CharSize \ {1} : data = data' \o Utf8(n) \o Utf8(1)
<1>1. outcome = "reading" /\ chunk # <<>> /\ Head(chunk) = "erase" /\ data # <<>>
  BY DEF Erases, HandleByte
<1>2. data \in Seq(Text) /\ Whole(data)
  BY <1>1, CommandFindsWhole DEF Command
<1>3. data' = PopUtf8(data)
  BY <1>1 DEF Erases, HandleByte, Edited
<1>4. QED
  BY <1>1, <1>2, <1>3, PopUtf8Erases

\* However the line was edited, Backspace takes one character or, when the last one is a
\* one-byte character behind a longer one, two: this is all that _pop_utf8 gets wrong.
THEOREM BackspaceErases == Spec => ErasesOneOrTwo
<1>1. IInv /\ Erases => \/ \E n \in CharSize : data = data' \o Utf8(n)
                        \/ 1 \in CharSize /\ \E n \in CharSize \ {1} : data = data' \o Utf8(n) \o Utf8(1)
  BY ErasesOneOrTwoStep, Zenon
<1>2. QED
  BY Invariance, <1>1, PTL DEF Spec, ErasesOneOrTwo
-------------------------------------------------------------------------------
(***************************************************************************)
(* What is returned, while all characters typed are of one kind.           *)
(***************************************************************************)
Unhandled == chunk \o pending

\* What a byte makes of the line, for the loop.
Line(line, byte) == IF byte = "cancel" THEN line ELSE Edited(line, byte)

\* If the loop handled all that it has, or all up to Enter, the buffer would become what is
\* meant: lines[i] is the buffer after i bytes more.
OnItsWay(m, lines) ==
  /\ lines[0] = data /\ lines[m] = meant
  /\ \A i \in 1..m : Unhandled[i] # "enter" /\ lines[i] = Line(lines[i - 1], Unhandled[i])
  /\ IF Entered THEN m < Len(Unhandled) /\ Unhandled[m + 1] = "enter" ELSE m = Len(Unhandled)

WillBeMeant ==
  outcome = "reading" /\ OneKindOfCharacter =>
    \E m \in 0..Len(Unhandled) : \E lines \in [0..m -> Seq(Text)] : OnItsWay(m, lines)

\* The text that is meant was typed.
MeantIsTyped ==
  \A b \in Range(meant) : \E n \in CharSize : Utf8(n) \in Range(typed) /\ b \in Range(Utf8(n))

\* Of one kind of characters Backspace takes the last, as it is meant to.
LEMMA PopUtf8OfOneKind ==
  ASSUME NEW buf \in Seq(Text), Whole(buf), buf # <<>>, OneKindOfCharacter, typed \in Seq(Key),
         \A b \in Range(buf) : \E n \in CharSize : Utf8(n) \in Range(typed) /\ b \in Range(Utf8(n))
  PROVE  PopUtf8(buf) = WithoutLast(buf)
<1>1. /\ PopUtf8(buf) \in Seq(Text)
      /\ \/ \E n \in CharSize : buf = PopUtf8(buf) \o Utf8(n)
         \/ 1 \in CharSize /\ \E n \in CharSize \ {1} : buf = PopUtf8(buf) \o Utf8(n) \o Utf8(1)
  BY PopUtf8Erases
<1>2. ASSUME 1 \in CharSize, NEW n \in CharSize, n # 1, buf = PopUtf8(buf) \o Utf8(n) \o Utf8(1)
      PROVE  FALSE
  <2> DEFINE a == PopUtf8(buf)
  <2>1. /\ a \in Seq(Text) /\ Utf8(n) \in Seq(Text) /\ Utf8(1) \in Seq(Text)
        /\ a \o Utf8(n) \in Seq(Text)
    BY <1>1, <1>2, Utf8Bytes, ConcatProperties
  <2> HIDE DEF a
  <2>2. Range(a \o Utf8(n)) = Range(a) \union Range(Utf8(n))
    BY <2>1, RangeConcatenation
  <2>3. Range((a \o Utf8(n)) \o Utf8(1)) = Range(a \o Utf8(n)) \union Range(Utf8(1))
    BY <2>1, RangeConcatenation, Zenon
  <2>4. Range(buf) = Range(a) \union Range(Utf8(n)) \union Range(Utf8(1))
    BY <1>2, <2>2, <2>3 DEF a
  <2>5. "ascii" \in Range(Utf8(1)) /\ "lead" \in Range(Utf8(n))
    <3>1. n \in 1..4
      BY Utf8Bytes
    <3>2. QED
      BY <1>2, <3>1 DEF Utf8, Range
  <2>6. PICK p \in CharSize : Utf8(p) \in Range(typed) /\ "ascii" \in Range(Utf8(p))
    BY <2>4, <2>5
  <2>7. PICK q \in CharSize : Utf8(q) \in Range(typed) /\ "lead" \in Range(Utf8(q))
    BY <2>4, <2>5
  <2>8. p = 1 /\ q # 1
    BY <2>6, <2>7 DEF Utf8, Range
  <2>9. Utf8(q) # Utf8(1)
    <3>1. q \in 1..4
      BY Utf8Bytes
    <3>2. Utf8(q)[1] = "lead" /\ Utf8(1)[1] = "ascii"
      BY <2>8, <3>1 DEF Utf8
    <3>3. QED
      BY <3>2
  <2>10. \E i, j \in DOMAIN typed :
           typed[i] = Utf8(1) /\ typed[j] \in Character /\ typed[j] # Utf8(1)
    BY <2>6, <2>7, <2>8, <2>9 DEF Range, Character
  <2>11. QED
    BY <2>10 DEF OneKindOfCharacter
<1>3. PICK n \in CharSize : buf = PopUtf8(buf) \o Utf8(n)
  BY <1>1, <1>2
<1>4. PICK p \in CharSize : buf = WithoutLast(buf) \o Utf8(p)
  BY WithoutLastIsWhole
<1>5. WithoutLast(buf) \in Seq(Text)
  BY WithoutLastIsWhole
<1>6. QED
  BY <1>1, <1>3, <1>4, <1>5, OneLastCharacter

\* A key that is no Enter, for the user and, byte by byte, for the loop.
LEMMA KeyIsMeant ==
  ASSUME NEW line \in Seq(Text), NEW key \in Key, key # <<"enter">>,
         key = <<"erase">> /\ line # <<>> => PopUtf8(line) = WithoutLast(line),
         Edit(line, key) \in Seq(Text)
  PROVE  \E lines \in [0..Len(key) -> Seq(Text)] :
           /\ lines[0] = line /\ lines[Len(key)] = Edit(line, key)
           /\ \A i \in 1..Len(key) : key[i] # "enter" /\ lines[i] = Line(lines[i - 1], key[i])
<1>1. CASE key \in Character
  <2>1. /\ key \in Seq(Text) /\ Len(key) \in Nat /\ \A i \in 1..Len(key) : key[i] \in Text
    BY <1>1, Utf8Bytes, LenProperties, ElementOfSeq DEF Character
  <2> DEFINE L == Len(key)
             lines == [i \in 0..L |-> line \o SubSeq(key, 1, i)]
  <2>2. ASSUME NEW i \in 0..L PROVE SubSeq(key, 1, i) \in Seq(Text)
    BY <2>1, <2>2, SubSeqProperties
  <2>3. lines \in [0..L -> Seq(Text)]
    BY <2>2, ConcatProperties
  <2>4. lines[0] = line
    <3>1. SubSeq(key, 1, 0) = <<>>
      BY SubSeqEmpty
    <3>2. QED
      BY <2>1, <3>1, ConcatEmptySeq
  <2>5. lines[L] = Edit(line, key)
    <3>1. Edit(line, key) = line \o key
      BY <1>1, CommandIsNoCharacter DEF Edit, Command
    <3>2. SubSeq(key, 1, L) = key
      BY <2>1, SubSeqFull
    <3>3. QED
      BY <2>1, <3>1, <3>2
  <2>6. ASSUME NEW i \in 1..L
        PROVE  key[i] # "enter" /\ lines[i] = Line(lines[i - 1], key[i])
    <3>1. i - 1 \in 0..L /\ i \in 0..L /\ key[i] \in Text
      BY <2>1
    <3>2. SubSeq(key, 1, i) = SubSeq(key, 1, i - 1) \o <<key[i]>>
      <4>1. 1 \in 1..L /\ i \in 1..L
        BY <2>1
      <4>2. QED
        BY <2>1, <4>1, SubSeqRecursiveSecond
    <3>3. line \o (SubSeq(key, 1, i - 1) \o <<key[i]>>) =
            Append(line \o SubSeq(key, 1, i - 1), key[i])
      <4> DEFINE k == SubSeq(key, 1, i - 1)
      <4>1. k \in Seq(Text) /\ <<key[i]>> \in Seq(Text)
        BY <2>2, <3>1
      <4> HIDE DEF k
      <4>2. (line \o k) \o <<key[i]>> = line \o (k \o <<key[i]>>)
        BY <4>1, ConcatAssociative
      <4>4. line \o k \in Seq(Text)
        BY <4>1, ConcatProperties
      <4>5. Append(line \o k, key[i]) = (line \o k) \o <<key[i]>>
        BY <3>1, <4>4, AppendIsConcat
      <4>6. QED
        BY <4>2, <4>5 DEF k
    <3>4. \A l : Line(l, key[i]) = Append(l, key[i])
      BY <3>1 DEF Line, Edited, Text
    <3>5. QED
      BY <3>1, <3>2, <3>3, <3>4 DEF Text
  <2> HIDE DEF lines
  <2>7. QED
    BY <2>3, <2>4, <2>5, <2>6
<1>2. ASSUME NEW b \in Command, key = <<b>>
      PROVE  \E lines \in [0..Len(key) -> Seq(Text)] :
               /\ lines[0] = line /\ lines[Len(key)] = Edit(line, key)
               /\ \A i \in 1..Len(key) : key[i] # "enter" /\ lines[i] = Line(lines[i - 1], key[i])
  <2>1. b \in {"erase", "kill", "cancel", "control"} /\ key \notin Character
    BY <1>2, CommandIsNoCharacter DEF Command
  <2>2. Edit(line, key) = Line(line, b)
    <3>1. CASE b = "erase" /\ line = <<>>
      BY <1>2, <2>1, <3>1 DEF Edit, Line, Edited, PopUtf8
    <3>2. CASE b = "erase" /\ line # <<>>
      BY <1>2, <2>1, <3>2 DEF Edit, Line, Edited
    <3>3. CASE b # "erase"
      BY <1>2, <2>1, <3>3 DEF Edit, Line, Edited
    <3>4. QED
      BY <3>1, <3>2, <3>3
  <2> DEFINE lines == [i \in 0..1 |-> IF i = 0 THEN line ELSE Edit(line, key)]
  <2>4. lines \in [0..1 -> Seq(Text)] /\ lines[0] = line /\ lines[1] = Edit(line, key)
    OBVIOUS
  <2>5. Len(key) = 1 /\ key[1] = b
    BY <1>2
  <2> HIDE DEF lines
  <2>6. QED
    BY <2>1, <2>2, <2>4, <2>5
<1>3. QED
  BY <1>1, <1>2 DEF Key

LEMMA EmptyIsWhole == <<>> \in Seq(Byte) /\ Whole(<<>>)
  BY DEF Whole

\* The typed keys and what they say, when one more is typed.
LEMMA OneMoreKey ==
  ASSUME typed \in Seq(Key), NEW key \in Key, typed' = Append(typed, key)
  PROVE  /\ Range(typed') = Range(typed) \union {key}
         /\ OneKindOfCharacter' => OneKindOfCharacter
<1>1. typed' = typed \o <<key>> /\ <<key>> \in Seq(Key) /\ Range(<<key>>) = {key}
  BY AppendIsConcat DEF Range
<1>2. Range(typed') = Range(typed) \union {key}
  <2>1. \A k \in Seq(Key) : Range(typed \o k) = Range(typed) \union Range(k)
    BY RangeConcatenation
  <2>2. QED
    BY <1>1, <2>1
<1>3. \A i \in DOMAIN typed : i \in DOMAIN typed' /\ typed'[i] = typed[i]
  <2>1. /\ Len(typed) \in Nat /\ DOMAIN typed = 1..Len(typed)
        /\ typed' \in Seq(Key) /\ Len(typed') = Len(typed) + 1
        /\ \A i \in 1..Len(typed) : typed'[i] = typed[i]
    BY LenProperties, AppendProperties
  <2>2. DOMAIN typed' = 1..Len(typed) + 1
    BY <2>1, LenProperties
  <2>3. QED
    BY <2>1, <2>2
<1>4. QED
  BY <1>2, <1>3 DEF OneKindOfCharacter

LEMMA MeantIsTypedStep == ASSUME IInv, MeantIsTyped, [Next]_vars PROVE MeantIsTyped'
<1>1. CASE UNCHANGED <<typed, meant>>
  BY <1>1 DEF MeantIsTyped
<1>2. ASSUME NEW key \in Key, Press(key) PROVE MeantIsTyped'
  <2>1. /\ typed' = Append(typed, key)
        /\ meant' = meant \/ meant' = Edit(meant, key)
    BY <1>2 DEF Press
  <2>2. typed \in Seq(Key) /\ meant \in Seq(Text) /\ Whole(meant)
    BY DEF IInv, TypeOK
  <2>3. Range(typed') = Range(typed) \union {key}
    BY <2>1, <2>2, OneMoreKey
  <2>4. CASE Range(meant') \subseteq Range(meant)
    BY <2>3, <2>4 DEF MeantIsTyped
  <2>5. CASE key \in Character /\ meant' = Edit(meant, key)
    <3>1. meant' = meant \o key
      BY <2>5, CommandIsNoCharacter DEF Edit, Command
    <3>2. PICK n \in CharSize : key = Utf8(n)
      BY <2>5 DEF Character
    <3>3. key \in Seq(Text)
      BY <3>2, Utf8Bytes
    <3>4. Range(meant') = Range(meant) \union Range(key)
      BY <2>2, <3>1, <3>3, RangeConcatenation
    <3>5. QED
      BY <2>3, <3>2, <3>4 DEF MeantIsTyped
  <2>6. CASE key \notin Character /\ meant' = Edit(meant, key)
    <3>1. meant' \in {meant, <<>>} \/ (meant # <<>> /\ meant' = WithoutLast(meant))
      BY <2>6 DEF Edit
    <3>2. CASE meant' \in {meant, <<>>}
      BY <2>4, <3>2 DEF Range
    <3>3. CASE meant # <<>> /\ meant' = WithoutLast(meant)
      <4>1. PICK n \in CharSize : meant' \in Seq(Text) /\ meant = meant' \o Utf8(n)
        BY <2>2, <3>3, WithoutLastIsWhole
      <4>2. Range(meant) = Range(meant') \union Range(Utf8(n))
        BY <4>1, Utf8Bytes, RangeConcatenation
      <4>3. QED
        BY <2>4, <4>2
    <3>4. QED
      BY <3>1, <3>2, <3>3
  <2>7. QED
    BY <2>1, <2>4, <2>5, <2>6
<1>3. ReadSome \/ HandleByte \/ Fail \/ UNCHANGED vars => UNCHANGED <<typed, meant>>
  BY DEF ReadSome, Receive, HandleByte, Fail, vars
<1>4. QED
  BY <1>1, <1>2, <1>3 DEF Next

\* What the user types is put behind what the loop has to handle.
LEMMA PressWillBeMeant ==
  ASSUME IInv, MeantIsTyped, WillBeMeant, NEW key \in Key, Press(key)
  PROVE  WillBeMeant'
<1> SUFFICES ASSUME OneKindOfCharacter'
             PROVE  \E m \in 0..Len(Unhandled') :
                      \E lines \in [0..m -> Seq(Text)] : OnItsWay(m, lines)'
  BY DEF WillBeMeant
<1>1. /\ outcome = "reading" /\ typed' = Append(typed, key)
      /\ meant' = IF Entered THEN meant ELSE Edit(meant, key)
      /\ pending' = pending \o key /\ chunk' = chunk /\ data' = data
  BY DEF Press
<1>2. /\ typed \in Seq(Key) /\ meant \in Seq(Text) /\ Whole(meant)
      /\ pending \in Seq(Byte) /\ chunk \in Seq(Byte)
  BY DEF IInv, TypeOK
<1>3. Range(typed') = Range(typed) \union {key} /\ OneKindOfCharacter
  BY <1>1, <1>2, OneMoreKey
<1>4. key \in Seq(Byte)
  BY <1>2, KeyIsWhole, EmptyIsWhole
<1> DEFINE U == Unhandled
           V == Unhandled'
<1>5. /\ U \in Seq(Byte) /\ Len(U) \in Nat /\ Len(key) \in Nat
      /\ Len(V) = Len(U) + Len(key)
      /\ \A i \in 1..Len(U) : V[i] = U[i]
      /\ \A i \in 1..Len(key) : V[Len(U) + i] = key[i]
  <2>1. U \in Seq(Byte)
    BY <1>2, ConcatProperties DEF Unhandled
  <2>2. V = U \o key
    BY <1>1, <1>2, <1>4, ConcatAssociative DEF Unhandled
  <2> HIDE DEF U, V
  <2>3. /\ Len(V) = Len(U) + Len(key)
        /\ \A i \in 1..Len(U) + Len(key) : V[i] = IF i <= Len(U) THEN U[i] ELSE key[i - Len(U)]
        /\ Len(U) \in Nat /\ Len(key) \in Nat
    BY <1>4, <2>1, <2>2, ConcatProperties, LenProperties
  <2>4. QED
    BY <2>1, <2>3
<1>6. PICK m \in 0..Len(U) : \E lines \in [0..m -> Seq(Text)] : OnItsWay(m, lines)
  BY <1>1, <1>3 DEF WillBeMeant
<1>7. PICK lines \in [0..m -> Seq(Text)] : OnItsWay(m, lines)
  BY <1>6
<1> HIDE DEF U, V
<1>8. /\ lines[0] = data /\ lines[m] = meant
      /\ \A i \in 1..m : U[i] # "enter" /\ lines[i] = Line(lines[i - 1], U[i])
      /\ IF Entered THEN m < Len(U) /\ U[m + 1] = "enter" ELSE m = Len(U)
  BY <1>7 DEF OnItsWay, U
<1>9. SUFFICES \E k \in 0..Len(V) : \E ls \in [0..k -> Seq(Text)] :
                 /\ ls[0] = data /\ ls[k] = meant'
                 /\ \A i \in 1..k : V[i] # "enter" /\ ls[i] = Line(ls[i - 1], V[i])
                 /\ IF Entered' THEN k < Len(V) /\ V[k + 1] = "enter" ELSE k = Len(V)
  BY <1>1 DEF OnItsWay, V, Line, Edited, PopUtf8, WithoutTail
\* Nothing that follows Enter is meant.
<1>10. CASE Entered
  <2>1. meant' = meant /\ Entered'
    BY <1>1, <1>3, <1>10 DEF Entered
  <2>2. m < Len(U) /\ U[m + 1] = "enter" /\ m \in 0..Len(V) /\ m + 1 \in 1..Len(U) /\ m < Len(V)
    BY <1>5, <1>8, <1>10
  <2>3. ASSUME NEW i \in 1..m PROVE V[i] # "enter" /\ lines[i] = Line(lines[i - 1], V[i])
    <3>1. i \in 1..Len(U)
      BY <1>5, <2>2
    <3>2. QED
      BY <1>5, <1>8, <3>1
  <2>4. V[m + 1] = "enter"
    BY <1>5, <2>2
  <2>5. QED
    BY <1>8, <2>1, <2>2, <2>3, <2>4
<1>11. CASE ~Entered /\ key = <<"enter">>
  <2>1. meant' = meant /\ Entered'
    <3>1. <<"enter">> \notin Character
      BY CommandIsNoCharacter DEF Command
    <3>2. QED
      BY <1>1, <1>3, <1>11, <3>1 DEF Entered, Edit
  <2>2. m = Len(U) /\ Len(key) = 1 /\ key[1] = "enter"
    BY <1>8, <1>11
  <2>3. m \in 0..Len(V) /\ m < Len(V) /\ V[m + 1] = "enter"
    BY <1>5, <2>2
  <2>4. \A i \in 1..m : V[i] # "enter" /\ lines[i] = Line(lines[i - 1], V[i])
    BY <1>5, <1>8, <2>2
  <2>5. QED
    BY <1>8, <2>1, <2>3, <2>4
<1>12. CASE ~Entered /\ key # <<"enter">>
  <2>1. meant' = Edit(meant, key) /\ ~Entered' /\ m = Len(U)
    BY <1>1, <1>3, <1>8, <1>12 DEF Entered
  <2>2. meant # <<>> => PopUtf8(meant) = WithoutLast(meant)
    BY <1>2, <1>3, PopUtf8OfOneKind DEF MeantIsTyped
  <2>3. Edit(meant, key) \in Seq(Text)
    BY <1>2, EditIsWhole
  <2>4. PICK ks \in [0..Len(key) -> Seq(Text)] :
          /\ ks[0] = meant /\ ks[Len(key)] = Edit(meant, key)
          /\ \A i \in 1..Len(key) : key[i] # "enter" /\ ks[i] = Line(ks[i - 1], key[i])
    BY <1>2, <1>12, <2>2, <2>3, KeyIsMeant
  <2> DEFINE k == Len(U) + Len(key)
             ls == [i \in 0..k |-> IF i <= m THEN lines[i] ELSE ks[i - m]]
  <2>5. ls \in [0..k -> Seq(Text)]
    <3>1. ASSUME NEW i \in 0..k PROVE (IF i <= m THEN lines[i] ELSE ks[i - m]) \in Seq(Text)
      <4>1. CASE i <= m
        <5>1. i \in 0..m
          BY <1>5, <4>1
        <5>2. QED
          BY <1>7, <4>1, <5>1
      <4>2. CASE ~(i <= m)
        <5>1. i - m \in 0..Len(key)
          BY <1>5, <2>1, <4>2
        <5>2. QED
          BY <2>4, <4>2, <5>1
      <4>3. QED
        BY <4>1, <4>2
    <3>2. QED
      BY <3>1
  <2>6. /\ \A i \in 0..m : ls[i] = lines[i]
        /\ \A i \in 0..Len(key) : ls[m + i] = ks[i]
    <3>1. ASSUME NEW i \in 0..m PROVE ls[i] = lines[i]
      <4>1. i \in 0..k /\ i <= m
        BY <1>5, <2>1
      <4>2. QED
        BY <4>1
    <3>2. ASSUME NEW i \in 0..Len(key) PROVE ls[m + i] = ks[i]
      <4>1. m + i \in 0..k /\ m + i - m = i /\ (m + i <= m => i = 0 /\ m + i = m /\ m \in 0..m)
        BY <1>5, <2>1
      <4>2. CASE m + i <= m
        BY <1>8, <2>4, <4>1, <4>2
      <4>3. CASE ~(m + i <= m)
        BY <4>1, <4>3
      <4>4. QED
        BY <4>2, <4>3
    <3>3. QED
      BY <3>1, <3>2
  <2> HIDE DEF ls
  <2>7. ls[0] = data /\ ls[k] = meant'
    <3>1. 0 \in 0..m /\ Len(key) \in 0..Len(key) /\ m + Len(key) = k
      BY <1>5, <2>1
    <3>2. QED
      BY <1>8, <2>1, <2>4, <2>6, <3>1
  <2>8. ASSUME NEW i \in 1..k PROVE V[i] # "enter" /\ ls[i] = Line(ls[i - 1], V[i])
    <3>1. CASE i <= m
      <4>1. i \in 1..m /\ i \in 0..m /\ i - 1 \in 0..m /\ i \in 1..Len(U)
        BY <1>5, <2>1, <3>1
      <4>2. QED
        BY <1>5, <1>8, <2>6, <4>1
    <3>2. CASE ~(i <= m)
      <4> DEFINE j == i - m
      <4>1. /\ j \in 1..Len(key) /\ j \in 0..Len(key) /\ j - 1 \in 0..Len(key)
            /\ m + j = i /\ m + (j - 1) = i - 1 /\ Len(U) + j = i
        BY <1>5, <2>1, <3>2
      <4> HIDE DEF j
      <4>2. V[i] = key[j]
        BY <1>5, <4>1
      <4>3. ls[i] = ks[j] /\ ls[i - 1] = ks[j - 1]
        BY <2>6, <4>1
      <4>4. QED
        BY <2>4, <4>1, <4>2, <4>3
    <3>3. QED
      BY <3>1, <3>2
  <2>9. k \in 0..Len(V) /\ k = Len(V)
    BY <1>5, <2>1
  <2>10. QED
    BY <2>1, <2>5, <2>7, <2>8, <2>9
<1>13. QED
  BY <1>10, <1>11, <1>12

\* The loop does with the first byte what it was expected to do.
LEMMA HandleByteWillBeMeant ==
  ASSUME IInv, WillBeMeant, HandleByte, OneKindOfCharacter
  PROVE  /\ outcome' = "returned" => data' = meant
         /\ WillBeMeant'
<1> DEFINE byte == Head(chunk)
           U == Unhandled
           V == Unhandled'
<1>1. /\ outcome = "reading" /\ chunk # <<>>
      /\ chunk' = Tail(chunk)
      /\ typed' = typed /\ meant' = meant /\ pending' = pending
      /\ \/ byte = "enter" /\ outcome' = "returned" /\ data' = data
         \/ byte = "cancel" /\ outcome' = "raised" /\ data' = Wiped(data)
         \/ byte \notin {"enter", "cancel"} /\ data' = Edited(data, byte) /\ outcome' = outcome
  BY DEF HandleByte
<1>2. pending \in Seq(Byte) /\ chunk \in Seq(Byte)
  BY DEF IInv, TypeOK
<1>3. /\ Len(U) \in Nat /\ Len(U) > 0 /\ U[1] = byte
      /\ Len(V) = Len(U) - 1
      /\ \A i \in 1..Len(U) - 1 : V[i] = U[i + 1]
  <2>1. /\ Len(chunk) \in Nat /\ Len(chunk) > 0 /\ byte = chunk[1] /\ Len(pending) \in Nat
        /\ Tail(chunk) \in Seq(Byte) /\ Len(Tail(chunk)) = Len(chunk) - 1
        /\ \A i \in 1..Len(chunk) - 1 : Tail(chunk)[i] = chunk[i + 1]
    BY <1>1, <1>2, EmptySeq, HeadTailProperties, LenProperties
  <2>2. /\ Len(U) = Len(chunk) + Len(pending)
        /\ \A i \in 1..Len(chunk) + Len(pending) :
             U[i] = IF i <= Len(chunk) THEN chunk[i] ELSE pending[i - Len(chunk)]
    BY <1>2, ConcatProperties DEF Unhandled
  <2> DEFINE rest == Tail(chunk)
  <2> HIDE DEF rest
  <2>3. V = rest \o pending
    BY <1>1 DEF Unhandled, rest
  <2>4. rest \in Seq(Byte) /\ Len(rest) = Len(chunk) - 1
    BY <2>1 DEF rest
  <2> HIDE DEF U, V
  <2>5. /\ Len(V) = Len(rest) + Len(pending)
        /\ \A i \in 1..Len(rest) + Len(pending) :
             V[i] = IF i <= Len(rest) THEN rest[i] ELSE pending[i - Len(rest)]
    BY <1>2, <2>3, <2>4, ConcatProperties
  <2>6. ASSUME NEW i \in 1..Len(U) - 1 PROVE V[i] = U[i + 1]
    <3>1. /\ i \in 1..Len(rest) + Len(pending) /\ i + 1 \in 1..Len(chunk) + Len(pending)
          /\ i <= Len(rest) <=> i + 1 <= Len(chunk)
          /\ i - Len(rest) = i + 1 - Len(chunk)
          /\ i <= Len(rest) => i \in 1..Len(chunk) - 1
      BY <2>1, <2>2, <2>4
    <3>2. CASE i <= Len(rest)
      <4>1. rest[i] = chunk[i + 1]
        BY <2>1, <3>1, <3>2 DEF rest
      <4>2. QED
        BY <2>2, <2>5, <3>1, <3>2, <4>1
    <3>3. CASE ~(i <= Len(rest))
      BY <2>2, <2>5, <3>1, <3>3
    <3>4. QED
      BY <3>2, <3>3
  <2>7. QED
    BY <2>1, <2>2, <2>4, <2>5, <2>6
<1>4. PICK m \in 0..Len(U) : \E lines \in [0..m -> Seq(Text)] : OnItsWay(m, lines)
  BY <1>1 DEF WillBeMeant
<1>5. PICK lines \in [0..m -> Seq(Text)] : OnItsWay(m, lines)
  BY <1>4
<1> HIDE DEF U, V, byte
<1>6. /\ lines[0] = data /\ lines[m] = meant
      /\ \A i \in 1..m : U[i] # "enter" /\ lines[i] = Line(lines[i - 1], U[i])
      /\ IF Entered THEN m < Len(U) /\ U[m + 1] = "enter" ELSE m = Len(U)
  BY <1>5 DEF OnItsWay, U
<1>7. CASE m = 0
  <2>1. Entered /\ byte = "enter"
    BY <1>3, <1>6, <1>7
  <2>2. outcome' = "returned" /\ data' = data
    BY <1>1, <2>1
  <2>3. QED
    BY <1>6, <1>7, <2>2 DEF WillBeMeant
<1>8. CASE m > 0
  <2>1. 1 \in 1..m /\ byte # "enter" /\ 1 - 1 = 0
    BY <1>3, <1>6, <1>8
  <2>2. CASE outcome' # "reading"
    BY <1>1, <2>1, <2>2 DEF WillBeMeant
  <2>3. CASE outcome' = "reading"
    <3>1. data' = Edited(data, byte) /\ byte # "cancel"
      BY <1>1, <2>1, <2>3
    <3>2. lines[1] = data'
      BY <1>3, <1>6, <2>1, <3>1 DEF Line
    <3> DEFINE k == m - 1
               ls == [i \in 0..k |-> lines[i + 1]]
    <3>3. k \in 0..Len(V) /\ \A i \in 0..k : i + 1 \in 0..m
      BY <1>3, <1>8
    <3>4. ls \in [0..k -> Seq(Text)]
      BY <1>5, <3>3
    <3>5. ls[0] = data' /\ ls[k] = meant'
      <4>1. 0 \in 0..k /\ k \in 0..k /\ k + 1 = m /\ 0 + 1 = 1
        BY <1>8, <3>3
      <4>2. QED
        BY <1>1, <1>6, <3>2, <4>1
    <3>6. ASSUME NEW i \in 1..k PROVE V[i] # "enter" /\ ls[i] = Line(ls[i - 1], V[i])
      <4>1. /\ i + 1 \in 1..m /\ i \in 1..Len(U) - 1 /\ i \in 0..k /\ i - 1 \in 0..k
            /\ i - 1 + 1 = i /\ i + 1 - 1 = i
        BY <1>3, <1>8
      <4>2. V[i] = U[i + 1] /\ ls[i] = lines[i + 1] /\ ls[i - 1] = lines[i]
        BY <1>3, <4>1
      <4>3. QED
        BY <1>6, <4>1, <4>2
    <3>7. IF Entered THEN k < Len(V) /\ V[k + 1] = "enter" ELSE k = Len(V)
      <4>1. k + 1 = m /\ (m < Len(U) => m \in 1..Len(U) - 1)
        BY <1>3, <1>8
      <4>2. QED
        BY <1>3, <1>6, <4>1
    <3> HIDE DEF ls
    <3>8. OnItsWay(k, ls)'
      <4>1. Entered' = Entered
        BY <1>1 DEF Entered
      <4>2. QED
        BY <3>5, <3>6, <3>7, <4>1 DEF OnItsWay, V, Line, Edited, PopUtf8, WithoutTail
    <3>9. WillBeMeant'
      BY <3>3, <3>4, <3>8 DEF WillBeMeant, V
    <3>10. QED
      BY <2>3, <3>9
  <2>4. QED
    BY <2>2, <2>3
<1>9. QED
  BY <1>7, <1>8

LEMMA UnhandledStays ==
  ASSUME WillBeMeant, UNCHANGED <<typed, meant, data, outcome, Unhandled>>
  PROVE  WillBeMeant'
<1>1. OneKindOfCharacter' = OneKindOfCharacter /\ Entered' = Entered
  BY DEF OneKindOfCharacter, Entered
<1>2. ASSUME NEW m, NEW lines, OnItsWay(m, lines) PROVE OnItsWay(m, lines)'
  BY <1>1, <1>2 DEF OnItsWay, Line, Edited, PopUtf8, WithoutTail
<1>3. QED
  BY <1>1, <1>2 DEF WillBeMeant

LEMMA NextWillBeMeant ==
  ASSUME IInv, MeantIsTyped, WillBeMeant, ReturnsOneKindAsMeant, [Next]_vars
  PROVE  WillBeMeant' /\ ReturnsOneKindAsMeant'
<1>1. ASSUME NEW key \in Key, Press(key) PROVE WillBeMeant' /\ ReturnsOneKindAsMeant'
  <2>1. outcome' = "reading"
    BY <1>1 DEF Press
  <2>2. QED
    BY <1>1, <2>1, PressWillBeMeant DEF ReturnsOneKindAsMeant, ReturnsWhatIsMeant
<1>2. CASE ReadSome
  <2>1. PICK n \in 1..Len(pending) :
          /\ outcome = "reading" /\ chunk = <<>>
          /\ chunk' = SubSeq(pending, 1, n)
          /\ pending' = SubSeq(pending, n + 1, Len(pending))
          /\ typed' = typed /\ meant' = meant /\ outcome' = outcome /\ data' = data
    BY <1>2 DEF ReadSome, Receive
  <2>2. pending \in Seq(Byte) /\ Len(pending) \in Nat
    BY LenProperties DEF IInv, TypeOK
  <2>3. chunk' \o pending' = pending
    <3>1. /\ 1 \in 1..Len(pending) + 1
          /\ n \in 1 - 1..Len(pending)
          /\ Len(pending) \in n..Len(pending)
      BY <2>2
    <3>2. chunk' \o pending' = SubSeq(pending, 1, Len(pending))
      BY <2>1, <2>2, <3>1, ConcatAdjacentSubSeq
    <3>3. QED
      BY <2>2, <3>2, SubSeqFull
  <2>4. Unhandled' = Unhandled
    BY <2>1, <2>2, <2>3, ConcatEmptySeq DEF Unhandled
  <2>5. WillBeMeant'
    BY <2>1, <2>4, UnhandledStays
  <2>6. QED
    BY <2>1, <2>5 DEF ReturnsOneKindAsMeant, ReturnsWhatIsMeant
<1>3. CASE HandleByte
  <2>1. typed' = typed /\ meant' = meant /\ (outcome' = "returned" => data' = data)
    BY <1>3 DEF HandleByte
  <2>2. OneKindOfCharacter' = OneKindOfCharacter
    BY <2>1 DEF OneKindOfCharacter
  <2>3. QED
    BY <1>3, <2>1, <2>2, HandleByteWillBeMeant
       DEF WillBeMeant, ReturnsOneKindAsMeant, ReturnsWhatIsMeant
<1>4. CASE Fail
  BY <1>4 DEF Fail, WillBeMeant, ReturnsOneKindAsMeant, ReturnsWhatIsMeant
<1>5. CASE UNCHANGED vars
  <2>1. UNCHANGED <<typed, meant, pending, chunk, data, outcome>>
    BY <1>5 DEF vars
  <2>2. Unhandled' = Unhandled
    BY <2>1 DEF Unhandled
  <2>3. WillBeMeant'
    BY <2>1, <2>2, UnhandledStays
  <2>4. QED
    BY <2>1, <2>3 DEF ReturnsOneKindAsMeant, ReturnsWhatIsMeant, OneKindOfCharacter
<1>6. QED
  BY <1>1, <1>2, <1>3, <1>4, <1>5 DEF Next

\* A password of one-byte characters, or of none, is returned as it was meant: whatever is
\* erased, and wherever the chunks begin and end.
THEOREM OneKindIsReturnedAsMeant == Spec => []ReturnsOneKindAsMeant
<1>1. Init => MeantIsTyped
  BY DEF Init, MeantIsTyped, Range
<1>2. Init => WillBeMeant
  <2> SUFFICES ASSUME Init
               PROVE  \E m \in 0..Len(Unhandled) :
                        \E lines \in [0..m -> Seq(Text)] : OnItsWay(m, lines)
    BY DEF WillBeMeant
  <2>1. Unhandled = <<>> /\ Len(Unhandled) = 0 /\ ~Entered /\ data = <<>> /\ meant = <<>>
    BY EmptyIsWhole, ConcatEmptySeq DEF Init, Unhandled, Entered, Range
  <2> DEFINE lines == [i \in 0..0 |-> <<>>]
  <2>2. lines \in [0..0 -> Seq(Text)] /\ lines[0] = <<>>
    OBVIOUS
  <2> HIDE DEF lines
  <2>3. OnItsWay(0, lines)
    BY <2>1, <2>2 DEF OnItsWay
  <2>4. QED
    BY <2>1, <2>2, <2>3
<1>3. Init => ReturnsOneKindAsMeant
  BY DEF Init, ReturnsOneKindAsMeant, ReturnsWhatIsMeant
<1>4. IInv /\ MeantIsTyped /\ [Next]_vars => MeantIsTyped'
  BY MeantIsTypedStep
<1>5. IInv /\ MeantIsTyped /\ WillBeMeant /\ ReturnsOneKindAsMeant /\ [Next]_vars =>
        WillBeMeant' /\ ReturnsOneKindAsMeant'
  BY NextWillBeMeant
<1>6. QED
  BY Invariance, <1>1, <1>2, <1>3, <1>4, <1>5, PTL DEF Spec
===============================================================================
