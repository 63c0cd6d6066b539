------------------------------ MODULE LineLemmas ------------------------------
(***************************************************************************)
(* Facts about the sequence operators that two lines use: the sessions     *)
(* that wait for the prompt, and the prompts that wait for the terminal.   *)
(***************************************************************************)
EXTENDS SequencesExt, SequenceTheorems, Integers, TLAPS

\* Place i of s is taken out and those behind it move up.
CloseUp(s, i) == [j \in 1..Len(s) - 1 |-> IF j < i THEN s[j] ELSE s[j + 1]]

\* RemoveAt closes the line up behind the place that it takes out.
LEMMA RemoveAtClosesUp ==
  ASSUME NEW S, NEW s \in Seq(S), NEW i \in 1..Len(s)
  PROVE  RemoveAt(s, i) = CloseUp(s, i) /\ RemoveAt(s, i) \in Seq(S)
<1> DEFINE a == SubSeq(s, 1, i - 1)
           b == SubSeq(s, i + 1, Len(s))
<1>1. Len(s) \in Nat /\ \A j \in 1..Len(s) : s[j] \in S
  BY LenProperties, ElementOfSeq
<1>2. /\ a \in Seq(S) /\ Len(a) = i - 1
      /\ \A j \in 1..i - 1 : a[j] = s[j]
  BY <1>1, SubSeqProperties
<1>3. /\ b \in Seq(S) /\ Len(b) = Len(s) - i
      /\ \A j \in 1..Len(s) - i : b[j] = s[i + j]
  BY <1>1, SubSeqProperties
<1> HIDE DEF a, b
<1>4. /\ a \o b \in Seq(S) /\ Len(a \o b) = Len(s) - 1
      /\ \A j \in 1..Len(s) - 1 : (a \o b)[j] = IF j <= i - 1 THEN a[j] ELSE b[j - (i - 1)]
  <2>1. /\ a \o b \in Seq(S) /\ Len(a \o b) = Len(a) + Len(b)
        /\ \A j \in 1..Len(a) + Len(b) :
             (a \o b)[j] = IF j <= Len(a) THEN a[j] ELSE b[j - Len(a)]
    BY <1>2, <1>3, ConcatProperties
  <2>2. Len(a) + Len(b) = Len(s) - 1 /\ Len(a) = i - 1
    BY <1>1, <1>2, <1>3
  <2>3. QED
    BY <2>1, <2>2
<1>5. \A j \in 1..Len(s) - 1 : (a \o b)[j] = IF j < i THEN s[j] ELSE s[j + 1]
  <2> SUFFICES ASSUME NEW j \in 1..Len(s) - 1
               PROVE  (a \o b)[j] = IF j < i THEN s[j] ELSE s[j + 1]
    OBVIOUS
  <2>1. CASE j < i
    BY <1>1, <1>2, <1>4, <2>1
  <2>2. CASE ~(j < i)
    <3>1. j - (i - 1) \in 1..Len(s) - i /\ i + (j - (i - 1)) = j + 1
      BY <1>1, <2>2
    <3>2. b[j - (i - 1)] = s[j + 1]
      BY <1>3, <3>1
    <3>3. QED
      BY <1>1, <1>4, <2>2, <3>2
  <2>3. QED
    BY <2>1, <2>2
<1>6. a \o b = CloseUp(s, i)
  <2>1. a \o b = [j \in 1..Len(s) - 1 |-> (a \o b)[j]]
    BY <1>1, <1>4, LenProperties
  <2>2. QED
    BY <1>5, <2>1 DEF CloseUp
<1>7. RemoveAt(s, i) = a \o b
  BY DEF RemoveAt, a, b
<1>8. QED
  BY <1>4, <1>6, <1>7

\* In a line without duplicates RemoveFirst takes out the place of e, if it has one.
LEMMA RemoveFirstPlace ==
  ASSUME NEW S, NEW s \in Seq(S), IsInjective(s), NEW e
  PROVE  \/ e \notin ToSet(s) /\ RemoveFirst(s, e) = s
         \/ \E i \in 1..Len(s) : s[i] = e /\ RemoveFirst(s, e) = CloseUp(s, i)
<1>0. DOMAIN s = 1..Len(s) /\ Len(s) \in Nat
  BY LenProperties
<1>1. CASE ~\E i \in 1..Len(s) : s[i] = e
  BY <1>0, <1>1 DEF RemoveFirst, ToSet
<1>2. CASE \E i \in 1..Len(s) : s[i] = e
  <2>1. PICK i \in 1..Len(s) : s[i] = e
    BY <1>2
  <2>2. {j \in 1..Len(s) : s[j] = e} = {i}
    BY <1>0, <2>1 DEF IsInjective
  <2>3. Min({i}) = i
    BY <1>0 DEF Min
  <2>4. RemoveFirst(s, e) = RemoveAt(s, i)
    BY <1>2, <2>2, <2>3 DEF RemoveFirst, SelectInSeq
  <2>5. QED
    BY <2>1, <2>4, RemoveAtClosesUp
<1>3. QED
  BY <1>1, <1>2

\* Closing the line up behind e leaves a line without duplicates and without e.
LEMMA CloseUpElements ==
  ASSUME NEW S, NEW s \in Seq(S), IsInjective(s), NEW i \in 1..Len(s)
  PROVE  /\ CloseUp(s, i) \in Seq(S)
         /\ Len(CloseUp(s, i)) = Len(s) - 1
         /\ IsInjective(CloseUp(s, i))
         /\ ToSet(CloseUp(s, i)) = ToSet(s) \ {s[i]}
<1> DEFINE c == CloseUp(s, i)
           old(j) == IF j < i THEN j ELSE j + 1
<1>0. DOMAIN s = 1..Len(s) /\ Len(s) \in Nat /\ \A j \in 1..Len(s) : s[j] \in S
  BY LenProperties, ElementOfSeq
<1>1. c \in Seq(S) /\ DOMAIN c = 1..Len(s) - 1 /\ Len(c) = Len(s) - 1
  <2>1. c \in Seq(S)
    BY RemoveAtClosesUp
  <2>2. DOMAIN c = 1..Len(s) - 1
    BY DEF CloseUp
  <2> HIDE DEF c
  <2>3. Len(c) \in Nat /\ 1..Len(c) = 1..Len(s) - 1
    BY <2>1, <2>2, LenProperties
  <2>4. Len(c) = Len(s) - 1
    <3> DEFINE n == Len(s) - 1
               m == Len(c)
    <3>1. n \in Nat /\ m \in Nat /\ 1..m = 1..n
      <4>1. Len(s) - 1 \in Nat
        BY <1>0
      <4>2. QED
        BY <2>3, <4>1, Zenon DEF m, n
    <3> HIDE DEF m, n
    <3>2. m > 0 => m \in 1..n
      BY <3>1
    <3>3. n > 0 => n \in 1..m
      BY <3>1
    <3>4. m = n
      BY <3>1, <3>2, <3>3
    <3>5. QED
      BY <3>4 DEF m, n
  <2>5. QED
    BY <2>1, <2>2, <2>4
<1>2. \A j \in 1..Len(s) - 1 : old(j) \in 1..Len(s) /\ old(j) # i /\ c[j] = s[old(j)]
  BY <1>0 DEF CloseUp
<1>3. \A m \in 1..Len(s) : m # i => \E j \in 1..Len(s) - 1 : old(j) = m
  <2> SUFFICES ASSUME NEW m \in 1..Len(s), m # i
               PROVE  \E j \in 1..Len(s) - 1 : old(j) = m
    OBVIOUS
  <2>1. CASE m < i
    <3> WITNESS m \in 1..Len(s) - 1
    <3> QED BY <2>1
  <2>2. CASE m > i
    <3>1. m - 1 \in 1..Len(s) - 1
      BY <1>0, <2>2
    <3> WITNESS m - 1 \in 1..Len(s) - 1
    <3> QED BY <1>0, <2>2
  <2>3. QED
    BY <1>0, <2>1, <2>2
<1>4. \A j, m \in 1..Len(s) - 1 : old(j) = old(m) => j = m
  BY <1>0
<1> HIDE DEF c, old
<1>5. IsInjective(c)
  BY <1>0, <1>1, <1>2, <1>4 DEF IsInjective
<1>6. ToSet(c) = ToSet(s) \ {s[i]}
  <2>1. ASSUME NEW e \in ToSet(c) PROVE e \in ToSet(s) \ {s[i]}
    <3>1. PICK j \in 1..Len(s) - 1 : e = c[j]
      BY <1>1, <2>1 DEF ToSet
    <3>2. e = s[old(j)] /\ old(j) \in 1..Len(s) /\ old(j) # i
      BY <1>2, <3>1
    <3>3. QED
      BY <1>0, <3>2 DEF ToSet, IsInjective
  <2>2. ASSUME NEW e \in ToSet(s) \ {s[i]} PROVE e \in ToSet(c)
    <3>1. PICK m \in 1..Len(s) : e = s[m]
      BY <1>0, <2>2 DEF ToSet
    <3>2. PICK j \in 1..Len(s) - 1 : old(j) = m
      BY <1>3, <2>2, <3>1
    <3>3. QED
      BY <1>1, <1>2, <3>1, <3>2 DEF ToSet
  <2>3. QED
    BY <2>1, <2>2
<1>7. QED
  BY <1>1, <1>5, <1>6 DEF c

\* The line behind its first place (`deque.popleft').
LEMMA BehindTheFirst ==
  ASSUME NEW S, NEW s \in Seq(S), s # <<>>
  PROVE  /\ SubSeq(s, 2, Len(s)) = CloseUp(s, 1)
         /\ Tail(s) = CloseUp(s, 1)
         /\ 1 \in 1..Len(s)
<1>1. Len(s) \in Nat /\ Len(s) > 0
  BY EmptySeq
<1>2. Tail(s) = SubSeq(s, 2, Len(s))
  BY TailIsSubSeq
<1>3. /\ Tail(s) \in Seq(S) /\ Len(Tail(s)) = Len(s) - 1
      /\ \A i \in 1..Len(Tail(s)) : Tail(s)[i] = s[i + 1]
  BY HeadTailProperties
<1>4. Tail(s) = [j \in 1..Len(s) - 1 |-> Tail(s)[j]]
  BY <1>3, LenProperties
<1>5. Tail(s) = CloseUp(s, 1)
  BY <1>1, <1>3, <1>4 DEF CloseUp
<1>6. QED
  BY <1>1, <1>2, <1>5

\* A newcomer at the end of the line (`deque.append').
LEMMA AppendElements ==
  ASSUME NEW S, NEW s \in Seq(S), IsInjective(s), NEW e \in S, e \notin ToSet(s)
  PROVE  /\ Append(s, e) \in Seq(S)
         /\ IsInjective(Append(s, e))
         /\ ToSet(Append(s, e)) = ToSet(s) \union {e}
<1>1. /\ Append(s, e) \in Seq(S) /\ Len(Append(s, e)) = Len(s) + 1
      /\ \A i \in 1..Len(s) : Append(s, e)[i] = s[i]
      /\ Append(s, e)[Len(s) + 1] = e
  BY AppendProperties
<1>2. /\ DOMAIN s = 1..Len(s) /\ Len(s) \in Nat
      /\ DOMAIN Append(s, e) = 1..Len(s) + 1
  BY <1>1, LenProperties
<1> DEFINE a == Append(s, e)
<1> HIDE DEF a
<1>3. IsInjective(a)
  <2> SUFFICES ASSUME NEW i \in 1..Len(s) + 1, NEW j \in 1..Len(s) + 1, a[i] = a[j]
               PROVE  i = j
    BY <1>2 DEF IsInjective, a
  <2>1. \A m \in 1..Len(s) : a[m] = s[m] /\ s[m] \in ToSet(s)
    BY <1>1, <1>2 DEF a, ToSet
  <2>2. a[Len(s) + 1] = e
    BY <1>1 DEF a
  <2>3. QED
    BY <1>2, <2>1, <2>2 DEF IsInjective
<1>4. ToSet(a) = ToSet(s) \union {e}
  <2>1. ToSet(a) = {a[i] : i \in 1..Len(s) + 1}
    BY <1>2 DEF ToSet, a
  <2>2. 1..Len(s) + 1 = 1..Len(s) \union {Len(s) + 1}
    BY <1>2
  <2>3. QED
    BY <1>1, <1>2, <2>1, <2>2 DEF ToSet, a
<1>5. QED
  BY <1>1, <1>3, <1>4 DEF a

\* In s, a comes before b.
Ahead(s, a, b) == \E i, j \in DOMAIN s : i < j /\ s[i] = a /\ s[j] = b

\* Who joins the line is behind all that are in it.
LEMMA AppendOrder ==
  ASSUME NEW S, NEW s \in Seq(S), NEW e \in S, e \notin ToSet(s), NEW a, NEW b
  PROVE  Ahead(Append(s, e), a, b) <=> Ahead(s, a, b) \/ (a \in ToSet(s) /\ b = e)
<1> DEFINE t == Append(s, e)
<1>1. /\ DOMAIN s = 1..Len(s) /\ Len(s) \in Nat /\ DOMAIN t = 1..Len(s) + 1
      /\ \A i \in 1..Len(s) : t[i] = s[i]
      /\ t[Len(s) + 1] = e
  BY AppendProperties, LenProperties
<1>2. \A i \in 1..Len(s) : s[i] # e
  BY <1>1 DEF ToSet
<1> HIDE DEF t
<1>3. ASSUME Ahead(t, a, b) PROVE Ahead(s, a, b) \/ (a \in ToSet(s) /\ b = e)
  <2>1. PICK i, j \in 1..Len(s) + 1 : i < j /\ t[i] = a /\ t[j] = b
    BY <1>1, <1>3 DEF Ahead
  <2>2. i \in 1..Len(s) /\ s[i] = a
    BY <1>1, <2>1
  <2>3. CASE j = Len(s) + 1
    BY <1>1, <2>1, <2>2, <2>3 DEF ToSet
  <2>4. CASE j \in 1..Len(s)
    BY <1>1, <2>1, <2>2, <2>4 DEF Ahead
  <2>5. QED
    BY <1>1, <2>1, <2>3, <2>4
<1>4. ASSUME Ahead(s, a, b) PROVE Ahead(t, a, b)
  <2>1. PICK i, j \in 1..Len(s) : i < j /\ s[i] = a /\ s[j] = b
    BY <1>1, <1>4 DEF Ahead
  <2>2. i \in DOMAIN t /\ j \in DOMAIN t /\ t[i] = a /\ t[j] = b
    BY <1>1, <2>1
  <2>3. QED
    BY <2>1, <2>2 DEF Ahead
<1>5. ASSUME a \in ToSet(s), b = e PROVE Ahead(t, a, b)
  <2>1. PICK i \in 1..Len(s) : s[i] = a
    BY <1>1, <1>5 DEF ToSet
  <2>2. i \in DOMAIN t /\ Len(s) + 1 \in DOMAIN t /\ i < Len(s) + 1 /\ t[i] = a /\ t[Len(s) + 1] = b
    BY <1>1, <1>5, <2>1
  <2>3. QED
    BY <2>2 DEF Ahead
<1>6. QED
  BY <1>3, <1>4, <1>5 DEF t

\* When one leaves the line, the others stay in their order.
LEMMA CloseUpOrder ==
  ASSUME NEW S, NEW s \in Seq(S), NEW k \in 1..Len(s), NEW a, NEW b, a # s[k], b # s[k]
  PROVE  Ahead(CloseUp(s, k), a, b) <=> Ahead(s, a, b)
<1> DEFINE t == CloseUp(s, k)
<1>1. /\ DOMAIN s = 1..Len(s) /\ Len(s) \in Nat /\ DOMAIN t = 1..Len(s) - 1
      /\ \A i \in 1..Len(s) - 1 : t[i] = IF i < k THEN s[i] ELSE s[i + 1]
  BY LenProperties DEF CloseUp
<1> HIDE DEF t
<1>2. ASSUME Ahead(t, a, b) PROVE Ahead(s, a, b)
  <2>1. PICK i, j \in 1..Len(s) - 1 : i < j /\ t[i] = a /\ t[j] = b
    BY <1>1, <1>2 DEF Ahead
  <2> DEFINE m == IF i < k THEN i ELSE i + 1
             n == IF j < k THEN j ELSE j + 1
  <2>2. m \in 1..Len(s) /\ n \in 1..Len(s) /\ m < n /\ s[m] = a /\ s[n] = b
    BY <1>1, <2>1
  <2>3. QED
    BY <1>1, <2>2 DEF Ahead
<1>3. ASSUME Ahead(s, a, b) PROVE Ahead(t, a, b)
  <2>1. PICK i, j \in 1..Len(s) : i < j /\ s[i] = a /\ s[j] = b
    BY <1>1, <1>3 DEF Ahead
  <2>2. i # k /\ j # k
    BY <2>1
  <2> DEFINE m == IF i < k THEN i ELSE i - 1
             n == IF j < k THEN j ELSE j - 1
  <2>3. m \in 1..Len(s) - 1 /\ n \in 1..Len(s) - 1 /\ m < n /\ t[m] = a /\ t[n] = b
    BY <1>1, <2>1, <2>2
  <2>4. QED
    BY <1>1, <2>3 DEF Ahead
<1>4. QED
  BY <1>2, <1>3 DEF t

\* Nobody is before the first.
LEMMA FirstIsAhead ==
  ASSUME NEW S, NEW s \in Seq(S), IsInjective(s), s # <<>>, NEW a
  PROVE  ~Ahead(s, a, s[1])
<1>1. DOMAIN s = 1..Len(s) /\ Len(s) \in Nat /\ 1 \in 1..Len(s)
  BY LenProperties, BehindTheFirst
<1>2. \A j \in 1..Len(s) : s[j] = s[1] => j = 1
  BY <1>1 DEF IsInjective
<1>3. QED
  BY <1>1, <1>2 DEF Ahead
===============================================================================
