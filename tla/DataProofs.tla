----------------------------- MODULE DataProofs -----------------------------
(***************************************************************************)
(* Lemmas about values, for the modules that prove something of a system:  *)
(* the least and the greatest element of a set of naturals, as Min and Max *)
(* of FiniteSetsExt (the loops of the code stop at one or the other); the  *)
(* words that str_split_whitespace_pop takes off a text of StrText, one    *)
(* after the other; and the operators of MapTable: E is the set of entries *)
(* that the module's table may hold, and every operation keeps the table   *)
(* well formed with entries from E.                                        *)
(***************************************************************************)
EXTENDS StrText, MapTable, FiniteSetTheorems, SequenceTheorems, TLAPS

-----------------------------------------------------------------------------
\* A non-empty set of naturals has a least element, so Min returns it.  The
\* intervals 0..y, ordered by strict inclusion, are well founded.
LEMMA MinNat ==
  ASSUME NEW S \in SUBSET Nat, S # {}
  PROVE  Min(S) \in S /\ \A y \in S : Min(S) =< y
<1> DEFINE T == {0 .. y : y \in S}
<1>1. T \subseteq FiniteSubsetsOf(Nat)
  <2>1. \A y \in S : IsFiniteSet(0 .. y)
    BY FS_Interval
  <2> QED BY <2>1 DEF FiniteSubsetsOf
<1>2. T # {}
  OBVIOUS
<1>3. PICK t \in T : \A u \in T : ~ (<<u, t>> \in StrictSubsetOrdering(Nat))
  <2> HIDE DEF T
  <2> QED BY <1>1, <1>2, WFMin, FS_StrictSubsetOrderingWellFounded
<1>4. PICK x \in S : t = 0 .. x
  OBVIOUS
<1>5. \A y \in S : x =< y
  <2> SUFFICES ASSUME NEW y \in S, y < x PROVE FALSE
    OBVIOUS
  <2>1. (0 .. y) \subseteq (0 .. x) /\ x \in 0 .. x /\ x \notin 0 .. y
    OBVIOUS
  <2>2. (0 .. y) # (0 .. x)
    BY <2>1
  <2>3. (0 .. y) \in SUBSET Nat /\ (0 .. x) \in SUBSET Nat
    OBVIOUS
  <2>4. <<0 .. y, 0 .. x>> \in StrictSubsetOrdering(Nat)
    BY <2>1, <2>2, <2>3 DEF StrictSubsetOrdering
  <2> QED BY <2>4, <1>3, <1>4
<1> QED BY <1>5 DEF Min

\* A non-empty set of naturals bounded by n has a greatest element.
LEMMA MaxBounded ==
  ASSUME NEW n \in Nat, NEW S \in SUBSET (0 .. n), S # {}
  PROVE  Max(S) \in S /\ \A y \in S : y =< Max(S)
<1> DEFINE T == {d \in 0 .. n : n - d \in S}
<1>1. T \in SUBSET Nat /\ T # {}
  <2> PICK s \in S : TRUE
    OBVIOUS
  <2>1. n - s \in T
    OBVIOUS
  <2> QED BY <2>1
<1>2. Min(T) \in T /\ \A y \in T : Min(T) =< y
  <2> HIDE DEF T
  <2> QED BY <1>1, MinNat
<1>3. Min(T) \in Nat /\ n - Min(T) \in S
  BY <1>2
<1>4. \A y \in S : n - Min(T) >= y
   <2> TAKE y \in S
   <2>1. n - y \in T
     OBVIOUS
   <2>2. Min(T) =< n - y
     BY <2>1, <1>2
   <2> QED BY <2>2, <1>3
<1> HIDE DEF T
<1>5. \E x \in S : \A y \in S : x >= y
  BY <1>3, <1>4
<1>6. Max(S) \in S /\ \A y \in S : Max(S) >= y
  BY <1>5 DEF Max
<1> QED BY <1>6

-----------------------------------------------------------------------------
\* The scans of StrText: a scan stops in the text, behind characters of its
\* kind, and in front of one of the other kind or at the end.
LEMMA ScanEnds ==
  ASSUME NEW C, NEW text \in Seq(C), NEW k \in 0 .. Len(text)
  PROVE  /\ ScanWhile(text, k, Space) \in k .. Len(text)
         /\ \A q \in k + 1 .. ScanWhile(text, k, Space) : text[q] \in Space
         /\ \/ ScanWhile(text, k, Space) = Len(text)
            \/ text[ScanWhile(text, k, Space) + 1] \notin Space
         /\ ScanWord(text, k) \in k .. Len(text)
         /\ \A q \in k + 1 .. ScanWord(text, k) : text[q] \notin Space
         /\ ScanWord(text, k) = Len(text) \/ text[ScanWord(text, k) + 1] \in Space
<1> DEFINE S == {q \in k .. Len(text) : q = Len(text) \/ text[q + 1] \notin Space}
           W == {q \in k .. Len(text) : q = Len(text) \/ text[q + 1] \in Space}
<1>1. Len(text) \in Nat /\ k \in Nat /\ k <= Len(text)
  OBVIOUS
<1>2. S \in SUBSET Nat /\ S # {} /\ W \in SUBSET Nat /\ W # {}
  BY <1>1
<1>3. Min(S) \in S /\ \A q \in S : Min(S) <= q
  <2> HIDE DEF S
  <2> QED BY <1>2, MinNat
<1>4. Min(W) \in W /\ \A q \in W : Min(W) <= q
  <2> HIDE DEF W
  <2> QED BY <1>2, MinNat
<1>5. ASSUME NEW q \in k + 1 .. Min(S) PROVE text[q] \in Space
  <2>1. Min(S) \in k .. Len(text)
    BY <1>3
  <2>2. q - 1 \in k .. Len(text) /\ q - 1 < Min(S) /\ (q - 1) + 1 = q
    BY <1>1, <2>1
  <2>3. q - 1 \notin S
    BY <1>1, <1>3, <2>1, <2>2
  <2> QED BY <2>2, <2>3
<1>6. ASSUME NEW q \in k + 1 .. Min(W) PROVE text[q] \notin Space
  <2>1. Min(W) \in k .. Len(text)
    BY <1>4
  <2>2. q - 1 \in k .. Len(text) /\ q - 1 < Min(W) /\ (q - 1) + 1 = q
    BY <1>1, <2>1
  <2>3. q - 1 \notin W
    BY <1>1, <1>4, <2>1, <2>2
  <2> QED BY <2>2, <2>3
<1> QED BY <1>3, <1>4, <1>5, <1>6 DEF ScanWhile, ScanWord

\* A part of a part of a text, counted from the text's front.
LEMMA PartOfPart ==
  ASSUME NEW C, NEW text \in Seq(C), NEW d \in Nat, NEW n \in Nat, d <= n, n <= Len(text),
         NEW a \in Nat, NEW b \in Nat, a <= b, b <= n - d
  PROVE  SubSeq(SubSeq(text, d + 1, n), a + 1, b) = SubSeq(text, (d + a) + 1, d + b)
<1> DEFINE line == SubSeq(text, d + 1, n)
           u == SubSeq(line, a + 1, b)
           v == SubSeq(text, (d + a) + 1, d + b)
<1>1. line \in Seq(C) /\ Len(line) = n - d /\ \A k \in 1 .. n - d : line[k] = text[d + k]
  OBVIOUS
<1> HIDE DEF line
<1>2. u \in Seq(C) /\ Len(u) = b - a /\ \A k \in 1 .. b - a : u[k] = line[a + k]
  BY <1>1
<1>3. v \in Seq(C) /\ Len(v) = b - a /\ \A k \in 1 .. b - a : v[k] = text[(d + a) + k]
  OBVIOUS
<1>4. \A k \in 1 .. b - a : line[a + k] = text[(d + a) + k]
  <2> TAKE k \in 1 .. b - a
  <2>1. a + k \in 1 .. n - d /\ d + (a + k) = (d + a) + k
    OBVIOUS
  <2> QED BY <1>1, <2>1
<1> HIDE DEF u, v
<1>5. Len(u) = Len(v) /\ \A k \in 1 .. Len(u) : u[k] = v[k]
  BY <1>2, <1>3, <1>4
<1>6. u = v
  BY <1>2, <1>3, <1>5
<1> QED BY <1>6 DEF u, v, line

\* A part of a text and the character behind it.
LEMMA PartAndNext ==
  ASSUME NEW C, NEW text \in Seq(C), NEW d \in Nat, NEW n \in Nat, d <= n, n < Len(text)
  PROVE  Append(SubSeq(text, d + 1, n), text[n + 1]) = SubSeq(text, d + 1, n + 1)
<1> DEFINE part == SubSeq(text, d + 1, n)
           u == Append(part, text[n + 1])
           v == SubSeq(text, d + 1, n + 1)
<1>1. part \in Seq(C) /\ Len(part) = n - d /\ \A k \in 1 .. n - d : part[k] = text[d + k]
  OBVIOUS
<1> HIDE DEF part
<1>2. text[n + 1] \in C
  OBVIOUS
<1>3. /\ u \in Seq(C) /\ Len(u) = (n - d) + 1
      /\ \A k \in 1 .. n - d : u[k] = part[k]
      /\ u[(n - d) + 1] = text[n + 1]
  BY <1>1, <1>2
<1>4. v \in Seq(C) /\ Len(v) = (n - d) + 1 /\ \A k \in 1 .. (n - d) + 1 : v[k] = text[d + k]
  OBVIOUS
<1>5. d + ((n - d) + 1) = n + 1
  OBVIOUS
<1> HIDE DEF u, v
<1>6. Len(u) = Len(v) /\ \A k \in 1 .. Len(u) : u[k] = v[k]
  <2> SUFFICES ASSUME NEW k \in 1 .. (n - d) + 1 PROVE u[k] = text[d + k]
    BY <1>3, <1>4
  <2>1. CASE k \in 1 .. n - d
    BY <1>1, <1>3, <2>1
  <2>2. CASE k = (n - d) + 1
    BY <1>3, <1>5, <2>2
  <2> QED BY <2>1, <2>2
<1>7. u = v
  BY <1>3, <1>4, <1>6
<1> QED BY <1>7 DEF u, v, part

\* The words of a text that end by its n-th character.
WordsWithin(text, n) == {w \in WordPlaces(text) : w[2] <= n}

LEMMA WordsFinite ==
  ASSUME NEW C, NEW text \in Seq(C), NEW n
  PROVE  /\ IsFiniteSet(WordPlaces(text)) /\ IsFiniteSet(WordsWithin(text, n))
         /\ WordsWithin(text, 0) = {} /\ WordsWithin(text, Len(text)) = WordPlaces(text)
<1>1. WordPlaces(text) \subseteq (1 .. Len(text)) \X (1 .. Len(text))
  BY DEF WordPlaces
<1>2. IsFiniteSet((1 .. Len(text)) \X (1 .. Len(text)))
  <2>1. IsFiniteSet(1 .. Len(text))
    BY FS_Interval
  <2> QED BY <2>1, FS_Product
<1>3. \A w \in WordPlaces(text) : w[2] \in 1 .. Len(text)
  BY <1>1
<1> QED BY <1>1, <1>2, <1>3, FS_Subset DEF WordsWithin

\* Behind the words up to d, space up to a and then no space up to b is the next
\* word, and space up to e behind it is in no word.
LEMMA NextWord ==
  ASSUME NEW C, NEW text \in Seq(C), NEW d \in Nat, NEW a \in Nat, NEW b \in Nat, NEW e \in Nat,
         d <= a, a <= b, b <= e, e <= Len(text),
         d = 0 \/ text[d] \in Space,
         \A q \in d + 1 .. a : text[q] \in Space,
         \A q \in a + 1 .. b : text[q] \notin Space,
         b = Len(text) \/ text[b + 1] \in Space,
         \A q \in b + 1 .. e : text[q] \in Space
  PROVE  /\ a < b => <<a + 1, b>> \in WordPlaces(text)
         /\ WordsWithin(text, e) = WordsWithin(text, d) \cup (IF a < b THEN {<<a + 1, b>>} ELSE {})
<1>1. ASSUME a < b PROVE <<a + 1, b>> \in WordPlaces(text)
  <2>1. a + 1 = 1 \/ text[(a + 1) - 1] \in Space
    <3>1. CASE d < a
      <4>1. a \in d + 1 .. a /\ (a + 1) - 1 = a
        BY <3>1
      <4> QED BY <4>1
    <3>2. CASE d = a
      <4>1. (a + 1) - 1 = a
        OBVIOUS
      <4> QED BY <3>2, <4>1
    <3> QED BY <3>1, <3>2
  <2>2. a + 1 \in 1 .. Len(text) /\ b \in 1 .. Len(text) /\ a + 1 <= b
    BY <1>1
  <2> QED BY <2>1, <2>2 DEF WordPlaces
<1>2. ASSUME NEW w \in WordPlaces(text), w[2] <= e, ~(w[2] <= d)
      PROVE  a < b /\ w = <<a + 1, b>>
  <2>1. /\ w = <<w[1], w[2]>> /\ w[1] \in 1 .. Len(text) /\ w[2] \in 1 .. Len(text)
        /\ w[1] <= w[2]
        /\ \A k \in w[1] .. w[2] : text[k] \notin Space
        /\ w[1] = 1 \/ text[w[1] - 1] \in Space
        /\ w[2] = Len(text) \/ text[w[2] + 1] \in Space
    BY DEF WordPlaces
  <2>2. PICK x \in 1 .. Len(text), y \in 1 .. Len(text) : x = w[1] /\ y = w[2]
    BY <2>1
  <2>3. /\ x <= y /\ y <= e /\ d < y
        /\ \A k \in x .. y : text[k] \notin Space
        /\ x = 1 \/ text[x - 1] \in Space
        /\ y = Len(text) \/ text[y + 1] \in Space
    BY <1>2, <2>1, <2>2
  <2>4. y \in a + 1 .. b
    <3>1. y \in x .. y
      BY <2>3
    <3>2. y \notin d + 1 .. a /\ y \notin b + 1 .. e
      BY <2>3, <3>1
    <3> QED BY <2>3, <3>2
  <2>5. y = b
    <3> SUFFICES ASSUME y < b PROVE FALSE
      BY <2>4
    <3>1. y + 1 \in a + 1 .. b /\ y # Len(text)
      BY <2>4
    <3> QED BY <2>3, <3>1
  <2>6. ~(x > a + 1)
    <3> SUFFICES ASSUME x > a + 1 PROVE FALSE
      OBVIOUS
    <3>1. x - 1 \in a + 1 .. b /\ x # 1
      BY <2>3, <2>5
    <3> QED BY <2>3, <3>1
  <2>7. ~(x < a + 1)
    <3> SUFFICES ASSUME x < a + 1 PROVE FALSE
      OBVIOUS
    <3>1. a \in x .. y /\ a # 0
      BY <2>4
    <3>2. text[a] \notin Space
      BY <2>3, <3>1
    <3>3. a \notin d + 1 .. a /\ a # d
      BY <3>1, <3>2
    <3> QED BY <3>3
  <2>8. x = a + 1
    BY <2>6, <2>7
  <2> QED BY <2>1, <2>2, <2>4, <2>5, <2>8
<1>3. ASSUME NEW w \in WordsWithin(text, d) PROVE w \in WordsWithin(text, e)
  <2>1. w[2] \in Nat /\ w[2] <= d
    BY DEF WordsWithin, WordPlaces
  <2> QED BY <2>1 DEF WordsWithin
<1>4. a < b => <<a + 1, b>> \in WordsWithin(text, e)
  BY <1>1 DEF WordsWithin
<1> QED BY <1>1, <1>2, <1>3, <1>4 DEF WordsWithin

\* str_split_whitespace_pop of the part of a text from d + 1 to n, which is not
\* in the middle of a word on either side, takes the next word, if there is one.
PopsWord(text, d, n, a, b, e) ==
  /\ d <= a /\ a <= b /\ b <= e /\ e <= n
  /\ str_split_whitespace_pop(SubSeq(text, d + 1, n)) =
       Popped(SubSeq(text, a + 1, b), IF e = n THEN NoStr ELSE SubSeq(text, e + 1, n))
  /\ e # n => text[e] \in Space
  /\ a < b => <<a + 1, b>> \in WordPlaces(text)
  /\ WordsWithin(text, e) =
       WordsWithin(text, d) \cup (IF a < b THEN {<<a + 1, b>>} ELSE {})

LEMMA PopTakesWord ==
  ASSUME NEW C, NEW text \in Seq(C), NEW d \in Nat, NEW n \in Nat, d <= n, n <= Len(text),
         d = 0 \/ text[d] \in Space,
         n = Len(text) \/ text[n + 1] \in Space
  PROVE  \E a \in Nat, b \in Nat, e \in Nat : PopsWord(text, d, n, a, b, e)
<1> DEFINE line == SubSeq(text, d + 1, n)
           start == ScanWhile(line, 0, Space)
           pos == ScanWord(line, start)
           next == ScanWhile(line, pos, Space)
           a == d + start
           b == d + pos
           e == d + next
<1>1. line \in Seq(C) /\ Len(line) = n - d /\ \A k \in 1 .. n - d : line[k] = text[d + k]
  OBVIOUS
<1> HIDE DEF line
<1>2. start \in 0 .. n - d /\ \A q \in 1 .. start : line[q] \in Space
  <2>1. 0 \in 0 .. Len(line)
    BY <1>1
  <2>2. start \in 0 .. Len(line) /\ \A q \in 0 + 1 .. start : line[q] \in Space
    BY <1>1, <2>1, ScanEnds, Zenon
  <2> HIDE DEF start
  <2>3. start \in 0 .. n - d
    BY <1>1, <2>2
  <2>4. \A q \in 1 .. start : line[q] \in Space
    <3>1. 0 + 1 = 1
      OBVIOUS
    <3> QED BY <2>2, <3>1
  <2> QED BY <2>3, <2>4
<1> HIDE DEF start
<1>3. /\ pos \in start .. n - d /\ \A q \in start + 1 .. pos : line[q] \notin Space
      /\ pos = n - d \/ line[pos + 1] \in Space
  <2>1. start \in 0 .. Len(line)
    BY <1>1, <1>2
  <2> QED BY <1>1, <2>1, ScanEnds
<1> HIDE DEF pos
<1>4. /\ next \in pos .. n - d /\ \A q \in pos + 1 .. next : line[q] \in Space
      /\ next = n - d \/ line[next + 1] \notin Space
  <2>1. pos \in 0 .. Len(line)
    BY <1>1, <1>2, <1>3
  <2> QED BY <1>1, <2>1, ScanEnds
<1> HIDE DEF next
<1>5. /\ start \in Nat /\ pos \in Nat /\ next \in Nat
      /\ start <= pos /\ pos <= next /\ next <= n - d
      /\ a \in Nat /\ b \in Nat /\ e \in Nat
      /\ d <= a /\ a <= b /\ b <= e /\ e <= n /\ (e = n <=> next = n - d)
  BY <1>2, <1>3, <1>4
<1>6. str_split_whitespace_pop(line) =
        Popped(SubSeq(line, start + 1, pos),
               IF next = Len(line) THEN NoStr ELSE SubSeq(line, next + 1, Len(line)))
  BY DEF str_split_whitespace_pop, start, pos, next
<1>7. SubSeq(line, start + 1, pos) = SubSeq(text, a + 1, b)
  BY <1>5, PartOfPart DEF line
<1>8. SubSeq(line, next + 1, Len(line)) = SubSeq(text, e + 1, n)
  <2>1. d + (n - d) = n /\ n - d \in Nat /\ n - d <= n - d
    OBVIOUS
  <2>2. SubSeq(SubSeq(text, d + 1, n), next + 1, n - d) = SubSeq(text, (d + next) + 1, d + (n - d))
    BY <1>5, <2>1, PartOfPart
  <2> QED BY <1>1, <2>1, <2>2 DEF line
<1>9. \A q \in d + 1 .. a : text[q] \in Space
  <2> TAKE q \in d + 1 .. a
  <2>1. q - d \in 1 .. start /\ q - d \in 1 .. n - d /\ d + (q - d) = q
    BY <1>5
  <2> QED BY <1>1, <1>2, <2>1
<1>10. \A q \in a + 1 .. b : text[q] \notin Space
  <2> TAKE q \in a + 1 .. b
  <2>1. q - d \in start + 1 .. pos /\ q - d \in 1 .. n - d /\ d + (q - d) = q
    BY <1>5
  <2> QED BY <1>1, <1>3, <2>1
<1>11. \A q \in b + 1 .. e : text[q] \in Space
  <2> TAKE q \in b + 1 .. e
  <2>1. q - d \in pos + 1 .. next /\ q - d \in 1 .. n - d /\ d + (q - d) = q
    BY <1>5
  <2> QED BY <1>1, <1>4, <2>1
<1>12. b = Len(text) \/ text[b + 1] \in Space
  <2>1. CASE pos = n - d
    BY <1>5, <2>1
  <2>2. CASE pos # n - d
    <3>1. pos + 1 \in 1 .. n - d /\ d + (pos + 1) = b + 1
      BY <1>5, <2>2
    <3> QED BY <1>1, <1>3, <2>2, <3>1
  <2> QED BY <2>1, <2>2
<1>13. e # n => text[e] \in Space
  <2> SUFFICES ASSUME e # n PROVE text[e] \in Space
    OBVIOUS
  <2>1. next # n - d /\ line[next + 1] \notin Space
    BY <1>4, <1>5
  <2>2. pos # next
    BY <1>3, <1>5, <2>1
  <2>3. e \in b + 1 .. e
    BY <1>5, <2>2
  <2> QED BY <1>11, <2>3
<1>14. e <= Len(text)
  BY <1>5
<1>15. /\ a < b => <<a + 1, b>> \in WordPlaces(text)
       /\ WordsWithin(text, e) = WordsWithin(text, d) \cup (IF a < b THEN {<<a + 1, b>>} ELSE {})
  <2> HIDE DEF a, b, e
  <2>1. /\ a \in Nat /\ b \in Nat /\ e \in Nat
        /\ d <= a /\ a <= b /\ b <= e
    BY <1>5
  <2>2. \A A, B, E \in Nat :
          /\ d <= A /\ A <= B /\ B <= E /\ E <= Len(text)
          /\ \A q \in d + 1 .. A : text[q] \in Space
          /\ \A q \in A + 1 .. B : text[q] \notin Space
          /\ B = Len(text) \/ text[B + 1] \in Space
          /\ \A q \in B + 1 .. E : text[q] \in Space
          => /\ A < B => <<A + 1, B>> \in WordPlaces(text)
             /\ WordsWithin(text, E) =
                  WordsWithin(text, d) \cup (IF A < B THEN {<<A + 1, B>>} ELSE {})
    BY NextWord, ZenonT(40)
  <2> QED BY <2>1, <2>2, <1>9, <1>10, <1>11, <1>12, <1>14
<1>16. str_split_whitespace_pop(line) =
         Popped(SubSeq(text, a + 1, b), IF e = n THEN NoStr ELSE SubSeq(text, e + 1, n))
  BY <1>1, <1>5, <1>6, <1>7, <1>8
<1> HIDE DEF a, b, e
<1>17. PopsWord(text, d, n, a, b, e)
  BY <1>5, <1>13, <1>15, <1>16 DEF line, PopsWord
<1> QED BY <1>5, <1>17

-----------------------------------------------------------------------------
\* Probing from any slot stays in the table and reaches every slot.
LEMMA ProbeInTable ==
  ASSUME NEW n \in Nat \ {0}, NEW start \in 0 .. n - 1, NEW d \in 0 .. n - 1
  PROVE  Probe(n, start, d) \in 0 .. n - 1
BY DEF Probe

LEMMA ProbeReaches ==
  ASSUME NEW n \in Nat \ {0}, NEW start \in 0 .. n - 1, NEW p \in 0 .. n - 1
  PROVE  \E d \in 0 .. n - 1 : Probe(n, start, d) = p
<1>1. CASE p >= start
  <2>1. p - start \in 0 .. n - 1 /\ Probe(n, start, p - start) = p
    BY <1>1 DEF Probe
  <2> QED BY <2>1
<1>2. CASE p < start
  <2>1. p - start + n \in 0 .. n - 1 /\ Probe(n, start, p - start + n) = p
    BY <1>2 DEF Probe
  <2> QED BY <2>1
<1> QED BY <1>1, <1>2

-----------------------------------------------------------------------------
\* The entries a table may hold: an empty one, and what a stray write leaves.
TableEntries(E) ==
  /\ EmptyEntry \in E
  /\ \A e \in E : e.key_hash \in Nat
  /\ \A s \in StrayWords :
       /\ [key_hash |-> s, value_handle |-> Junk] \in E
       /\ \A e \in E : [key_hash |-> e.key_hash, value_handle |-> Junk] \in E

TableOK(m, E) ==
  /\ m = [entry_count |-> m.entry_count, table_size |-> m.table_size,
          entries |-> m.entries]
  /\ m.table_size \in Nat \ {0}
  /\ m.entry_count \in Nat
  /\ m.entries \in [Slots(m) -> E]

\* At most half of the slots hold an entry, and entry_count covers them.
HalfFull(m) == 2 * Cardinality(Occupied(m)) <= m.table_size

TableInv(m, E) ==
  /\ TableOK(m, E)
  /\ Cardinality(Occupied(m)) <= m.entry_count
  /\ HalfFull(m)

\* Every entry of w was one of m, and no two of them the same one.
EntriesFrom(w, m) ==
  \E f \in Injection(Occupied(w), Occupied(m)) :
    \A p \in Occupied(w) : w.entries[p] = m.entries[f[p]]

LEMMA OccupiedFinite ==
  ASSUME NEW m, m.table_size \in Nat
  PROVE  /\ IsFiniteSet(Slots(m)) /\ Cardinality(Slots(m)) = m.table_size
         /\ IsFiniteSet(Occupied(m)) /\ Cardinality(Occupied(m)) \in Nat
<1>1. IsFiniteSet(Slots(m)) /\ Cardinality(Slots(m)) = m.table_size
  <2>1. m.table_size - 1 \in Int /\ 0 \in Int
    OBVIOUS
  <2>2. /\ IsFiniteSet(0 .. m.table_size - 1)
        /\ Cardinality(0 .. m.table_size - 1) =
             IF 0 > m.table_size - 1 THEN 0 ELSE m.table_size - 1 - 0 + 1
    <3> DEFINE k == m.table_size - 1
    <3> HIDE DEF k
    <3>1. k \in Int
      BY <2>1 DEF k
    <3> QED BY <3>1, <2>1, FS_Interval, Zenon DEF k
  <2> QED BY <2>2 DEF Slots
<1>2. Occupied(m) \in SUBSET Slots(m)
  BY DEF Occupied
<1>3. IsFiniteSet(Occupied(m))
  BY <1>1, <1>2, FS_Subset
<1> QED BY <1>1, <1>3, FS_CardinalityType

\* A table that is at most half full has a free slot.
LEMMA FreeSlot ==
  ASSUME NEW m, m.table_size \in Nat \ {0}, HalfFull(m)
  PROVE  \E p \in Slots(m) : m.entries[p].key_hash = 0
<1> SUFFICES ASSUME \A p \in Slots(m) : m.entries[p].key_hash # 0
             PROVE  FALSE
  OBVIOUS
<1>1. Occupied(m) = Slots(m)
  BY DEF Occupied
<1>2. Cardinality(Occupied(m)) = m.table_size
  BY <1>1, OccupiedFinite
<1> QED BY <1>2 DEF HalfFull

\* find_entry_pos returns a slot that holds the key or is free.
LEMMA FindEntryPos ==
  ASSUME NEW m, m.table_size \in Nat \ {0}, HalfFull(m), NEW kh \in Nat
  PROVE  /\ find_entry_pos(m, kh) \in Slots(m)
         /\ m.entries[find_entry_pos(m, kh)].key_hash \in {kh, 0}
<1> DEFINE n == m.table_size
           start == kh % n
<1>1. start \in 0 .. n - 1
  OBVIOUS
<1>2. PICK p \in Slots(m) : m.entries[p].key_hash = 0
  BY FreeSlot
<1>3. PICK d \in 0 .. n - 1 : Probe(n, start, d) = p
  <2>1. p \in 0 .. n - 1 /\ n \in Nat \ {0}
    BY DEF Slots
  <2> HIDE DEF start, n
  <2> QED BY <1>1, <2>1, ProbeReaches
<1>4. d \in Stops(m, kh)
  BY <1>2, <1>3 DEF Stops, Slots
<1>5. Stops(m, kh) \in SUBSET Nat
  BY DEF Stops, Slots
<1>6. Min(Stops(m, kh)) \in Stops(m, kh)
  BY <1>4, <1>5, MinNat
<1>7. /\ Min(Stops(m, kh)) \in 0 .. n - 1
      /\ m.entries[Probe(n, start, Min(Stops(m, kh)))].key_hash \in {kh, 0}
  BY <1>6 DEF Stops, Slots
<1>8. Probe(n, start, Min(Stops(m, kh))) \in Slots(m)
  <2> HIDE DEF start
  <2> QED BY <1>1, <1>7, ProbeInTable DEF Slots
<1> QED BY <1>4, <1>7, <1>8 DEF find_entry_pos

-----------------------------------------------------------------------------
\* Adding at most one occupied slot, or none.
LEMMA OccupiedGrowsByOne ==
  ASSUME NEW m, NEW m2, NEW q,
         m.table_size \in Nat, m2.table_size \in Nat,
         Occupied(m2) \subseteq Occupied(m) \cup {q}
  PROVE  Cardinality(Occupied(m2)) <= Cardinality(Occupied(m)) + 1
<1>1. IsFiniteSet(Occupied(m)) /\ Cardinality(Occupied(m)) \in Nat
  BY OccupiedFinite
<1>2. /\ IsFiniteSet(Occupied(m) \cup {q})
      /\ Cardinality(Occupied(m) \cup {q}) <= Cardinality(Occupied(m)) + 1
  BY <1>1, FS_AddElement
<1>3. /\ Cardinality(Occupied(m2)) <= Cardinality(Occupied(m) \cup {q})
      /\ Cardinality(Occupied(m2)) \in Nat
  BY <1>2, FS_Subset, OccupiedFinite
<1>4. Cardinality(Occupied(m) \cup {q}) \in Nat
  BY <1>2, FS_CardinalityType
<1> QED BY <1>1, <1>2, <1>3, <1>4

LEMMA OccupiedShrinks ==
  ASSUME NEW m, NEW m2, m.table_size \in Nat,
         Occupied(m2) \subseteq Occupied(m)
  PROVE  Cardinality(Occupied(m2)) <= Cardinality(Occupied(m))
<1>1. IsFiniteSet(Occupied(m))
  BY OccupiedFinite
<1> QED BY <1>1, FS_Subset

\* Raising entry_count touches neither the table nor its occupied slots.
LEMMA CountedEntry ==
  ASSUME NEW E, NEW m, TableOK(m, E)
  PROVE  LET c == Counted(m)
         IN /\ TableOK(c, E) /\ c.entry_count = m.entry_count + 1
            /\ c.table_size = m.table_size /\ c.entries = m.entries
            /\ Occupied(c) = Occupied(m) /\ Slots(c) = Slots(m)
<1> DEFINE c == Counted(m)
<1>1. /\ c = [entry_count |-> m.entry_count + 1, table_size |-> m.table_size,
              entries |-> m.entries]
      /\ m.entry_count \in Nat
  BY DEF TableOK, Counted
<1> QED BY <1>1 DEF TableOK, Occupied, Slots

\* Writing an entry into one slot.
LEMMA StoredEntry ==
  ASSUME NEW E, NEW m, TableOK(m, E), NEW pos \in Slots(m), NEW kh, NEW v,
         [key_hash |-> kh, value_handle |-> v] \in E
  PROVE  LET w == Stored(m, pos, kh, v)
         IN /\ TableOK(w, E) /\ w.entry_count = m.entry_count
            /\ w.table_size = m.table_size
            /\ Occupied(w) \subseteq Occupied(m) \cup {pos}
<1> DEFINE w == Stored(m, pos, kh, v)
           e == [key_hash |-> kh, value_handle |-> v]
<1>1. w = [entry_count |-> m.entry_count, table_size |-> m.table_size,
           entries |-> [m.entries EXCEPT ![pos] = e]]
  BY DEF TableOK, Stored
<1>3. [m.entries EXCEPT ![pos] = e] \in [Slots(m) -> E]
  BY DEF TableOK
<1>4. TableOK(w, E)
  BY <1>1, <1>3 DEF TableOK, Slots
<1>5. Occupied(w) \subseteq Occupied(m) \cup {pos}
  BY <1>1 DEF TableOK, Occupied, Slots
<1> QED BY <1>1, <1>4, <1>5

\* Emptying the slot of an entry takes it from both the slots and the count.
LEMMA EmptiedEntry ==
  ASSUME NEW E, TableEntries(E), NEW m, TableOK(m, E),
         Cardinality(Occupied(m)) <= m.entry_count,
         NEW pos \in Occupied(m)
  PROVE  LET w == Emptied(m, pos)
         IN /\ TableOK(w, E) /\ w.entry_count = m.entry_count - 1
            /\ w.table_size = m.table_size
            /\ Cardinality(Occupied(w)) = Cardinality(Occupied(m)) - 1
<1> DEFINE w == Emptied(m, pos)
<1>1. w = [entry_count |-> m.entry_count - 1, table_size |-> m.table_size,
           entries |-> [m.entries EXCEPT ![pos] = EmptyEntry]]
  BY DEF Emptied
<1>2. Occupied(w) = Occupied(m) \ {pos}
  BY <1>1 DEF TableOK, Occupied, Slots, EmptyEntry
<1>3. /\ Cardinality(Occupied(w)) = Cardinality(Occupied(m)) - 1
      /\ Cardinality(Occupied(w)) \in Nat /\ Cardinality(Occupied(m)) \in Nat
  <2>1. m.table_size \in Nat /\ w.table_size \in Nat
    BY <1>1 DEF TableOK
  <2>2. /\ IsFiniteSet(Occupied(m)) /\ Cardinality(Occupied(m)) \in Nat
        /\ Cardinality(Occupied(w)) \in Nat
    BY <2>1, OccupiedFinite
  <2> QED BY <1>2, <2>2, FS_RemoveElement
<1>4. m.entry_count - 1 \in Nat
  BY <1>3 DEF TableOK
<1>5. [m.entries EXCEPT ![pos] = EmptyEntry] \in [Slots(m) -> E]
  BY DEF TableOK, TableEntries
<1>6. TableOK(w, E)
  BY <1>1, <1>4, <1>5 DEF TableOK, Slots
<1> QED BY <1>1, <1>3, <1>6

-----------------------------------------------------------------------------
\* A rehash keeps entry_count and can only lose entries: each entry of the new
\* table is the last of the old entries whose hash names its slot.
LEMMA Resized ==
  ASSUME NEW E, TableEntries(E), NEW m, TableOK(m, E),
         NEW is_grow \in BOOLEAN, is_grow \/ m.table_size > 1
  PROVE  LET r == resize_entries_table(m, is_grow)
         IN /\ TableOK(r, E) /\ r.entry_count = m.entry_count
            /\ r.table_size = IF is_grow THEN 2 * m.table_size
                                         ELSE m.table_size \div 2
            /\ Cardinality(Occupied(r)) <= Cardinality(Occupied(m))
            /\ EntriesFrom(r, m)
<1> DEFINE n == IF is_grow THEN 2 * m.table_size ELSE m.table_size \div 2
           Sources(p) == {i \in Occupied(m) : m.entries[i].key_hash % n = p}
           r == resize_entries_table(m, is_grow)
           f == [p \in Occupied(r) |-> Max(Sources(p))]
<1>1. n \in Nat \ {0}
  BY DEF TableOK
<1>2. r = [entry_count |-> m.entry_count, table_size |-> n,
           entries |-> [p \in 0 .. n - 1 |->
                          IF Sources(p) = {} THEN EmptyEntry
                                             ELSE m.entries[Max(Sources(p))]]]
  BY DEF resize_entries_table
<1>3. ASSUME NEW p, Sources(p) # {}
      PROVE  /\ Max(Sources(p)) \in Sources(p)
             /\ Max(Sources(p)) \in Occupied(m)
             /\ m.entries[Max(Sources(p))].key_hash % n = p
  <2>1. Sources(p) \in SUBSET (0 .. m.table_size) /\ m.table_size \in Nat
    BY DEF TableOK, Occupied, Slots
  <2>2. Max(Sources(p)) \in Sources(p)
    <3> HIDE DEF Sources
    <3> QED BY <1>3, <2>1, MaxBounded
  <2> QED BY <2>2
<1> HIDE DEF n, Sources
<1>4. r.entries \in [0 .. n - 1 -> E]
  <2>1. EmptyEntry \in E
    BY DEF TableEntries
  <2>2. \A i \in Occupied(m) : m.entries[i] \in E
    BY DEF TableOK, Occupied
  <2> QED BY <1>2, <1>3, <2>1, <2>2
<1>5. TableOK(r, E)
  BY <1>1, <1>2, <1>4 DEF TableOK, Slots
<1>6. \A p \in Occupied(r) : Sources(p) # {}
  BY <1>2 DEF Occupied, Slots, EmptyEntry
<1>7. f \in Injection(Occupied(r), Occupied(m))
  <2>1. f \in [Occupied(r) -> Occupied(m)]
    BY <1>3, <1>6
  <2>2. ASSUME NEW p \in Occupied(r), NEW q \in Occupied(r), f[p] = f[q]
        PROVE  p = q
    BY <1>3, <1>6, <2>2
  <2> QED BY <2>1, <2>2 DEF Injection, IsInjective
<1>8. Cardinality(Occupied(r)) <= Cardinality(Occupied(m))
  <2>1. IsFiniteSet(Occupied(m))
    BY OccupiedFinite DEF TableOK
  <2> QED BY <1>7, <2>1, FS_Injection
<1>9. EntriesFrom(r, m)
  <2>1. ASSUME NEW p \in Occupied(r)
        PROVE  r.entries[p] = m.entries[f[p]]
    <3>1. p \in 0 .. n - 1
      BY <1>2 DEF Occupied, Slots
    <3> QED BY <1>2, <1>6, <3>1
  <2> HIDE DEF f
  <2> QED BY <1>7, <2>1 DEF EntriesFrom
<1> QED BY <1>2, <1>5, <1>8, <1>9 DEF n

\* A stray write marks at most one more slot as occupied.
LEMMA StrayWrite ==
  ASSUME NEW E, TableEntries(E), NEW m, TableOK(m, E), NEW pos \in Int, NEW old_size \in Int,
         NEW w \in StaleWrites(m, pos, old_size)
  PROVE  /\ TableOK(w, E) /\ w.entry_count = m.entry_count
         /\ w.table_size = m.table_size
         /\ \E q : Occupied(w) \subseteq Occupied(m) \cup {q}
<1>1. CASE w = m
  BY <1>1
<1>2. ASSUME NEW q \in Slots(m), NEW s \in StrayWords, w = Overwritten(m, q, s)
      PROVE  /\ TableOK(w, E) /\ w.entry_count = m.entry_count
             /\ w.table_size = m.table_size
             /\ Occupied(w) \subseteq Occupied(m) \cup {q}
  <2> DEFINE es == [p \in Slots(m) |->
                      CASE p = q     -> [key_hash |-> s, value_handle |-> Junk]
                        [] p = q - 1 -> [key_hash |-> m.entries[p].key_hash,
                                         value_handle |-> Junk]
                        [] OTHER     -> m.entries[p]]
  <2>1. w = [entry_count |-> m.entry_count, table_size |-> m.table_size,
             entries |-> es]
    BY <1>2 DEF Overwritten, TableOK
  <2>3. \A p \in Slots(m) : /\ es[p] \in E
                            /\ p # q => es[p].key_hash = m.entries[p].key_hash
    <3> TAKE p \in Slots(m)
    <3>1. m.entries[p] \in E /\ p \in Int /\ q \in Int
      BY DEF TableOK, Slots
    <3>2. CASE p = q
      <4>1. es[p] = [key_hash |-> s, value_handle |-> Junk]
        BY <3>1, <3>2
      <4> QED BY <3>2, <4>1 DEF TableEntries
    <3>3. CASE p # q /\ p = q - 1
      BY <3>1, <3>3 DEF TableEntries
    <3>4. CASE p # q /\ p # q - 1
      BY <3>1, <3>4
    <3> QED BY <3>2, <3>3, <3>4
  <2>4. DOMAIN es = Slots(m)
    OBVIOUS
  <2>5. es \in [Slots(m) -> E]
    BY <2>3
  <2> HIDE DEF es
  <2>6. TableOK(w, E)
    BY <2>1, <2>5 DEF TableOK, Slots
  <2> QED BY <2>1, <2>3, <2>6 DEF Occupied, Slots
<1> QED BY <1>1, <1>2 DEF StaleWrites

-----------------------------------------------------------------------------
ResizeType == {"no", "grew", "shrank", "failed"}

\* Every outcome of do_set keeps the invariant.
LEMMA SetKeepsTable ==
  ASSUME NEW E, TableEntries(E), NEW m, TableInv(m, E),
         NEW kh \in Nat, NEW v, [key_hash |-> kh, value_handle |-> v] \in E,
         NEW can_alloc \in BOOLEAN, NEW o \in do_set(m, kh, v, can_alloc)
  PROVE  /\ TableInv(o.map, E) /\ o.ret \in BOOLEAN /\ o.resize \in ResizeType
         /\ o.map.entry_count <= m.entry_count + 1
<1> DEFINE pos == find_entry_pos(m, kh)
           fresh == IsFree(m, pos)
           c == Counted(m)
           grows == fresh /\ NeedsGrowth(c)
           r == resize_entries_table(c, TRUE)
<1> DEFINE occ == Cardinality(Occupied(m))
<1>1. /\ TableOK(m, E) /\ m.table_size \in Nat \ {0} /\ m.entry_count \in Nat
      /\ occ \in Nat /\ occ <= m.entry_count /\ 2 * occ <= m.table_size
  BY OccupiedFinite DEF TableInv, TableOK, HalfFull
<1>2. pos \in Slots(m) /\ m.entries[pos].key_hash \in {kh, 0}
  BY FindEntryPos DEF TableInv, TableOK
<1>3. /\ TableOK(c, E) /\ c.entry_count = m.entry_count + 1
      /\ c.table_size = m.table_size /\ c.entries = m.entries
      /\ Occupied(c) = Occupied(m) /\ Slots(c) = Slots(m)
  BY <1>1, CountedEntry
<1>4. CASE ~fresh
  <2>1. o = Outcome(Stored(m, pos, kh, v), TRUE, "no")
    BY <1>4 DEF do_set
  <2>2. pos \in Occupied(m)
    BY <1>2, <1>4 DEF Occupied, IsFree
  <2>3. /\ TableOK(o.map, E) /\ o.map.entry_count = m.entry_count
        /\ o.map.table_size = m.table_size
        /\ Occupied(o.map) \subseteq Occupied(m)
    BY <1>1, <1>2, <2>1, <2>2, StoredEntry DEF Outcome
  <2>4. Cardinality(Occupied(o.map)) <= occ /\ Cardinality(Occupied(o.map)) \in Nat
    BY <1>1, <2>3, OccupiedShrinks, OccupiedFinite
  <2> HIDE DEF pos, occ
  <2>5. TableInv(o.map, E)
    BY <1>1, <2>3, <2>4 DEF TableInv, HalfFull
  <2> QED BY <1>1, <2>1, <2>3, <2>5 DEF Outcome, ResizeType
<1>5. CASE fresh /\ ~grows
  <2>1. o = Outcome(Stored(c, pos, kh, v), TRUE, "no")
    BY <1>5 DEF do_set
  <2>2. /\ TableOK(o.map, E) /\ o.map.entry_count = m.entry_count + 1
        /\ o.map.table_size = m.table_size
        /\ Occupied(o.map) \subseteq Occupied(m) \cup {pos}
    <3>1. o.map = Stored(c, pos, kh, v) /\ pos \in Slots(c)
      BY <1>2, <1>3, <2>1 DEF Outcome
    <3> HIDE DEF c, pos
    <3> QED BY <1>3, <3>1, StoredEntry
  <2>3. Cardinality(Occupied(o.map)) <= occ + 1 /\ Cardinality(Occupied(o.map)) \in Nat
    BY <1>1, <2>2, OccupiedGrowsByOne, OccupiedFinite
  <2>4. m.entry_count + 1 <= m.table_size \div 2
    BY <1>1, <1>3, <1>5 DEF NeedsGrowth
  <2> HIDE DEF pos, occ
  <2>5. TableInv(o.map, E)
    BY <1>1, <2>2, <2>3, <2>4 DEF TableInv, HalfFull
  <2> QED BY <1>1, <2>1, <2>2, <2>5 DEF Outcome, ResizeType
<1>6. CASE grows /\ ~can_alloc
  <2>1. o = Outcome(c, FALSE, "failed")
    BY <1>6 DEF do_set
  <2> HIDE DEF pos
  <2>2. TableInv(c, E)
    BY <1>1, <1>3 DEF TableInv, HalfFull
  <2> HIDE DEF c
  <2> QED BY <1>1, <1>3, <2>1, <2>2 DEF Outcome, ResizeType
<1>7. CASE grows /\ can_alloc
  <2>1. PICK w \in StaleWrites(r, find_entry_pos(r, kh), m.table_size) :
          o = Outcome(w, TRUE, "grew")
    BY <1>7 DEF do_set
  <2>2. /\ TableOK(r, E) /\ r.entry_count = m.entry_count + 1
        /\ r.table_size = 2 * m.table_size
        /\ Cardinality(Occupied(r)) <= occ /\ Cardinality(Occupied(r)) \in Nat
    <3> HIDE DEF c
    <3>1. /\ TableOK(r, E) /\ r.entry_count = m.entry_count + 1
          /\ r.table_size = 2 * m.table_size /\ Cardinality(Occupied(r)) <= occ
      BY <1>3, Resized
    <3> HIDE DEF r
    <3> QED BY <1>1, <3>1, OccupiedFinite
  <2> HIDE DEF r, occ
  <2>3. HalfFull(r) /\ r.table_size \in Nat \ {0}
    BY <1>1, <2>2 DEF HalfFull
  <2>4. find_entry_pos(r, kh) \in Int
    BY <2>3, FindEntryPos DEF Slots
  <2>5. /\ TableOK(w, E) /\ w.entry_count = m.entry_count + 1
        /\ w.table_size = 2 * m.table_size
        /\ \E q : Occupied(w) \subseteq Occupied(r) \cup {q}
    BY <1>1, <2>1, <2>2, <2>4, StrayWrite
  <2>6. /\ Cardinality(Occupied(w)) <= Cardinality(Occupied(r)) + 1
        /\ Cardinality(Occupied(w)) \in Nat
    BY <2>2, <2>5, OccupiedGrowsByOne, OccupiedFinite DEF TableOK
  <2>7. TableInv(w, E)
    BY <1>1, <2>2, <2>5, <2>6 DEF TableInv, HalfFull
  <2> QED BY <1>1, <2>1, <2>5, <2>7 DEF Outcome, ResizeType
<1> QED BY <1>4, <1>5, <1>6, <1>7

\* Every outcome of do_delete keeps the invariant.
LEMMA DeleteKeepsTable ==
  ASSUME NEW E, TableEntries(E), NEW m, TableInv(m, E),
         NEW kh \in Nat, NEW can_alloc \in BOOLEAN,
         NEW o \in do_delete(m, kh, can_alloc)
  PROVE  /\ TableInv(o.map, E) /\ o.ret \in BOOLEAN /\ o.resize \in ResizeType
         /\ o.map.entry_count <= m.entry_count
<1> DEFINE pos == find_entry_pos(m, kh)
           e == Emptied(m, pos)
           occ == Cardinality(Occupied(m))
           shrinks == NeedsShrink(e)
<1>1. /\ TableOK(m, E) /\ m.table_size \in Nat \ {0} /\ m.entry_count \in Nat
      /\ occ \in Nat /\ occ <= m.entry_count /\ 2 * occ <= m.table_size
  BY OccupiedFinite DEF TableInv, TableOK, HalfFull
<1>2. pos \in Slots(m)
  BY FindEntryPos DEF TableInv, TableOK
<1>3. CASE m.entries[pos].key_hash = 0
  <2>1. o = Outcome(m, FALSE, "no")
    BY <1>3 DEF do_delete, IsFree
  <2> QED BY <1>1, <2>1 DEF Outcome, ResizeType
<1>4. CASE m.entries[pos].key_hash # 0
  <2>1. pos \in Occupied(m)
    BY <1>2, <1>4 DEF Occupied
  <2>2. /\ TableOK(e, E) /\ e.entry_count = m.entry_count - 1
        /\ e.table_size = m.table_size
        /\ Cardinality(Occupied(e)) = occ - 1
    BY <1>1, <2>1, EmptiedEntry
  <2>3. TableInv(e, E)
    <3> HIDE DEF e, pos, occ
    <3> QED BY <1>1, <2>2 DEF TableInv, HalfFull
  <2>4. CASE ~shrinks \/ ~can_alloc
    <3>1. o = Outcome(e, TRUE, "no") \/ o = Outcome(e, FALSE, "failed")
      <4> HIDE DEF e
      <4> QED BY <1>4, <2>4 DEF do_delete, IsFree, e
    <3>2. o.map = e /\ o.ret \in BOOLEAN /\ o.resize \in ResizeType
      <4>1. CASE o = Outcome(e, TRUE, "no")
        BY <4>1 DEF Outcome, ResizeType
      <4>2. CASE o = Outcome(e, FALSE, "failed")
        BY <4>2 DEF Outcome, ResizeType
      <4> QED BY <3>1, <4>1, <4>2
    <3> HIDE DEF e
    <3> QED BY <1>1, <2>2, <2>3, <3>2
  <2>5. CASE shrinks /\ can_alloc
    <3> DEFINE r == resize_entries_table(e, FALSE)
    <3>1. o = Outcome(r, TRUE, "shrank")
      BY <1>4, <2>5 DEF do_delete, IsFree
    <3>2. e.table_size > 1
      BY <1>1, <2>2, <2>5, MapTableAssumption DEF NeedsShrink
    <3>3. /\ TableOK(r, E) /\ r.entry_count = m.entry_count - 1
          /\ r.table_size = m.table_size \div 2
          /\ Cardinality(Occupied(r)) <= occ - 1 /\ Cardinality(Occupied(r)) \in Nat
      <4> HIDE DEF e
      <4>1. /\ TableOK(r, E) /\ r.entry_count = m.entry_count - 1
            /\ r.table_size = m.table_size \div 2 /\ Cardinality(Occupied(r)) <= occ - 1
        BY <2>2, <3>2, Resized
      <4>2. r.table_size \in Nat
        BY <4>1 DEF TableOK
      <4> QED BY <4>1, <4>2, OccupiedFinite
    <3> HIDE DEF r, occ
    <3>4. TableInv(r, E)
      BY <1>1, <2>2, <2>5, <3>3 DEF TableInv, HalfFull, NeedsShrink
    <3> QED BY <1>1, <3>1, <3>3, <3>4 DEF Outcome, ResizeType
  <2> QED BY <2>4, <2>5
<1> QED BY <1>3, <1>4

-----------------------------------------------------------------------------
\* The slot at the least distance where a probe would stop is the one found.
LEMMA FoundAt ==
  ASSUME NEW m, NEW kh, NEW d \in Stops(m, kh), \A e \in Stops(m, kh) : d <= e,
         m.table_size \in Nat
  PROVE  find_entry_pos(m, kh) = Probe(m.table_size, kh % m.table_size, d)
<1>1. Stops(m, kh) \in SUBSET Nat
  BY DEF Stops, Slots
<1>2. Min(Stops(m, kh)) \in Stops(m, kh) /\ Min(Stops(m, kh)) <= d
  BY <1>1, MinNat
<1>3. Min(Stops(m, kh)) = d
  BY <1>1, <1>2
<1> QED BY <1>3 DEF find_entry_pos

\* What is found is at the least distance.
LEMMA FoundFirst ==
  ASSUME NEW m, NEW kh, m.table_size \in Nat, find_entry_pos(m, kh) \in Slots(m)
  PROVE  \E d \in Stops(m, kh) :
           /\ find_entry_pos(m, kh) = Probe(m.table_size, kh % m.table_size, d)
           /\ \A e \in Stops(m, kh) : d <= e
<1>1. Stops(m, kh) \in SUBSET Nat /\ Stops(m, kh) # {}
  <2>1. Slots(m) \in SUBSET Nat /\ -1 \notin Slots(m)
    BY DEF Slots
  <2>2. Stops(m, kh) \subseteq Slots(m)
    BY DEF Stops
  <2>3. Stops(m, kh) # {}
    BY <2>1 DEF find_entry_pos
  <2> QED BY <2>1, <2>2, <2>3
<1>2. /\ Min(Stops(m, kh)) \in Stops(m, kh)
      /\ \A e \in Stops(m, kh) : Min(Stops(m, kh)) <= e
  BY <1>1, MinNat
<1> QED BY <1>1, <1>2 DEF find_entry_pos

\* A change of the table that adds no place to stop leaves the probe where it
\* was, if it may still stop there.
LEMMA ProbeKept ==
  ASSUME NEW m, NEW w, m.table_size \in Nat \ {0}, w.table_size = m.table_size, NEW kh \in Nat,
         find_entry_pos(m, kh) \in Slots(m),
         w.entries[find_entry_pos(m, kh)].key_hash \in {kh, 0},
         \A q \in Slots(m) :
           w.entries[q].key_hash \in {kh, 0} => m.entries[q].key_hash \in {kh, 0}
  PROVE  find_entry_pos(w, kh) = find_entry_pos(m, kh)
<1> DEFINE n == m.table_size
           start == kh % n
<1>1. PICK d \in Stops(m, kh) :
        /\ find_entry_pos(m, kh) = Probe(n, start, d)
        /\ \A e \in Stops(m, kh) : d <= e
  BY FoundFirst
<1>2. d \in Stops(w, kh)
  BY <1>1 DEF Stops, Slots
<1>3. Stops(w, kh) \subseteq Stops(m, kh)
  <2> SUFFICES ASSUME NEW e \in Stops(w, kh) PROVE e \in Stops(m, kh)
    OBVIOUS
  <2>1. e \in 0 .. n - 1 /\ w.entries[Probe(n, start, e)].key_hash \in {kh, 0}
    BY DEF Stops, Slots
  <2>2. Probe(n, start, e) \in Slots(m)
    <3>1. start \in 0 .. n - 1 /\ n \in Nat \ {0}
      BY DEF Slots
    <3> HIDE DEF start, n
    <3>2. Probe(n, start, e) \in 0 .. n - 1
      BY <2>1, <3>1, ProbeInTable
    <3> QED BY <3>2 DEF Slots, n
  <2> QED BY <2>1, <2>2 DEF Stops, Slots
<1> QED BY <1>1, <1>2, <1>3, FoundAt

\* Emptying a slot in front of a free one takes no other entry out of reach.
LEMMA EmptiedKeepsFound ==
  ASSUME NEW m, m.table_size \in Nat \ {0}, NEW pos \in Slots(m), NEW w,
         w.table_size = m.table_size,
         \A q \in Slots(m) : q # pos => w.entries[q] = m.entries[q],
         m.entries[Probe(m.table_size, pos, 1)].key_hash = 0,
         NEW kh \in Nat, NEW p \in Occupied(m), p # pos, find_entry_pos(m, kh) = p
  PROVE  find_entry_pos(w, kh) = p
<1> DEFINE n == m.table_size
           start == kh % n
<1>1. p \in Slots(m) /\ m.entries[p].key_hash # 0 /\ start \in 0 .. n - 1 /\ n \in Nat \ {0}
  BY DEF Occupied
<1>2. PICK d \in Stops(m, kh) :
        p = Probe(n, start, d) /\ \A e \in Stops(m, kh) : d <= e
  BY <1>1, FoundFirst
<1>3. d \in 0 .. n - 1 /\ m.entries[p].key_hash \in {kh, 0}
  BY <1>2 DEF Stops, Slots
<1>4. d \in Stops(w, kh)
  BY <1>1, <1>2, <1>3 DEF Stops, Slots
<1>5. ASSUME NEW e \in Stops(w, kh), e < d
      PROVE  FALSE
  <2>1. e \in 0 .. n - 1 /\ w.entries[Probe(n, start, e)].key_hash \in {kh, 0}
    BY DEF Stops, Slots
  <2> HIDE DEF start
  <2>2. Probe(n, start, e) \in Slots(m)
    BY <1>1, <2>1, ProbeInTable DEF Slots
  <2>3. CASE Probe(n, start, e) # pos
    <3>1. m.entries[Probe(n, start, e)].key_hash \in {kh, 0}
      BY <2>1, <2>2, <2>3
    <3>2. e \in Stops(m, kh)
      BY <2>1, <3>1 DEF Stops, Slots, start
    <3> QED BY <1>2, <1>3, <1>5, <2>1, <3>2
  <2>4. CASE Probe(n, start, e) = pos
    <3>1. e + 1 \in 0 .. n - 1 /\ Probe(n, start, e + 1) = Probe(n, pos, 1)
      BY <1>1, <1>3, <1>5, <2>1, <2>4 DEF Probe
    <3>2. e + 1 \in Stops(m, kh)
      BY <3>1 DEF Stops, Slots, start
    <3>3. d = e + 1
      BY <1>2, <1>3, <1>5, <2>1, <3>2
    <3> QED BY <1>1, <1>2, <3>1, <3>3
  <2> QED BY <2>3, <2>4
<1>6. \A e \in Stops(w, kh) : d <= e
  BY <1>3, <1>5 DEF Stops, Slots
<1> QED BY <1>2, <1>4, <1>6, FoundAt

-----------------------------------------------------------------------------
\* An iterator is done, or at the first slot behind the last one whose value is
\* usable.
AtSlot(m, i) ==
  /\ i = [pos |-> i.pos, value_handle |-> i.value_handle]
  /\ i.pos \in Slots(m) /\ i.value_handle = m.entries[i.pos].value_handle

LEMMA NextIter ==
  ASSUME NEW m, m.table_size \in Nat, NEW j, NEW S
  PROVE  LET i == map_next_value_iter(m, j, S)
         IN \/ /\ i = DoneIter
               /\ \A p \in Slots(m) : p > j.pos => m.entries[p].value_handle \notin S
            \/ /\ AtSlot(m, i) /\ i.pos > j.pos /\ i.value_handle \in S
               /\ \A p \in Slots(m) : p > j.pos /\ m.entries[p].value_handle \in S => i.pos <= p
<1> DEFINE i == map_next_value_iter(m, j, S)
           ahead == {p \in Slots(m) : p > j.pos /\ m.entries[p].value_handle \in S}
<1>1. CASE ahead = {}
  BY <1>1 DEF map_next_value_iter
<1>2. CASE ahead # {}
  <2>1. ahead \in SUBSET Nat
    BY DEF Slots
  <2>2. Min(ahead) \in ahead /\ \A p \in ahead : Min(ahead) <= p
    <3> HIDE DEF ahead
    <3> QED BY <1>2, <2>1, MinNat
  <2>3. i = [pos |-> Min(ahead), value_handle |-> m.entries[Min(ahead)].value_handle]
    BY <1>2 DEF map_next_value_iter
  <2>4. /\ Min(ahead) \in Slots(m) /\ Min(ahead) > j.pos
        /\ m.entries[Min(ahead)].value_handle \in S
    BY <2>2
  <2>5. \A p \in Slots(m) : p > j.pos /\ m.entries[p].value_handle \in S => Min(ahead) <= p
    BY <2>2
  <2> HIDE DEF ahead, i
  <2>6. AtSlot(m, i) /\ i.pos = Min(ahead) /\ i.value_handle = m.entries[Min(ahead)].value_handle
    BY <2>3, <2>4 DEF AtSlot
  <2>7. /\ AtSlot(m, i) /\ i.pos > j.pos /\ i.value_handle \in S
        /\ \A p \in Slots(m) : p > j.pos /\ m.entries[p].value_handle \in S => i.pos <= p
    BY <2>4, <2>5, <2>6
  <2> QED BY <2>7 DEF i
<1> QED BY <1>1, <1>2

LEMMA FirstIter ==
  ASSUME NEW m, m.table_size \in Nat \ {0}, NEW S
  PROVE  LET i == map_first_value_iter(m, S)
         IN \/ /\ i = DoneIter
               /\ \A p \in Slots(m) : m.entries[p].value_handle \notin S
            \/ /\ AtSlot(m, i) /\ i.value_handle \in S
               /\ \A p \in Slots(m) : m.entries[p].value_handle \in S => i.pos <= p
<1> DEFINE i == map_first_value_iter(m, S)
           first == [pos |-> 0, value_handle |-> m.entries[0].value_handle]
           next == map_next_value_iter(m, first, S)
<1>1. CASE first.value_handle \in S
  <2>1. i = first /\ 0 \in Slots(m)
    BY <1>1 DEF map_first_value_iter, Slots
  <2>2. AtSlot(m, first) /\ \A p \in Slots(m) : first.pos <= p
    BY <2>1 DEF AtSlot, Slots
  <2> QED BY <1>1, <2>1, <2>2
<1>2. CASE first.value_handle \notin S
  <2>1. i = next
    BY <1>2 DEF map_first_value_iter
  <2>2. \A p \in Slots(m) : p > first.pos \/ m.entries[p].value_handle \notin S
    BY <1>2 DEF Slots
  <2>3. \/ /\ next = DoneIter
           /\ \A p \in Slots(m) : p > first.pos => m.entries[p].value_handle \notin S
        \/ /\ AtSlot(m, next) /\ next.pos > first.pos /\ next.value_handle \in S
           /\ \A p \in Slots(m) : p > first.pos /\ m.entries[p].value_handle \in S => next.pos <= p
    <3> HIDE DEF first
    <3> QED BY NextIter
  <2> HIDE DEF first, next
  <2> QED BY <2>1, <2>2, <2>3
<1> QED BY <1>1, <1>2

\* The iterator of a map delivers values of S, or is done.
LEMMA IterFrom ==
  ASSUME NEW m, m.table_size \in Nat \ {0}, NEW j, NEW S
  PROVE  /\ map_next_value_iter(m, j, S) \in [pos : Nat, value_handle : S \cup {NoHandle}]
         /\ map_first_value_iter(m, S) \in [pos : Nat, value_handle : S \cup {NoHandle}]
<1>1. ASSUME NEW i, i = DoneIter \/ (AtSlot(m, i) /\ i.value_handle \in S)
      PROVE  i \in [pos : Nat, value_handle : S \cup {NoHandle}]
  BY <1>1 DEF DoneIter, AtSlot, Slots
<1>2. \/ map_next_value_iter(m, j, S) = DoneIter
      \/ /\ AtSlot(m, map_next_value_iter(m, j, S))
         /\ map_next_value_iter(m, j, S).value_handle \in S
  BY NextIter
<1>3. \/ map_first_value_iter(m, S) = DoneIter
      \/ /\ AtSlot(m, map_first_value_iter(m, S))
         /\ map_first_value_iter(m, S).value_handle \in S
  BY FirstIter
<1> QED BY <1>1, <1>2, <1>3

-----------------------------------------------------------------------------
\* The empty map is well formed.
LEMMA EmptyTable ==
  ASSUME NEW E, EmptyEntry \in E
  PROVE  /\ TableInv(EmptyMap, E) /\ EmptyMap.entry_count = 0
         /\ \A p \in Slots(EmptyMap) : EmptyMap.entries[p] = EmptyEntry
<1>1. /\ EmptyMap.table_size = INITIAL_TABLE_SIZE /\ EmptyMap.entry_count = 0
      /\ EmptyMap.entries = Cleared(INITIAL_TABLE_SIZE)
      /\ INITIAL_TABLE_SIZE \in Nat \ {0}
  BY MapTableAssumption DEF EmptyMap
<1>2. TableOK(EmptyMap, E)
  BY <1>1 DEF TableOK, EmptyMap, Cleared, Slots
<1>3. \A p \in Slots(EmptyMap) : EmptyMap.entries[p] = EmptyEntry
  BY <1>1 DEF Cleared, Slots
<1>4. Cardinality(Occupied(EmptyMap)) = 0
  BY <1>3, FS_EmptySet DEF Occupied, EmptyEntry
<1> QED BY <1>1, <1>2, <1>3, <1>4 DEF TableInv, HalfFull

-----------------------------------------------------------------------------
(* What a set and a delete do to the entries of the other keys.            *)
HasEntry(m, e) == \E p \in Slots(m) : m.entries[p] = e

\* An entry that a cut has hidden and that has been set again.
HasTwice(m, e) ==
  \E p, q \in Slots(m) : p # q /\ m.entries[p] = e /\ m.entries[q] = e

\* The probe for the key of e finds it.
Reaches(m, e) == m.entries[find_entry_pos(m, e.key_hash)] = e

LEMMA ReachedEntry ==
  ASSUME NEW E, NEW m, TableInv(m, E), NEW e, e.key_hash \in Nat, Reaches(m, e)
  PROVE  HasEntry(m, e)
<1>1. find_entry_pos(m, e.key_hash) \in Slots(m)
  BY FindEntryPos DEF TableInv, TableOK
<1> QED BY <1>1 DEF HasEntry, Reaches

\* A rehash neither makes an entry nor copies one to two slots.
LEMMA RehashHas ==
  ASSUME NEW m, NEW r, EntriesFrom(r, m), NEW e, e.key_hash # 0
  PROVE  /\ HasEntry(r, e) => HasEntry(m, e)
         /\ HasTwice(r, e) => HasTwice(m, e)
<1>1. PICK f \in Injection(Occupied(r), Occupied(m)) :
        \A p \in Occupied(r) : r.entries[p] = m.entries[f[p]]
  BY DEF EntriesFrom
<1>2. /\ \A p \in Occupied(r) : f[p] \in Slots(m)
      /\ \A p, q \in Occupied(r) : f[p] = f[q] => p = q
  BY DEF Injection, IsInjective, Occupied
<1>3. \A p \in Slots(r) : r.entries[p] = e => p \in Occupied(r)
  BY DEF Occupied
<1>4. HasEntry(r, e) => HasEntry(m, e)
  BY <1>1, <1>2, <1>3 DEF HasEntry
<1>5. ASSUME HasTwice(r, e) PROVE HasTwice(m, e)
  <2>1. PICK p \in Slots(r), q \in Slots(r) : p # q /\ r.entries[p] = e /\ r.entries[q] = e
    BY <1>5 DEF HasTwice
  <2>2. p \in Occupied(r) /\ q \in Occupied(r)
    BY <1>3, <2>1
  <2>3. f[p] # f[q] /\ m.entries[f[p]] = e /\ m.entries[f[q]] = e
    BY <1>1, <1>2, <2>1, <2>2
  <2> QED BY <1>2, <2>2, <2>3 DEF HasTwice
<1> QED BY <1>4, <1>5

\* Writing e to the slot pos that the probe for its key has found.
LEMMA WriteReaches ==
  ASSUME NEW E, NEW m, TableInv(m, E), NEW e \in E, e.key_hash \in Nat \ {0},
         NEW w, w.table_size = m.table_size,
         w.entries = [m.entries EXCEPT ![find_entry_pos(m, e.key_hash)] = e],
         NEW f \in E, f.key_hash \in Nat \ {0}, f.key_hash = e.key_hash => f = e
  PROVE  /\ HasEntry(w, f) => HasEntry(m, f) \/ f = e
         /\ HasTwice(w, f) => HasTwice(m, f) \/ (f = e /\ HasEntry(m, e))
         /\ Reaches(m, f) => Reaches(w, f)
         /\ Reaches(w, e)
<1> DEFINE pos == find_entry_pos(m, e.key_hash)
<1>1. /\ m.table_size \in Nat \ {0} /\ HalfFull(m) /\ m.entries \in [Slots(m) -> E]
      /\ pos \in Slots(m) /\ m.entries[pos].key_hash \in {e.key_hash, 0}
      /\ Slots(w) = Slots(m)
  BY FindEntryPos DEF TableInv, TableOK, Slots
<1>2. w.entries[pos] = e /\ \A q \in Slots(m) : q # pos => w.entries[q] = m.entries[q]
  BY <1>1
<1>3. find_entry_pos(w, e.key_hash) = pos
  <2>1. \A q \in Slots(m) :
          w.entries[q].key_hash \in {e.key_hash, 0} => m.entries[q].key_hash \in {e.key_hash, 0}
    BY <1>1, <1>2
  <2>2. w.entries[pos].key_hash \in {e.key_hash, 0}
    BY <1>2
  <2> QED BY <1>1, <2>1, <2>2, ProbeKept
<1>4. ASSUME Reaches(m, f), f # e PROVE Reaches(w, f)
  <2> DEFINE at == find_entry_pos(m, f.key_hash)
  <2>1. at \in Slots(m) /\ m.entries[at] = f /\ at # pos
    BY <1>1, <1>4, FindEntryPos DEF Reaches
  <2>2. \A q \in Slots(m) :
          w.entries[q].key_hash \in {f.key_hash, 0} => m.entries[q].key_hash \in {f.key_hash, 0}
    BY <1>2, <1>4
  <2>3. w.entries[at] = f
    BY <1>2, <2>1
  <2>4. find_entry_pos(w, f.key_hash) = at
    BY <1>1, <2>1, <2>2, <2>3, ProbeKept
  <2> QED BY <2>3, <2>4 DEF Reaches
<1>5. Reaches(w, e)
  BY <1>2, <1>3 DEF Reaches
<1> HIDE DEF pos
<1>6. HasEntry(w, f) => HasEntry(m, f) \/ f = e
  BY <1>1, <1>2 DEF HasEntry
<1>7. HasTwice(w, f) => HasTwice(m, f) \/ (f = e /\ HasEntry(m, e))
  BY <1>1, <1>2 DEF HasTwice, HasEntry
<1> QED BY <1>4, <1>5, <1>6, <1>7

\* A set gives its own key an entry and, unless it resizes the map, leaves the
\* other keys theirs; a resize loses entries but makes none.
LEMMA SetReaches ==
  ASSUME NEW E, TableEntries(E), StrayWords = {}, NEW m, TableInv(m, E),
         NEW kh \in Nat \ {0}, NEW v, NEW e \in E, e = [key_hash |-> kh, value_handle |-> v],
         NEW can_alloc \in BOOLEAN, NEW o \in do_set(m, kh, v, can_alloc),
         NEW f \in E, f.key_hash \in Nat \ {0}, f.key_hash = kh => f = e
  PROVE  /\ HasEntry(o.map, f) => HasEntry(m, f) \/ (o.ret /\ f = e)
         /\ HasTwice(o.map, f) => HasTwice(m, f) \/ (f = e /\ HasEntry(m, e))
         /\ o.resize # "grew" /\ Reaches(m, f) => Reaches(o.map, f)
         /\ o.resize # "grew" /\ o.ret => Reaches(o.map, e)
<1> DEFINE pos == find_entry_pos(m, kh)
           fresh == IsFree(m, pos)
           c == Counted(m)
           grows == fresh /\ NeedsGrowth(c)
           r == resize_entries_table(c, TRUE)
<1>1. TableOK(m, E) /\ e.key_hash = kh
  BY DEF TableInv
<1>2. /\ TableOK(c, E) /\ c.table_size = m.table_size /\ c.entries = m.entries
      /\ Slots(c) = Slots(m) /\ Occupied(c) = Occupied(m)
  BY <1>1, CountedEntry
<1>3. HasEntry(c, f) = HasEntry(m, f) /\ HasTwice(c, f) = HasTwice(m, f)
      /\ Reaches(c, f) = Reaches(m, f)
  <2>1. find_entry_pos(c, f.key_hash) = find_entry_pos(m, f.key_hash)
    BY <1>2 DEF find_entry_pos, Stops
  <2> QED BY <1>2, <2>1 DEF HasEntry, HasTwice, Reaches
<1>4. CASE ~grows
  <2>1. o.ret /\ o.map \in {Stored(m, pos, kh, v), Stored(c, pos, kh, v)}
    <3>1. CASE ~fresh
      <4>1. o = Outcome(Stored(m, pos, kh, v), TRUE, "no")
        BY <3>1 DEF do_set
      <4> QED BY <4>1 DEF Outcome
    <3>2. CASE fresh
      <4>1. o = Outcome(Stored(c, pos, kh, v), TRUE, "no")
        BY <1>4, <3>2 DEF do_set
      <4> QED BY <4>1 DEF Outcome
    <3> QED BY <3>1, <3>2
  <2>2. /\ o.map.table_size = m.table_size
        /\ o.map.entries = [m.entries EXCEPT ![find_entry_pos(m, e.key_hash)] = e]
    <3>1. m = [entry_count |-> m.entry_count, table_size |-> m.table_size, entries |-> m.entries]
      BY <1>1 DEF TableOK
    <3>2. c = [entry_count |-> c.entry_count, table_size |-> m.table_size, entries |-> m.entries]
      BY <1>2 DEF TableOK
    <3> HIDE DEF c
    <3> QED BY <1>1, <2>1, <3>1, <3>2 DEF Stored
  <2> HIDE DEF pos, c
  <2> QED BY <1>1, <2>1, <2>2, WriteReaches
<1>5. CASE grows /\ ~can_alloc
  <2>1. o = Outcome(c, FALSE, "failed")
    BY <1>5 DEF do_set
  <2>2. o.map = c /\ ~o.ret
    BY <2>1 DEF Outcome
  <2> HIDE DEF c
  <2> QED BY <1>3, <2>2
<1>6. CASE grows /\ can_alloc
  <2>1. PICK w \in StaleWrites(r, find_entry_pos(r, kh), m.table_size) :
          o = Outcome(w, TRUE, "grew")
    BY <1>6 DEF do_set
  <2>2. o.map = r /\ o.resize = "grew"
    <3> HIDE DEF r
    <3>1. w = r
      BY DEF StaleWrites
    <3> QED BY <2>1, <3>1 DEF Outcome
  <2>3. EntriesFrom(r, c)
    <3> HIDE DEF c
    <3> QED BY <1>2, Resized
  <2> HIDE DEF r, c
  <2> QED BY <1>3, <2>2, <2>3, RehashHas
<1> QED BY <1>4, <1>5, <1>6

\* A delete takes one entry of its key out and, unless it resizes the map or cuts
\* a chain, leaves the other keys theirs.
LEMMA DeleteReaches ==
  ASSUME NEW E, TableEntries(E), NEW m, TableInv(m, E),
         NEW kh \in Nat, NEW can_alloc \in BOOLEAN, NEW o \in do_delete(m, kh, can_alloc),
         NEW f \in E, f.key_hash \in Nat \ {0},
         \A g \in E : g.key_hash = f.key_hash => g = f
  PROVE  /\ HasEntry(o.map, f) => HasEntry(m, f)
         /\ HasTwice(o.map, f) => HasTwice(m, f)
         /\ f.key_hash = kh /\ (o.ret \/ Reaches(m, f)) /\ HasEntry(o.map, f) => HasTwice(m, f)
         /\ o.resize # "shrank" /\ ~CutsChain(m, kh) /\ f.key_hash # kh /\ Reaches(m, f)
              => Reaches(o.map, f)
<1> DEFINE pos == find_entry_pos(m, kh)
           w == Emptied(m, pos)
           r == resize_entries_table(w, FALSE)
<1>1. /\ TableOK(m, E) /\ m.table_size \in Nat \ {0} /\ HalfFull(m)
      /\ pos \in Slots(m) /\ m.entries[pos].key_hash \in {kh, 0}
      /\ m.entries \in [Slots(m) -> E]
  BY FindEntryPos DEF TableInv, TableOK
<1>2. CASE IsFree(m, pos)
  <2>1. o.map = m /\ ~o.ret
    BY <1>2 DEF do_delete, Outcome
  <2>2. f.key_hash = kh => ~Reaches(m, f)
    BY <1>2 DEF IsFree, Reaches
  <2> QED BY <2>1, <2>2
<1>3. CASE ~IsFree(m, pos)
  <2>1. pos \in Occupied(m) /\ m.entries[pos].key_hash = kh
    BY <1>1, <1>3 DEF IsFree, Occupied
  <2>2. /\ w.table_size = m.table_size /\ w.entries = [m.entries EXCEPT ![pos] = EmptyEntry]
        /\ Slots(w) = Slots(m)
    BY DEF Emptied, Slots
  <2>3. /\ w.entries[pos] = EmptyEntry /\ f # EmptyEntry
        /\ \A q \in Slots(m) : q # pos => w.entries[q] = m.entries[q]
    BY <1>1, <2>2 DEF EmptyEntry
  <2>4. TableOK(w, E)
    BY <1>1, <2>1, EmptiedEntry DEF TableInv
  <2>5. /\ HasEntry(w, f) => HasEntry(m, f)
        /\ HasTwice(w, f) => HasTwice(m, f)
        /\ f.key_hash = kh /\ HasEntry(w, f) => HasTwice(m, f)
    <3> HIDE DEF w
    <3>1. f.key_hash = kh => m.entries[pos] = f
      BY <1>1, <2>1
    <3> HIDE DEF pos
    <3> QED BY <1>1, <2>2, <2>3, <3>1 DEF HasEntry, HasTwice
  <2>6. ASSUME ~CutsChain(m, kh), f.key_hash # kh, Reaches(m, f)
        PROVE  Reaches(w, f)
    <3> DEFINE at == find_entry_pos(m, f.key_hash)
    <3>1. at \in Occupied(m) /\ at # pos /\ m.entries[at] = f
      BY <1>1, <2>1, <2>6, FindEntryPos DEF Reaches, Occupied
    <3>2. m.entries[Probe(m.table_size, pos, 1)].key_hash = 0
      BY <1>3, <2>6 DEF CutsChain, IsFree
    <3> HIDE DEF w, pos
    <3>3. find_entry_pos(w, f.key_hash) = at
      BY <1>1, <2>2, <2>3, <3>1, <3>2, EmptiedKeepsFound
    <3>4. w.entries[at] = f
      BY <2>3, <3>1 DEF Occupied
    <3> QED BY <3>3, <3>4 DEF Reaches
  <2>7. CASE o.map = w
    BY <2>5, <2>6, <2>7
  <2>8. CASE o.map # w
    <3>1. o = Outcome(r, TRUE, "shrank") /\ NeedsShrink(w)
      <4>1. ASSUME o = Outcome(w, TRUE, "no") \/ o = Outcome(w, FALSE, "failed") PROVE FALSE
        <5> HIDE DEF w
        <5> QED BY <2>8, <4>1 DEF Outcome
      <4> QED BY <1>3, <4>1 DEF do_delete
    <3>4. o.map = r /\ o.resize = "shrank"
      <4> HIDE DEF r
      <4> QED BY <3>1 DEF Outcome
    <3>2. w.table_size > 1
      BY <2>4, <3>1, MapTableAssumption DEF NeedsShrink, TableOK
    <3> HIDE DEF w
    <3>3. EntriesFrom(r, w)
      BY <2>4, <3>2, Resized
    <3> HIDE DEF r
    <3> QED BY <2>5, <3>3, <3>4, RehashHas
  <2> QED BY <2>7, <2>8
<1> QED BY <1>2, <1>3
=============================================================================
