------------------------------ MODULE StrProofs ------------------------------
(***************************************************************************)
(* Proofs about module Str for every alphabet, every set of strs and every *)
(* buffer: what the loops of str_find and str_compare return, and that the *)
(* loop around str_split_pop takes a text apart without loss.              *)
(***************************************************************************)
EXTENDS Str, DataProofs

\* The types of the variables, without those of the words loop.
Types ==
  /\ call \in {"find", "compare", "split", "words", "cstr"} /\ done \in BOOLEAN
  /\ first \in Seq(Char) \cup {NoStr} /\ second \in Seq(Char) \cup {NoStr}
  /\ i \in Nat /\ j \in Nat
  /\ rest \in Seq(Char) \cup {NoStr} /\ taken \in Seq(Char)

\* Between two rounds of str_find, no start before i is an occurrence and the
\* first j characters at i match.
FindInv ==
  call = "find" /\ ~done /\ BothValid /\ Len(first) >= Len(second) =>
    /\ i <= Len(first) - Len(second) + 1 /\ j <= Len(second)
    /\ \A p \in 0 .. i - 1 : ~OccursAt(first, second, p)
    /\ i <= Len(first) - Len(second) => \A k \in 1 .. j : first[i + k] = second[k]

\* Between two rounds of str_compare, the first i characters are equal.
CompareInv ==
  call = "compare" /\ BothValid =>
    /\ i <= Len(first) /\ i <= Len(second)
    /\ \A k \in 1 .. i : first[k] = second[k]

Inv == Types /\ FindInv /\ FindOutcome /\ CompareInv /\ CompareOutcome
       /\ JoinsBack /\ PartsHaveNoDelim

-----------------------------------------------------------------------------
\* The verdict is decided at the length n of a common prefix that cannot be
\* extended.
LEMMA PrecedesAtPrefix ==
  ASSUME NEW a \in Seq(Char), NEW b \in Seq(Char), Char \subseteq Int,
         NEW n \in 0 .. Len(a), n <= Len(b),
         \A k \in 1 .. n : a[k] = b[k],
         n = Len(a) \/ n = Len(b) \/ a[n + 1] # b[n + 1]
  PROVE  Precedes(a, b) <=> n < Len(b) /\ (n = Len(a) \/ a[n + 1] < b[n + 1])
<1>1. ASSUME n < Len(b), n = Len(a) \/ a[n + 1] < b[n + 1]
      PROVE  Precedes(a, b)
  BY <1>1 DEF Precedes
<1>2. ASSUME Precedes(a, b)
      PROVE  n < Len(b) /\ (n = Len(a) \/ a[n + 1] < b[n + 1])
  <2>1. PICK k \in 0 .. Len(a) : /\ k < Len(b)
                                 /\ \A m \in 1 .. k : a[m] = b[m]
                                 /\ k = Len(a) \/ a[k + 1] < b[k + 1]
    BY <1>2 DEF Precedes
  <2>2. Len(a) \in Nat /\ Len(b) \in Nat
    BY LenProperties
  <2>3. ~ (k < n)
    <3> SUFFICES ASSUME k < n PROVE FALSE
      OBVIOUS
    <3>1. k + 1 \in 1 .. n /\ k # Len(a) /\ k + 1 \in 1 .. Len(a)
      BY <2>2
    <3>2. a[k + 1] = b[k + 1]
      BY <3>1
    <3>4. a[k + 1] \in Char
      BY <3>1, ElementOfSeq
    <3>3. a[k + 1] \in Int /\ a[k + 1] < b[k + 1]
      BY <3>1, <3>4, <2>1
    <3> QED BY <3>2, <3>3
  <2>4. ~ (n < k)
    <3> SUFFICES ASSUME n < k PROVE FALSE
      OBVIOUS
    <3>1. n + 1 \in 1 .. k /\ n # Len(a) /\ n # Len(b)
      BY <2>1, <2>2
    <3> QED BY <3>1, <2>1
  <2>5. k = n
    BY <2>2, <2>3, <2>4
  <2> QED BY <2>1, <2>5
<1> QED BY <1>1, <1>2

\* Strs with the same characters are the same.
LEMMA SameChars ==
  ASSUME NEW a \in Seq(Char), NEW b \in Seq(Char), Len(a) = Len(b),
         \A k \in 1 .. Len(a) : a[k] = b[k]
  PROVE  a = b
BY SeqEqual

\* The three verdicts of str_compare are those of the lexicographic order.
LEMMA VerdictIsOrder ==
  ASSUME Types, CompareInv, call = "compare", BothValid, ~SameSoFar, Char \subseteq Int
  PROVE  /\ Verdict = -1 <=> Precedes(first, second)
         /\ Verdict = 1 <=> Precedes(second, first)
         /\ Verdict = 0 <=> first = second
<1>1. first \in Seq(Char) /\ second \in Seq(Char)
  BY DEF Types, BothValid, str_is_valid
<1>2. Len(first) \in Nat /\ Len(second) \in Nat
  BY <1>1, LenProperties
<1>3. i \in 0 .. Len(first) /\ i \in 0 .. Len(second)
      /\ \A k \in 1 .. i : first[k] = second[k] /\ second[k] = first[k]
  BY <1>2 DEF Types, CompareInv
<1>4. i = Len(first) \/ i = Len(second) \/ first[i + 1] # second[i + 1]
  BY <1>2, <1>3 DEF SameSoFar
<1>5. Precedes(first, second)
        <=> i < Len(second) /\ (i = Len(first) \/ first[i + 1] < second[i + 1])
  BY <1>1, <1>2, <1>3, <1>4, PrecedesAtPrefix
<1>6. Precedes(second, first)
        <=> i < Len(first) /\ (i = Len(second) \/ second[i + 1] < first[i + 1])
  BY <1>1, <1>2, <1>3, <1>4, PrecedesAtPrefix
<1>7. CASE i = Len(first)
  <2>1. CASE Len(first) = Len(second)
    <3>1. first = second
      BY <1>1, <1>3, <1>7, <2>1, SameChars
    <3> QED BY <1>2, <1>5, <1>6, <1>7, <2>1, <3>1 DEF Verdict
  <2>2. CASE Len(first) # Len(second)
    <3>1. first # second
      BY <2>2
    <3> QED BY <1>2, <1>3, <1>5, <1>6, <1>7, <2>2, <3>1 DEF Verdict
  <2> QED BY <2>1, <2>2
<1>8. CASE i # Len(first) /\ i = Len(second)
  <2>1. first # second
    BY <1>8
  <2> QED BY <1>2, <1>3, <1>5, <1>6, <1>8, <2>1 DEF Verdict
<1>9. CASE i # Len(first) /\ i # Len(second)
  <2>1. first[i + 1] \in Char /\ second[i + 1] \in Char
    BY <1>1, <1>2, <1>3, <1>9, ElementOfSeq
  <2>2. first[i + 1] \in Int /\ second[i + 1] \in Int /\ first[i + 1] # second[i + 1]
    BY <1>4, <1>9, <2>1
  <2>3. first # second
    BY <2>2
  <2>4. i < Len(first) /\ i < Len(second)
    BY <1>2, <1>3, <1>9
  <2> QED BY <1>5, <1>6, <1>9, <2>2, <2>3, <2>4 DEF Verdict
<1> QED BY <1>7, <1>8, <1>9

-----------------------------------------------------------------------------
\* A piece of a str is a str.
LEMMA PieceOf ==
  ASSUME NEW t \in Seq(Char), NEW m \in 1 .. Len(t) + 1, NEW n \in m - 1 .. Len(t)
  PROVE  /\ SubSeq(t, m, n) \in Seq(Char)
         /\ Len(SubSeq(t, m, n)) = n - m + 1
         /\ \A k \in 1 .. n - m + 1 : SubSeq(t, m, n)[k] = t[m + k - 1]
<1>1. Len(t) \in Nat
  BY LenProperties
<1>2. \A k \in m .. n : t[k] \in Char
  <2> TAKE k \in m .. n
  <2>1. k \in 1 .. Len(t)
    BY <1>1
  <2> QED BY <2>1, ElementOfSeq
<1>3. m \in Int /\ n \in Int
  BY <1>1
<1> QED BY <1>1, <1>2, <1>3, SubSeqProperties

\* Where str_find finds a substring, it finds the left-most one.
LEMMA FindIsMin ==
  ASSUME NEW t \in Seq(Char), NEW d \in Seq(Char), NoStr \notin Seq(Char)
  PROVE  \/ str_find(t, d) = -1 /\ Occurrences(t, d) = {}
         \/ /\ str_find(t, d) \in Occurrences(t, d) /\ str_find(t, d) # -1
            /\ \A p \in Occurrences(t, d) : str_find(t, d) <= p
<1>1. str_is_valid(t) /\ str_is_valid(d)
  BY DEF str_is_valid
<1>2. Len(t) \in Nat /\ Len(d) \in Nat
  BY LenProperties
<1>3. Occurrences(t, d) \in SUBSET Nat
  BY <1>2 DEF Occurrences
<1>4. CASE Occurrences(t, d) = {}
  BY <1>4 DEF str_find
<1>5. CASE Occurrences(t, d) # {}
  <2>1. str_find(t, d) = Min(Occurrences(t, d))
    BY <1>1, <1>5 DEF str_find
  <2>2. /\ Min(Occurrences(t, d)) \in Occurrences(t, d)
        /\ \A p \in Occurrences(t, d) : Min(Occurrences(t, d)) <= p
    BY <1>3, <1>5, MinNat
  <2> QED BY <1>3, <2>1, <2>2
<1> QED BY <1>4, <1>5

\* A pop takes the text apart at the delimiter, and the part does not contain it.
LEMMA PopTakesApart ==
  ASSUME NEW t \in Seq(Char), NEW d \in Seq(Char), NoStr \notin Seq(Char), NEW old,
         NEW p, p = str_split_pop(t, d, old)
  PROVE  /\ p.part \in Seq(Char) /\ p.rest \in Seq(Char) \cup {NoStr}
         /\ p.rest = NoStr => p.part = t
         /\ p.rest # NoStr => (p.part \o d) \o p.rest = t
         /\ d # <<>> => Occurrences(p.part, d) = {}
<1>1. str_is_valid(t) /\ str_is_valid(d)
  BY DEF str_is_valid
<1>2. Len(t) \in Nat /\ Len(d) \in Nat
  BY LenProperties
<1>3. CASE str_find(t, d) = -1
  <2>1. p = Popped(t, NoStr)
    BY <1>1, <1>3 DEF str_split_pop
  <2>2. Occurrences(t, d) = {}
    BY <1>3, FindIsMin
  <2> QED BY <2>1, <2>2 DEF Popped
<1>4. CASE str_find(t, d) # -1
  <2> DEFINE pos == str_find(t, d)
             a   == SubSeq(t, 1, pos)
             m   == SubSeq(t, pos + 1, pos + Len(d))
             b   == SubSeq(t, pos + Len(d) + 1, Len(t))
  <2>1. pos \in Occurrences(t, d) /\ \A q \in Occurrences(t, d) : pos <= q
    BY <1>4, FindIsMin
  <2>2. pos \in 0 .. Len(t) - Len(d) /\ OccursAt(t, d, pos)
    BY <2>1 DEF Occurrences
  <2> HIDE DEF pos
  <2>3. p = Popped(a, b)
    BY <1>1, <1>4 DEF str_split_pop, Behind, pos
  <2>4. a \in Seq(Char) /\ Len(a) = pos /\ \A k \in 1 .. pos : a[k] = t[k]
    BY <1>2, <2>2, PieceOf
  <2>5. b \in Seq(Char)
    BY <1>2, <2>2, PieceOf
  <2>6. m \in Seq(Char) /\ Len(m) = Len(d) /\ \A k \in 1 .. Len(d) : m[k] = t[pos + k]
    BY <1>2, <2>2, PieceOf
  <2>7. m = d
    <3>1. \A k \in 1 .. Len(m) : m[k] = d[k]
      BY <2>2, <2>6 DEF OccursAt
    <3> HIDE DEF m
    <3> QED BY <3>1, <2>6, SeqEqual
  <2>8. a \o m = SubSeq(t, 1, pos + Len(d))
    <3>1. 1 \in 1 .. Len(t) + 1 /\ pos \in 1 - 1 .. Len(t) /\ pos + Len(d) \in pos .. Len(t)
      BY <1>2, <2>2
    <3> QED BY <3>1, ConcatAdjacentSubSeq
  <2>9. SubSeq(t, 1, pos + Len(d)) \o b = t
    <3>1. /\ 1 \in 1 .. Len(t) + 1 /\ pos + Len(d) \in 1 - 1 .. Len(t)
          /\ Len(t) \in pos + Len(d) .. Len(t)
      BY <1>2, <2>2
    <3>2. SubSeq(t, 1, pos + Len(d)) \o b = SubSeq(t, 1, Len(t))
      BY <3>1, ConcatAdjacentSubSeq
    <3> QED BY <3>2, SubSeqFull
  <2>10. ASSUME d # <<>>, NEW q \in Occurrences(a, d) PROVE FALSE
    <3>1. Len(d) > 0
      BY <2>10, EmptySeq
    <3>2. q \in 0 .. pos - Len(d) /\ OccursAt(a, d, q)
      BY <2>4, <2>10 DEF Occurrences
    <3>3. OccursAt(t, d, q)
      <4> SUFFICES ASSUME NEW k \in 1 .. Len(d) PROVE t[q + k] = d[k]
        BY DEF OccursAt
      <4>1. q + k \in 1 .. pos
        BY <1>2, <2>2, <3>2
      <4>2. a[q + k] = t[q + k]
        BY <4>1, <2>4
      <4> QED BY <3>2, <4>2 DEF OccursAt
    <3>4. q \in Occurrences(t, d)
      BY <1>2, <2>2, <3>2, <3>3 DEF Occurrences
    <3> QED BY <1>2, <2>1, <2>2, <3>1, <3>2, <3>4
  <2>11. NoStr # b
    BY <2>5
  <2> HIDE DEF a, b, m
  <2>12. p.part = a /\ p.rest = b
    BY <2>3 DEF Popped
  <2> QED BY <2>4, <2>5, <2>7, <2>8, <2>9, <2>10, <2>11, <2>12
<1> QED BY <1>3, <1>4

-----------------------------------------------------------------------------
LEMMA InitInv == Init => Inv
<1> SUFFICES ASSUME Init PROVE Inv
  OBVIOUS
<1>1. first \in Seq(Char) \cup {NoStr} /\ second \in Seq(Char) \cup {NoStr}
  BY StrAssumption DEF Init
<1>2. Types
  BY <1>1, EmptySeq DEF Init, Types
<1>3. FindInv
  <2> SUFFICES ASSUME BothValid, Len(first) >= Len(second)
               PROVE  /\ 0 <= Len(first) - Len(second) + 1 /\ 0 <= Len(second)
                      /\ \A p \in 0 .. 0 - 1 : ~OccursAt(first, second, p)
                      /\ \A k \in 1 .. 0 : first[0 + k] = second[k]
    BY DEF Init, FindInv
  <2>1. Len(first) \in Nat /\ Len(second) \in Nat
    BY <1>1, LenProperties DEF BothValid, str_is_valid
  <2> QED BY <2>1
<1>4. CompareInv
  <2> SUFFICES ASSUME BothValid
               PROVE  /\ 0 <= Len(first) /\ 0 <= Len(second)
                      /\ \A k \in 1 .. 0 : first[k] = second[k]
    BY DEF Init, CompareInv
  <2>1. Len(first) \in Nat /\ Len(second) \in Nat
    BY <1>1, LenProperties DEF BothValid, str_is_valid
  <2> QED BY <2>1
<1>5. JoinsBack
  <2> SUFFICES ASSUME str_is_valid(first) PROVE <<>> \o first = first
    BY DEF Init, JoinsBack
  <2> QED BY <1>1, ConcatEmptySeq DEF str_is_valid
<1> QED BY <1>2, <1>3, <1>4, <1>5
        DEF Inv, Init, FindOutcome, CompareOutcome, PartsHaveNoDelim

-----------------------------------------------------------------------------
\* A start before which no occurrence lies, and at which the whole substring
\* matches, is the left-most occurrence; a mismatch rules a start out.
LEMMA FindStep ==
  ASSUME Inv, FindRefuses \/ FindMatch \/ FindFound \/ FindNextStart \/ FindNotFound
  PROVE  Inv'
<1>1. call = "find" /\ ~done /\ Types /\ FindInv
  BY DEF Inv, FindRefuses, FindMatch, FindFound, FindNextStart, FindNotFound, Searching
<1>2. /\ UNCHANGED <<args, client>> /\ i' \in Nat /\ j' \in Nat /\ done' \in BOOLEAN
  <2>1. i \in Nat /\ j \in Nat /\ i + 1 \in Nat /\ j + 1 \in Nat /\ done \in BOOLEAN
    BY <1>1 DEF Types
  <2>2. CASE FindRefuses \/ FindFound \/ FindNotFound
    BY <2>1, <2>2 DEF FindRefuses, FindFound, FindNotFound, Return
  <2>3. CASE FindMatch
    BY <2>1, <2>3 DEF FindMatch
  <2>4. CASE FindNextStart
    BY <2>1, <2>4 DEF FindNextStart
  <2> QED BY <2>2, <2>3, <2>4
<1>3. Types'
  BY <1>1, <1>2 DEF Types, args, client
<1>4. CompareInv' /\ CompareOutcome' /\ JoinsBack' /\ PartsHaveNoDelim'
  BY <1>1, <1>2 DEF args, CompareInv, CompareOutcome, JoinsBack, PartsHaveNoDelim
<1>5. BothValid' <=> BothValid
  BY <1>2 DEF args, BothValid, str_is_valid
<1>6. /\ BothValid => first \in Seq(Char) /\ second \in Seq(Char)
      /\ BothValid => Len(first) \in Nat /\ Len(second) \in Nat
  BY <1>1, LenProperties DEF Types, BothValid, str_is_valid
<1>7. CASE FindRefuses
  <2>1. done' /\ ret' = -1
    BY <1>7 DEF FindRefuses, Return
  <2>2. BothValid => Occurrences(first, second) = {}
    <3> SUFFICES ASSUME BothValid PROVE Occurrences(first, second) = {}
      OBVIOUS
    <3>1. Len(first) < Len(second)
      BY <1>7 DEF FindRefuses
    <3>2. 0 .. Len(first) - Len(second) = {}
      BY <1>6, <3>1
    <3> QED BY <3>2 DEF Occurrences
  <2>3. FindInv' /\ FindOutcome'
    BY <1>2, <1>5, <2>1, <2>2 DEF args, FindInv, FindOutcome
  <2> QED BY <1>3, <1>4, <2>3 DEF Inv
<1>8. CASE FindMatch
  <2>1. /\ BothValid /\ Len(first) >= Len(second) /\ i < Len(first) - Len(second) + 1
        /\ j < Len(second) /\ first[i + j + 1] = second[j + 1]
        /\ j' = j + 1 /\ i' = i /\ done' = done
    BY <1>8 DEF FindMatch, Searching, FindRoom, CharsMatch
  <2>2. /\ i \in Nat /\ j \in Nat /\ Len(first) \in Nat /\ Len(second) \in Nat
        /\ \A p \in 0 .. i - 1 : ~OccursAt(first, second, p)
        /\ \A k \in 1 .. j : first[i + k] = second[k]
    BY <1>1, <1>6, <2>1 DEF FindInv, Types
  <2>3. \A k \in 1 .. j + 1 : first[i + k] = second[k]
    <3> TAKE k \in 1 .. j + 1
    <3>1. CASE k = j + 1
      <4>1. i + k = i + j + 1
        BY <2>2, <3>1
      <4> QED BY <2>1, <3>1, <4>1
    <3>2. CASE k # j + 1
      <4>1. k \in 1 .. j
        BY <2>2, <3>2
      <4> QED BY <2>2, <4>1
    <3> QED BY <3>1, <3>2
  <2>4. FindInv' /\ FindOutcome'
    BY <1>1, <1>2, <1>5, <2>1, <2>2, <2>3 DEF args, FindInv, FindOutcome
  <2> QED BY <1>3, <1>4, <2>4 DEF Inv
<1>9. CASE FindFound
  <2>1. /\ BothValid /\ Len(first) >= Len(second) /\ i < Len(first) - Len(second) + 1
        /\ j = Len(second) /\ done' /\ ret' = i
    BY <1>9 DEF FindFound, Searching, FindRoom, Return
  <2>2. /\ i \in Nat /\ Len(first) \in Nat /\ Len(second) \in Nat
        /\ \A p \in 0 .. i - 1 : ~OccursAt(first, second, p)
        /\ \A k \in 1 .. j : first[i + k] = second[k]
    BY <1>1, <1>6, <2>1 DEF FindInv, Types
  <2>3. i \in Occurrences(first, second)
    BY <2>1, <2>2 DEF Occurrences, OccursAt
  <2>4. \A p \in Occurrences(first, second) : i <= p
    <3> TAKE p \in Occurrences(first, second)
    <3>1. p \in Nat /\ OccursAt(first, second, p)
      BY <2>2 DEF Occurrences
    <3> QED BY <2>2, <3>1
  <2>5. FindInv' /\ FindOutcome'
    BY <1>2, <1>5, <2>1, <2>2, <2>3, <2>4 DEF args, FindInv, FindOutcome
  <2> QED BY <1>3, <1>4, <2>5 DEF Inv
<1>10. CASE FindNextStart
  <2>1. /\ BothValid /\ Len(first) >= Len(second) /\ i < Len(first) - Len(second) + 1
        /\ j < Len(second) /\ first[i + j + 1] # second[j + 1]
        /\ i' = i + 1 /\ j' = 0 /\ done' = done
    BY <1>10 DEF FindNextStart, Searching, FindRoom, CharsMatch
  <2>2. /\ i \in Nat /\ j \in Nat /\ Len(first) \in Nat /\ Len(second) \in Nat
        /\ \A p \in 0 .. i - 1 : ~OccursAt(first, second, p)
    BY <1>1, <1>6, <2>1 DEF FindInv, Types
  <2>3. ~OccursAt(first, second, i)
    <3>1. j + 1 \in 1 .. Len(second) /\ i + (j + 1) = i + j + 1
      BY <2>1, <2>2
    <3> QED BY <2>1, <3>1 DEF OccursAt
  <2>4. \A p \in 0 .. (i + 1) - 1 : ~OccursAt(first, second, p)
    <3> TAKE p \in 0 .. (i + 1) - 1
    <3>1. p = i \/ p \in 0 .. i - 1
      BY <2>2
    <3> QED BY <2>2, <2>3, <3>1
  <2>5. \A k \in 1 .. 0 : first[i + 1 + k] = second[k]
    OBVIOUS
  <2>6. FindInv' /\ FindOutcome'
    BY <1>1, <1>2, <1>5, <2>1, <2>2, <2>4, <2>5 DEF args, FindInv, FindOutcome
  <2> QED BY <1>3, <1>4, <2>6 DEF Inv
<1>11. CASE FindNotFound
  <2>1. /\ BothValid /\ Len(first) >= Len(second) /\ ~(i < Len(first) - Len(second) + 1)
        /\ done' /\ ret' = -1
    BY <1>11 DEF FindNotFound, FindRoom, Return
  <2>2. /\ i \in Nat /\ Len(first) \in Nat /\ Len(second) \in Nat
        /\ \A p \in 0 .. i - 1 : ~OccursAt(first, second, p)
    BY <1>1, <1>6, <2>1 DEF FindInv, Types
  <2>3. Occurrences(first, second) = {}
    <3> SUFFICES ASSUME NEW p \in Occurrences(first, second) PROVE FALSE
      OBVIOUS
    <3>1. p \in 0 .. Len(first) - Len(second) /\ OccursAt(first, second, p)
      BY DEF Occurrences
    <3>2. p \in 0 .. i - 1
      BY <2>1, <2>2, <3>1
    <3> QED BY <2>2, <3>1, <3>2
  <2>4. FindInv' /\ FindOutcome'
    BY <1>2, <1>5, <2>1, <2>3 DEF args, FindInv, FindOutcome
  <2> QED BY <1>3, <1>4, <2>4 DEF Inv
<1> QED BY <1>7, <1>8, <1>9, <1>10, <1>11

-----------------------------------------------------------------------------
\* The common prefix grows by an equal character; where it cannot, the verdict
\* is that of the order.
LEMMA CompareRound ==
  ASSUME Inv, CompareInvalid \/ CompareStep \/ CompareEnd
  PROVE  Inv'
<1>1. call = "compare" /\ Types /\ CompareInv
  BY DEF Inv, CompareInvalid, CompareStep, CompareEnd
<1>2. i \in Nat /\ i + 1 \in Nat /\ j \in Nat /\ done \in BOOLEAN
  BY <1>1 DEF Types
<1>3. /\ UNCHANGED <<args, client>> /\ i' \in Nat /\ j' \in Nat /\ done' \in BOOLEAN
  <2>1. CASE CompareInvalid \/ CompareEnd
    BY <1>2, <2>1 DEF CompareInvalid, CompareEnd, Return
  <2>2. CASE CompareStep
    BY <1>2, <2>2 DEF CompareStep
  <2> QED BY <2>1, <2>2
<1>4. Types'
  BY <1>1, <1>3 DEF Types, args, client
<1>5. FindInv' /\ FindOutcome' /\ JoinsBack' /\ PartsHaveNoDelim'
  BY <1>1, <1>3 DEF args, FindInv, FindOutcome, JoinsBack, PartsHaveNoDelim
<1>6. BothValid' <=> BothValid
  BY <1>3 DEF args, BothValid, str_is_valid
<1>7. CASE CompareInvalid
  <2>1. /\ ~BothValid
        /\ ret' = IF str_is_valid(first) THEN 1 ELSE IF str_is_valid(second) THEN -1 ELSE 0
    BY <1>7 DEF CompareInvalid, Return
  <2>2. /\ ret' = -1 <=> IsLess(first, second)
        /\ ret' = 1 <=> IsLess(second, first)
        /\ ret' = 0 <=> first = second
    BY <2>1 DEF BothValid, IsLess, str_is_valid
  <2>3. CompareInv' /\ CompareOutcome'
    BY <1>3, <1>6, <2>1, <2>2 DEF args, CompareInv, CompareOutcome
  <2> QED BY <1>4, <1>5, <2>3 DEF Inv
<1>8. CASE CompareStep
  <2>1. /\ BothValid /\ i < Len(first) /\ i < Len(second) /\ ~done'
        /\ first[i + 1] = second[i + 1] /\ i' = i + 1
    BY <1>8 DEF CompareStep, SameSoFar
  <2>2. Len(first) \in Nat /\ Len(second) \in Nat
    BY <1>1, <2>1, LenProperties DEF Types, BothValid, str_is_valid
  <2>3. \A k \in 1 .. i + 1 : first[k] = second[k]
    <3> TAKE k \in 1 .. i + 1
    <3>1. k = i + 1 \/ k \in 1 .. i
      BY <1>2
    <3> QED BY <1>1, <2>1, <3>1 DEF CompareInv
  <2>4. CompareInv' /\ CompareOutcome'
    BY <1>2, <1>3, <2>1, <2>2, <2>3 DEF args, CompareInv, CompareOutcome
  <2> QED BY <1>4, <1>5, <2>4 DEF Inv
<1>9. CASE CompareEnd
  <2>1. BothValid /\ ~SameSoFar /\ ret' = Verdict /\ i' = i
    BY <1>9 DEF CompareEnd, Return
  <2>2. /\ Verdict = -1 <=> Precedes(first, second)
        /\ Verdict = 1 <=> Precedes(second, first)
        /\ Verdict = 0 <=> first = second
    BY <1>1, <2>1, StrAssumption, VerdictIsOrder
  <2>3. /\ IsLess(first, second) <=> Precedes(first, second)
        /\ IsLess(second, first) <=> Precedes(second, first)
    BY <2>1 DEF BothValid, IsLess
  <2>4. CompareInv' /\ CompareOutcome'
    BY <1>1, <1>3, <1>6, <2>1, <2>2, <2>3 DEF args, CompareInv, CompareOutcome
  <2> QED BY <1>4, <1>5, <2>4 DEF Inv
<1> QED BY <1>7, <1>8, <1>9

-----------------------------------------------------------------------------
\* Concatenation is associative, for the four pieces of a round.
Regrouped(t, a, d, b) == ((t \o a) \o d) \o b = t \o ((a \o d) \o b)

LEMMA Regroup ==
  ASSUME NEW t \in Seq(Char), NEW a \in Seq(Char), NEW d \in Seq(Char), NEW b \in Seq(Char)
  PROVE  Regrouped(t, a, d, b)
<1>1. a \o d \in Seq(Char)
  BY ConcatProperties
<1>2. (t \o a) \o d = t \o (a \o d)
  BY ConcatAssociative
<1>3. (t \o (a \o d)) \o b = t \o ((a \o d) \o b)
  BY <1>1, ConcatAssociative, SMTT(30)
<1> QED BY <1>2, <1>3 DEF Regrouped

\* A round of the split loop moves the part and the delimiter from the front of
\* the rest to the end of what was taken.
LEMMA SplitStep ==
  ASSUME Inv, SplitRound
  PROVE  Inv'
<1> DEFINE p == str_split_pop(rest, second, part)
<1>1. /\ call = "split" /\ Types /\ JoinsBack
      /\ str_is_valid(rest) /\ str_is_valid(second)
      /\ rest' = p.rest /\ part' = p.part
      /\ taken' = IF p.rest = NoStr THEN taken \o p.part ELSE taken \o p.part \o second
      /\ UNCHANGED <<args, done, i, j>>
  BY DEF Inv, SplitRound, Round
<1>2. rest \in Seq(Char) /\ second \in Seq(Char) /\ taken \in Seq(Char)
  BY <1>1 DEF Types, str_is_valid
<1>3. /\ p.part \in Seq(Char) /\ p.rest \in Seq(Char) \cup {NoStr}
      /\ p.rest = NoStr => p.part = rest
      /\ p.rest # NoStr => (p.part \o second) \o p.rest = rest
      /\ second # <<>> => Occurrences(p.part, second) = {}
  BY <1>2, StrAssumption, PopTakesApart
<1> HIDE DEF p
<1>4. taken' \in Seq(Char)
  <2>1. taken \o p.part \in Seq(Char)
    BY <1>2, <1>3, ConcatProperties
  <2>2. (taken \o p.part) \o second \in Seq(Char)
    BY <1>2, <2>1, ConcatProperties
  <2> QED BY <1>1, <2>1, <2>2
<1>5. Types'
  BY <1>1, <1>3, <1>4 DEF Types, args
<1>6. FindInv' /\ FindOutcome' /\ CompareInv' /\ CompareOutcome'
  BY <1>1 DEF args, FindInv, FindOutcome, CompareInv, CompareOutcome
<1>7. PartsHaveNoDelim'
  BY <1>1, <1>3 DEF args, PartsHaveNoDelim
<1>8. JoinsBack'
  <2> SUFFICES ASSUME str_is_valid(first)
               PROVE  taken' \o (IF p.rest # NoStr THEN p.rest ELSE <<>>) = first
    BY <1>1 DEF JoinsBack, args, str_is_valid
  <2>1. taken \o rest = first
    BY <1>1 DEF JoinsBack
  <2>2. CASE p.rest = NoStr
    <3>1. taken' \o <<>> = taken'
      BY <1>4, ConcatEmptySeq
    <3> QED BY <1>1, <1>3, <2>1, <2>2, <3>1
  <2>3. CASE p.rest # NoStr
    <3> DEFINE a == p.part
               b == p.rest
    <3>1. a \in Seq(Char) /\ b \in Seq(Char) /\ (a \o second) \o b = rest
      BY <1>3, <2>3
    <3>2. taken' = (taken \o a) \o second
      BY <1>1, <2>3
    <3> HIDE DEF a, b
    <3>3. ((taken \o a) \o second) \o b = taken \o ((a \o second) \o b)
      <4>1. taken \in Seq(Char) /\ a \in Seq(Char) /\ second \in Seq(Char) /\ b \in Seq(Char)
        BY <1>2, <3>1
      <4>2. Regrouped(taken, a, second, b)
        BY <4>1, Regroup
      <4> QED BY <4>2 DEF Regrouped
    <3> QED BY <2>1, <2>3, <3>1, <3>2, <3>3 DEF b
  <2> QED BY <2>2, <2>3
<1> QED BY <1>5, <1>6, <1>7, <1>8 DEF Inv

-----------------------------------------------------------------------------
\* With an invalid delimiter, JoinsBack and PartsHaveNoDelim say nothing.
LEMMA RefusedStep ==
  ASSUME Inv, SplitRefused
  PROVE  Inv'
<1>1. /\ call = "split" /\ Types /\ ~str_is_valid(second)
      /\ rest' = NoStr /\ UNCHANGED <<args, done, i, j, taken>>
  BY DEF Inv, SplitRefused, str_split_pop, Popped
<1>2. Types'
  BY <1>1 DEF Types, args
<1>3. /\ FindInv' /\ FindOutcome' /\ CompareInv' /\ CompareOutcome'
      /\ JoinsBack' /\ PartsHaveNoDelim'
  BY <1>1 DEF args, FindInv, FindOutcome, CompareInv, CompareOutcome, JoinsBack,
              PartsHaveNoDelim, BothValid, str_is_valid
<1> QED BY <1>2, <1>3 DEF Inv

\* The loop around str_split_whitespace_pop keeps the types.
LEMMA WordStep ==
  ASSUME Inv, WordRound
  PROVE  Inv'
<1> DEFINE p     == str_split_whitespace_pop(rest)
           start == ScanWhile(rest, 0, Space)
           pos   == ScanWord(rest, start)
           next  == ScanWhile(rest, pos, Space)
<1>1. /\ call = "words" /\ Types /\ str_is_valid(rest) /\ rest' = p.rest
      /\ taken' = IF p.rest = NoStr THEN taken \o p.part ELSE taken \o p.part \o <<>>
      /\ UNCHANGED <<args, done, i, j>>
  BY DEF Inv, WordRound, Round
<1>2. rest \in Seq(Char) /\ taken \in Seq(Char)
  BY <1>1 DEF Types, str_is_valid
<1>3. Len(rest) \in Nat
  BY <1>2, LenProperties
<1>4. start \in 0 .. Len(rest) /\ pos \in start .. Len(rest) /\ next \in pos .. Len(rest)
  <2>1. start \in 0 .. Len(rest)
    BY <1>2, <1>3, ScanEnds
  <2>2. pos \in start .. Len(rest)
    <3> HIDE DEF start
    <3> QED BY <1>2, <2>1, ScanEnds
  <2>3. pos \in 0 .. Len(rest)
    BY <1>3, <2>1, <2>2
  <2>4. next \in pos .. Len(rest)
    <3> HIDE DEF start, pos
    <3> QED BY <1>2, <2>3, ScanEnds
  <2> QED BY <2>1, <2>2, <2>4
<1>5. p = Popped(SubSeq(rest, start + 1, pos),
                 IF next = Len(rest) THEN NoStr ELSE SubSeq(rest, next + 1, Len(rest)))
  BY DEF str_split_whitespace_pop
<1> HIDE DEF p, start, pos, next
<1>6. p.part \in Seq(Char) /\ p.rest \in Seq(Char) \cup {NoStr}
  <2>1. SubSeq(rest, start + 1, pos) \in Seq(Char)
    BY <1>2, <1>3, <1>4, PieceOf
  <2>2. SubSeq(rest, next + 1, Len(rest)) \in Seq(Char)
    BY <1>2, <1>3, <1>4, PieceOf
  <2> QED BY <1>5, <2>1, <2>2 DEF Popped
<1>7. taken' \in Seq(Char)
  <2>1. taken \o p.part \in Seq(Char)
    BY <1>2, <1>6, ConcatProperties
  <2>2. (taken \o p.part) \o <<>> \in Seq(Char)
    BY <2>1, ConcatEmptySeq
  <2> QED BY <1>1, <2>1, <2>2
<1>8. Types'
  BY <1>1, <1>6, <1>7 DEF Types, args
<1>9. /\ FindInv' /\ FindOutcome' /\ CompareInv' /\ CompareOutcome'
      /\ JoinsBack' /\ PartsHaveNoDelim'
  BY <1>1 DEF args, FindInv, FindOutcome, CompareInv, CompareOutcome, JoinsBack,
              PartsHaveNoDelim
<1> QED BY <1>8, <1>9 DEF Inv

\* The end of a loop, and a write to the buffer, change nothing the invariant
\* speaks of.
LEMMA OtherStep ==
  ASSUME Inv,
         \/ LoopEnds
         \/ \E s \in Second, bufsize \in 0 .. BUFSIZE : WriteCstr(s, bufsize)
         \/ UNCHANGED vars
  PROVE  Inv'
<1>1. CASE LoopEnds
  <2>1. call \in {"split", "words"} /\ done' = TRUE /\ UNCHANGED <<args, i, j, client>>
    BY <1>1 DEF LoopEnds
  <2> QED BY <2>1 DEF Inv, Types, args, client, FindInv, FindOutcome, CompareInv,
             CompareOutcome, JoinsBack, PartsHaveNoDelim, BothValid
<1>2. CASE \E s \in Second, bufsize \in 0 .. BUFSIZE : WriteCstr(s, bufsize)
  <2>1. UNCHANGED <<args, done, i, j, ret, client>>
    BY <1>2 DEF WriteCstr
  <2> QED BY <2>1 DEF Inv, Types, args, client, FindInv, FindOutcome, CompareInv,
             CompareOutcome, JoinsBack, PartsHaveNoDelim, BothValid
<1>3. CASE UNCHANGED vars
  BY <1>3 DEF Inv, Types, vars, FindInv, FindOutcome, CompareInv, CompareOutcome,
              JoinsBack, PartsHaveNoDelim, BothValid
<1> QED BY <1>1, <1>2, <1>3

LEMMA NextInv == Inv /\ [Next]_vars => Inv'
BY FindStep, CompareRound, SplitStep, RefusedStep, WordStep, OtherStep DEF Next

THEOREM StrInv == Spec => []Inv
BY InitInv, NextInv, PTL DEF Spec

\* str_find returns the left-most occurrence, for every pair of strs.
THEOREM FindsLeftmost == Spec => []FindOutcome
<1>1. Inv => FindOutcome
  BY DEF Inv
<1> QED BY <1>1, StrInv, PTL

\* str_compare (str.c 104-126) is the lexicographic order with the invalid str in
\* front, for every pair of strs, valid or not.
THEOREM ComparesLexicographically == Spec => []CompareOutcome
<1>1. Inv => CompareOutcome
  BY DEF Inv
<1> QED BY <1>1, StrInv, PTL

\* The loop around str_split_pop loses nothing of any text.
THEOREM SplitLosesNothing == Spec => []JoinsBack
<1>1. Inv => JoinsBack
  BY DEF Inv
<1> QED BY <1>1, StrInv, PTL

\* No part contains the delimiter, for every text and delimiter.
THEOREM PartsAreSplit == Spec => []PartsHaveNoDelim
<1>1. Inv => PartsHaveNoDelim
  BY DEF Inv
<1> QED BY <1>1, StrInv, PTL

-----------------------------------------------------------------------------
\* Between two rounds of the words loop, the words that end in front of the rest
\* have been popped, in their order, and the rest does not start inside of one.
Reached == IF str_is_valid(rest) THEN Len(first) - Len(rest) ELSE Len(first)

Before == WordsWithin(first, Reached)

Rank(places, w) == Cardinality({v \in places : v[1] <= w[1]})

RestInv ==
  /\ done => ~str_is_valid(rest)
  /\ Reached \in 0 .. Len(first)
  /\ str_is_valid(rest) =>
       /\ rest = SubSeq(first, Reached + 1, Len(first))
       /\ Reached = 0 \/ first[Reached] \in Space

InOrder(ws, text, places) ==
  /\ ws \in Seq(Seq(Char)) /\ Len(ws) = Cardinality(places)
  /\ \A w \in places : ws[Rank(places, w)] = WordAt(text, w)

WordsInv == call = "words" /\ str_is_valid(first) => RestInv /\ InOrder(words, first, Before)

LEMMA WordsInit ==
  ASSUME Init
  PROVE  WordsInv
<1> SUFFICES ASSUME call = "words", str_is_valid(first) PROVE RestInv /\ InOrder(words, first, Before)
  BY DEF WordsInv
<1>1. first \in Seq(Char) /\ rest = first /\ words = <<>> /\ done = FALSE
  BY StrAssumption DEF Init, str_is_valid
<1>2. Len(first) \in Nat /\ Reached = 0
  BY <1>1 DEF Reached
<1>3. rest = SubSeq(first, 1, Len(first))
  BY <1>1
<1>4. Before = {}
  BY <1>1, <1>2, WordsFinite DEF Before
<1>5. words \in Seq(Seq(Char)) /\ Len(words) = 0 /\ Cardinality({}) = 0
  BY <1>1, FS_EmptySet
<1> QED BY <1>1, <1>2, <1>3, <1>4, <1>5 DEF RestInv, InOrder

\* One word more, behind all of those before it.
LEMMA OneWordMore ==
  ASSUME NEW text \in Seq(Char), NEW ws, NEW places, NEW n,
         places \subseteq WordPlaces(text), n \in WordPlaces(text),
         \A w \in places : w[1] < n[1],
         InOrder(ws, text, places)
  PROVE  InOrder(Append(ws, WordAt(text, n)), text, places \cup {n})
<1>1. /\ ws \in Seq(Seq(Char)) /\ Len(ws) = Cardinality(places)
       /\ \A w \in places : ws[Rank(places, w)] = WordAt(text, w)
  BY DEF InOrder
<1> DEFINE more == places \cup {n}
           longer == Append(ws, WordAt(text, n))
<1>2. IsFiniteSet(places)
  BY WordsFinite, FS_Subset
<1>3. \A w \in WordPlaces(text) : w[1] \in 1 .. Len(text) /\ w[2] \in 1 .. Len(text) /\ w[1] <= w[2]
  BY DEF WordPlaces
<1>4. n \notin places
  BY <1>3
<1>5. Cardinality(more) = Len(ws) + 1 /\ Cardinality(places) \in Nat
  BY <1>2, <1>4, <1>1, FS_AddElement, FS_CardinalityType
<1>6. WordAt(text, n) \in Seq(Char)
  <2>1. n[1] \in 1 .. Len(text) + 1 /\ n[2] \in n[1] - 1 .. Len(text)
    BY <1>3
  <2> QED BY <2>1, PieceOf DEF WordAt
<1>7. /\ longer \in Seq(Seq(Char)) /\ Len(longer) = Len(ws) + 1
      /\ longer[Len(ws) + 1] = WordAt(text, n)
      /\ \A k \in 1 .. Len(ws) : longer[k] = ws[k]
  <2> DEFINE x == WordAt(text, n)
  <2> HIDE DEF x
  <2>1. /\ Append(ws, x) \in Seq(Seq(Char)) /\ Len(Append(ws, x)) = Len(ws) + 1
        /\ Append(ws, x)[Len(ws) + 1] = x
        /\ \A k \in 1 .. Len(ws) : Append(ws, x)[k] = ws[k]
    BY <1>6, <1>1 DEF x
  <2> QED BY <2>1 DEF x
<1>8. ASSUME NEW w \in places
      PROVE  longer[Rank(more, w)] = WordAt(text, w)
  <2> DEFINE S == {v \in places : v[1] <= w[1]}
  <2>1. {v \in more : v[1] <= w[1]} = S
    BY <1>3
  <2>2. w \in S
    BY <1>3
  <2>3. IsFiniteSet(S) /\ Cardinality(S) <= Cardinality(places)
    BY <1>2, FS_Subset
  <2>4. Cardinality(S) \in Nat /\ Cardinality(S) # 0
    <3> HIDE DEF S
    <3> QED BY <2>2, <2>3, FS_CardinalityType, FS_EmptySet
  <2> HIDE DEF S
  <2>5. Cardinality(S) \in 1 .. Len(ws)
    BY <1>5, <1>1, <2>3, <2>4
  <2>6. Rank(more, w) = Cardinality(S) /\ Rank(places, w) = Cardinality(S)
    BY <2>1 DEF Rank, S
  <2> QED BY <1>7, <1>1, <2>5, <2>6
<1>9. longer[Rank(more, n)] = WordAt(text, n)
  <2>1. {v \in more : v[1] <= n[1]} = more
    BY <1>3
  <2>2. Rank(more, n) = Cardinality(more)
    BY <2>1 DEF Rank
  <2> HIDE DEF more, longer
  <2> QED BY <1>5, <1>7, <2>2
<1> HIDE DEF longer
<1>10. \A w \in more : longer[Rank(more, w)] = WordAt(text, w)
  BY <1>8, <1>9
<1> QED BY <1>5, <1>7, <1>10 DEF longer, InOrder

LEMMA WordsRound ==
  ASSUME Types, WordsInv, WordRound
  PROVE  WordsInv'
<1> SUFFICES ASSUME str_is_valid(first) PROVE RestInv' /\ InOrder(words, first, Before)'
  BY DEF WordsInv, WordRound, Round, args, str_is_valid
<1> DEFINE d == Reached
           n == Len(first)
           pop == str_split_whitespace_pop(rest)
<1>1. /\ call = "words" /\ ~done /\ str_is_valid(rest) /\ first \in Seq(Char) /\ n \in Nat
      /\ RestInv /\ InOrder(words, first, Before)
  BY DEF Types, WordsInv, WordRound, str_is_valid
<1>2. /\ rest' = pop.rest /\ words' = IF pop.part = <<>> THEN words ELSE Append(words, pop.part)
      /\ first' = first /\ done' = done
  BY DEF WordRound, Round, args
<1>3. /\ d \in Nat /\ d <= n /\ rest = SubSeq(first, d + 1, n) /\ (d = 0 \/ first[d] \in Space)
  BY <1>1 DEF RestInv
<1> HIDE DEF d, pop
<1>4. PICK a \in Nat, b \in Nat, e \in Nat : PopsWord(first, d, n, a, b, e)
  <2>1. n <= Len(first) /\ n = Len(first)
    BY <1>1
  <2> HIDE DEF n
  <2> QED BY <1>1, <1>3, <2>1, PopTakesWord
<1>5. /\ d <= a /\ a <= b /\ b <= e /\ e <= n
      /\ str_split_whitespace_pop(SubSeq(first, d + 1, n)) =
           Popped(SubSeq(first, a + 1, b), IF e = n THEN NoStr ELSE SubSeq(first, e + 1, n))
      /\ e # n => first[e] \in Space
      /\ a < b => <<a + 1, b>> \in WordPlaces(first)
      /\ WordsWithin(first, e) =
           WordsWithin(first, d) \cup (IF a < b THEN {<<a + 1, b>>} ELSE {})
  BY <1>4 DEF PopsWord
<1>6. /\ pop.part = SubSeq(first, a + 1, b)
      /\ rest' = IF e = n THEN NoStr ELSE SubSeq(first, e + 1, n)
  <2>1. pop = Popped(SubSeq(first, a + 1, b), IF e = n THEN NoStr ELSE SubSeq(first, e + 1, n))
    BY <1>3, <1>5 DEF pop
  <2> QED BY <1>2, <2>1 DEF Popped
<1>7. Reached' = e /\ (str_is_valid(rest') <=> e # n)
  <2>1. CASE e = n
    BY <1>2, <1>6, <2>1 DEF Reached, str_is_valid
  <2>2. CASE e # n
    <3>1. rest' \in Seq(Char) /\ Len(rest') = n - e
      BY <1>1, <1>5, <1>6, <2>2
    <3>2. str_is_valid(rest')
      BY <3>1, StrAssumption DEF str_is_valid
    <3> QED BY <1>1, <1>2, <2>2, <3>1, <3>2 DEF Reached
  <2> QED BY <2>1, <2>2
<1>8. RestInv'
  <2>1. done' => ~str_is_valid(rest')
    BY <1>1, <1>2
  <2>2. Reached' \in 0 .. Len(first')
    BY <1>1, <1>2, <1>5, <1>7
  <2>3. ASSUME str_is_valid(rest')
        PROVE  /\ rest' = SubSeq(first', Reached' + 1, Len(first'))
               /\ Reached' = 0 \/ first'[Reached'] \in Space
    <3>1. e # n
      BY <1>7, <2>3
    <3> QED BY <1>2, <1>5, <1>6, <1>7, <3>1
  <2>4. str_is_valid(rest)' = str_is_valid(rest')
    BY DEF str_is_valid
  <2> QED BY <2>1, <2>2, <2>3, <2>4 DEF RestInv
<1>9. Before = WordsWithin(first, d) /\ Before' = WordsWithin(first, e)
  BY <1>2, <1>7 DEF Before, d
<1>10. CASE a < b
  <2> DEFINE w == <<a + 1, b>>
  <2>1. pop.part = WordAt(first, w) /\ w[1] = a + 1 /\ w \in WordPlaces(first)
    BY <1>5, <1>6, <1>10 DEF WordAt
  <2>2. pop.part # <<>>
    <3>1. Len(SubSeq(first, a + 1, b)) = b - a
      BY <1>1, <1>5
    <3>2. b - a # 0 /\ Len(<<>>) = 0
      BY <1>10
    <3> QED BY <1>6, <3>1, <3>2
  <2>3. words' = Append(words, WordAt(first, w)) /\ Before' = Before \cup {w}
    BY <1>2, <1>5, <1>9, <1>10, <2>1, <2>2
  <2>4. \A v \in Before : v[1] < w[1]
    <3> TAKE v \in Before
    <3>1. v[1] \in Nat /\ v[2] \in Nat /\ v[1] <= v[2] /\ v[2] <= d
      BY <1>9 DEF WordsWithin, WordPlaces
    <3> QED BY <1>3, <1>5, <2>1, <3>1
  <2>5. Before \subseteq WordPlaces(first)
    BY DEF Before, WordsWithin
  <2>6. InOrder(Append(words, WordAt(first, w)), first, Before \cup {w})
    <3> HIDE DEF w
    <3> QED BY <1>1, <2>1, <2>4, <2>5, OneWordMore
  <2> HIDE DEF w
  <2>7. InOrder(words', first', Before')
    BY <1>2, <2>3, <2>6
  <2> QED BY <1>8, <2>7 DEF InOrder, Rank
<1>11. CASE ~(a < b)
  <2>1. pop.part = <<>>
    <3>1. SubSeq(first, a + 1, b) \in Seq(Char) /\ Len(SubSeq(first, a + 1, b)) = 0
      BY <1>1, <1>5, <1>11
    <3> QED BY <1>6, <3>1
  <2>2. words' = words /\ Before' = Before
    BY <1>2, <1>5, <1>9, <1>11, <2>1
  <2> QED BY <1>1, <1>2, <1>8, <2>2 DEF InOrder, Rank
<1> QED BY <1>10, <1>11

LEMMA WordsNext ==
  ASSUME Types, WordsInv, [Next]_vars
  PROVE  WordsInv'
<1>1. CASE LoopEnds
  BY <1>1 DEF LoopEnds, args, client, WordsInv, RestInv, InOrder, Reached, Before, Rank,
              str_is_valid
<1>2. CASE UNCHANGED vars
  BY <1>2 DEF vars, args, client, WordsInv, RestInv, InOrder, Reached, Before, Rank,
              str_is_valid
<1>3. CASE \E s \in Second, bufsize \in 0 .. BUFSIZE : WriteCstr(s, bufsize)
  BY <1>3 DEF WriteCstr, args, WordsInv
<1>4. CASE \/ FindRefuses \/ FindMatch \/ FindFound \/ FindNextStart \/ FindNotFound
           \/ CompareInvalid \/ CompareStep \/ CompareEnd \/ SplitRound \/ SplitRefused
  <2>1. call # "words" /\ call' = call
    BY <1>4 DEF FindRefuses, FindMatch, FindFound, FindNextStart, FindNotFound, Searching,
       CompareInvalid, CompareStep, CompareEnd, SplitRound, SplitRefused, Return, Round, args
  <2> QED BY <2>1 DEF WordsInv
<1> QED BY <1>1, <1>2, <1>3, <1>4, WordsRound DEF Next

\* The words that the loop around str_split_whitespace_pop (str.h 214-222) gets
\* are the words of the text, each once and in their order, for every text and
\* every set of space characters.
THEOREM WordsAreTheText == Spec => []WordsInOrder
<1>1. Inv => Types
  BY DEF Inv
<1>2. Types /\ WordsInv => WordsInOrder
  <2> SUFFICES ASSUME Types, WordsInv, call = "words", done, str_is_valid(first)
               PROVE  /\ Len(words) = Cardinality(WordPlaces(first))
                      /\ \A w \in WordPlaces(first) :
                           words[Cardinality({v \in WordPlaces(first) : v[1] <= w[1]})]
                             = WordAt(first, w)
    BY DEF WordsInOrder
  <2>1. first \in Seq(Char) /\ RestInv /\ InOrder(words, first, Before)
    BY DEF Types, WordsInv, str_is_valid
  <2>2. Before = WordPlaces(first)
    BY <2>1, WordsFinite DEF RestInv, Before, Reached
  <2> QED BY <2>1, <2>2 DEF InOrder, Rank
<1> QED BY <1>1, <1>2, StrInv, WordsInit, WordsNext, PTL DEF Spec

-----------------------------------------------------------------------------
\* One of two naturals.
LEMMA LesserOfTwo ==
  ASSUME NEW a \in Nat, NEW b \in Nat
  PROVE  Min({a, b}) \in {a, b} /\ Min({a, b}) <= a /\ Min({a, b}) <= b
BY MinNat

\* What a write leaves in a buffer of at least one byte reads as the text,
\* whatever the buffer held.
LEMMA WrittenReadsBack ==
  ASSUME NEW s \in Seq(Char), NEW n \in Nat, NEW size \in 1 .. BUFSIZE,
         n = Min({Len(s), size - 1}), DOMAIN buffer.cells = 0 .. BUFSIZE - 1,
         buffer' = [cells |-> CstrCells(s, n), text |-> s, bufsize |-> size,
                    overrun |-> n + 1 > size]
  PROVE  BufferHoldsLast' /\ DOMAIN buffer'.cells = 0 .. BUFSIZE - 1
<1> DEFINE cells == buffer'.cells
           ends  == {k \in DOMAIN cells : cells[k] = Zero}
           kept  == {k \in 0 .. n : k = n \/ s[k + 1] = Zero}
<1>1. Len(s) \in Nat /\ BUFSIZE \in Nat /\ size \in Nat /\ size - 1 \in Nat
  BY StrAssumption, LenProperties
<1>2. n <= Len(s) /\ n <= size - 1
  BY <1>1, LesserOfTwo
<1>3. /\ DOMAIN cells = 0 .. BUFSIZE - 1
      /\ \A k \in 0 .. n - 1 : cells[k] = s[k + 1]
      /\ n \in 0 .. BUFSIZE - 1 /\ cells[n] = Zero
  <2>1. cells = CstrCells(s, n) /\ n \in 0 .. BUFSIZE - 1
    BY <1>1, <1>2
  <2>2. DOMAIN cells = 0 .. BUFSIZE - 1
    BY <2>1 DEF CstrCells
  <2>3. cells[n] = Zero
    BY <2>1 DEF CstrCells
  <2>4. ASSUME NEW k \in 0 .. n - 1 PROVE cells[k] = s[k + 1]
    <3>1. k \in 0 .. BUFSIZE - 1 /\ k < n
      BY <2>1, <1>1
    <3> QED BY <2>1, <3>1 DEF CstrCells
  <2> QED BY <2>1, <2>2, <2>3, <2>4
<1>4. buffer'.text = s /\ buffer'.bufsize = size /\ buffer'.overrun = (n + 1 > size)
  OBVIOUS
<1> HIDE DEF cells
<1>5. kept \in SUBSET Nat /\ n \in kept
  OBVIOUS
<1>6. ends \in SUBSET Nat /\ n \in ends
  BY <1>1, <1>2, <1>3
<1>7. Min(kept) \in kept /\ \A k \in kept : Min(kept) <= k
  <2> HIDE DEF kept
  <2> QED BY <1>5, MinNat
<1>8. Min(ends) \in ends /\ \A k \in ends : Min(ends) <= k
  <2> HIDE DEF ends
  <2> QED BY <1>6, MinNat
<1>9. Min(kept) \in ends
  <2> DEFINE m == Min(kept)
  <2>1. m \in 0 .. n /\ (m = n \/ s[m + 1] = Zero)
    BY <1>7
  <2> HIDE DEF m
  <2>2. m \in 0 .. BUFSIZE - 1
    BY <1>1, <1>2, <2>1
  <2>3. cells[m] = Zero
    <3>1. CASE m = n
      BY <1>3, <3>1
    <3>2. CASE m # n
      <4>1. m \in 0 .. n - 1
        BY <2>1, <3>2
      <4> QED BY <1>3, <2>1, <3>2, <4>1
    <3> QED BY <3>1, <3>2
  <2> QED BY <1>3, <2>2, <2>3 DEF m
<1>10. Min(kept) <= Min(ends)
  <2> DEFINE m == Min(ends)
  <2>1. m \in 0 .. BUFSIZE - 1 /\ cells[m] = Zero
    BY <1>3, <1>8
  <2> HIDE DEF m
  <2>2. CASE m <= n
    <3>1. m = n \/ s[m + 1] = Zero
      <4>1. CASE m # n
        <5>1. m \in 0 .. n - 1
          BY <2>1, <2>2, <4>1
        <5> QED BY <1>3, <2>1, <5>1
      <4> QED BY <4>1
    <3>2. m \in kept
      BY <1>1, <2>1, <2>2, <3>1
    <3> QED BY <1>7, <3>2 DEF m
  <2>3. CASE ~(m <= n)
    <3>1. Min(kept) <= n /\ Min(kept) \in Nat
      BY <1>5, <1>7
    <3> HIDE DEF kept
    <3> QED BY <1>1, <2>1, <2>3, <3>1 DEF m
  <2> QED BY <2>2, <2>3
<1>11. Min(ends) = Min(kept)
  <2>1. Min(ends) <= Min(kept)
    BY <1>8, <1>9
  <2>2. Min(ends) \in Nat /\ Min(kept) \in Nat
    BY <1>5, <1>6, <1>7, <1>8
  <2> HIDE DEF ends, kept
  <2> QED BY <1>10, <2>1, <2>2
<1>12. \A k \in 0 .. Min(ends) - 1 : cells[k] = s[k + 1]
  <2> TAKE k \in 0 .. Min(ends) - 1
  <2>1. Min(kept) \in 0 .. n
    BY <1>7
  <2> HIDE DEF ends, kept
  <2>2. k \in 0 .. n - 1
    BY <1>11, <2>1
  <2> QED BY <1>3, <2>2
<1>13. ~(n + 1 > size)
  BY <1>1, <1>2
<1>14. ends # {}
  BY <1>6
<1> HIDE DEF ends, kept
<1> QED BY <1>3, <1>4, <1>11, <1>12, <1>13, <1>14 DEF BufferHoldsLast, ends, kept, cells

\* The buffer has its cells, and reads back.
BufferInv ==
  /\ second \in Seq(Char) \cup {NoStr}
  /\ DOMAIN buffer.cells = 0 .. BUFSIZE - 1
  /\ BufferHoldsLast

LEMMA BufferInit == Init => BufferInv
<1> SUFFICES ASSUME Init PROVE BufferInv
  OBVIOUS
<1> DEFINE ends == {k \in DOMAIN buffer.cells : buffer.cells[k] = Zero}
           kept == {k \in 0 .. 0 : k = 0 \/ <<>>[k + 1] = Zero}
<1>1. BUFSIZE \in Nat \ {0}
  BY StrAssumption
<1>2. /\ DOMAIN buffer.cells = 0 .. BUFSIZE - 1 /\ buffer.text = <<>> /\ ~buffer.overrun
      /\ buffer.bufsize = BUFSIZE /\ \A k \in 0 .. BUFSIZE - 1 : buffer.cells[k] = Zero
  BY DEF Init
<1>3. ends = 0 .. BUFSIZE - 1 /\ 0 \in ends /\ ends \in SUBSET Nat
  BY <1>1, <1>2
<1>4. kept = {0}
  OBVIOUS
<1>5. Min(ends) = 0
  <2>1. Min(ends) \in ends /\ Min(ends) <= 0
    <3> HIDE DEF ends
    <3> QED BY <1>3, MinNat
  <2>2. Min(ends) \in Nat
    BY <1>3, <2>1
  <2> HIDE DEF ends
  <2> QED BY <2>1, <2>2
<1>6. Min(kept) = 0
  <2>1. Min({0}) \in {0}
    BY MinNat
  <2> QED BY <1>4, <2>1
<1>7. Min({Len(buffer.text), buffer.bufsize - 1}) = 0
  <2>1. Len(buffer.text) = 0
    BY <1>2, EmptySeq
  <2>2. buffer.bufsize - 1 \in Nat
    BY <1>1, <1>2
  <2>3. Min({0, buffer.bufsize - 1}) <= 0 /\ Min({0, buffer.bufsize - 1}) \in Nat
    BY <2>2, LesserOfTwo
  <2> QED BY <2>1, <2>3
<1>8. BufferHoldsLast
  <2>1. {k \in 0 .. 0 : k = 0 \/ buffer.text[k + 1] = Zero} = kept
    BY <1>2
  <2>4. ends # {}
    BY <1>3
  <2> HIDE DEF ends, kept
  <2>2. ends # {} /\ Min(ends) = Min(kept) /\ 0 .. Min(ends) - 1 = {}
    BY <1>5, <1>6, <2>4
  <2>3. \A k \in 0 .. Min(ends) - 1 : buffer.cells[k] = buffer.text[k + 1]
    BY <2>2
  <2> QED BY <1>2, <1>7, <2>1, <2>2, <2>3 DEF BufferHoldsLast, ends
<1>9. second \in Seq(Char) \cup {NoStr}
  BY StrAssumption DEF Init
<1> QED BY <1>2, <1>8, <1>9 DEF BufferInv

LEMMA BufferNext == BufferInv /\ [Next]_vars => BufferInv'
<1> SUFFICES ASSUME BufferInv, [Next]_vars PROVE BufferInv'
  OBVIOUS
<1>1. CASE UNCHANGED <<buffer, second>>
  BY <1>1 DEF BufferInv, BufferHoldsLast
<1>2. ASSUME NEW s \in Second, NEW bufsize \in 0 .. BUFSIZE, WriteCstr(s, bufsize)
      PROVE  BufferInv'
  <2> DEFINE n == SizeToCopy(s, bufsize)
  <2>1. /\ s \in Seq(Char) /\ BUFSIZE \in Nat /\ SIZE_MAX \in Nat /\ BUFSIZE <= SIZE_MAX
        /\ bufsize \in Nat
    BY StrAssumption
  <2>2. /\ second' = second
        /\ buffer' = [cells |-> CstrCells(s, n), text |-> s, bufsize |-> bufsize,
                      overrun |-> n + 1 > bufsize]
    BY <1>2 DEF WriteCstr, args
  <2>3. DOMAIN buffer'.cells = 0 .. BUFSIZE - 1
    BY <2>2 DEF BufferInv, CstrCells
  <2>4. CASE bufsize = 0
    <3>1. BufferHoldsLast'
      BY <2>2, <2>4 DEF BufferHoldsLast
    <3> QED BY <2>2, <2>3, <3>1 DEF BufferInv
  <2>5. CASE bufsize # 0
    <3>1. (bufsize - 1) % (SIZE_MAX + 1) = bufsize - 1
      BY <2>1, <2>5
    <3>2. n = Min({Len(s), bufsize - 1})
      BY <3>1 DEF SizeToCopy
    <3>3. n \in Nat
      BY <2>1, <2>5, <3>2, LenProperties, LesserOfTwo
    <3>4. bufsize \in 1 .. BUFSIZE
      BY <2>1, <2>5
    <3> HIDE DEF n
    <3>5. BufferHoldsLast'
      BY <2>1, <2>2, <3>2, <3>3, <3>4, WrittenReadsBack DEF BufferInv
    <3> QED BY <2>2, <2>3, <3>5 DEF BufferInv
  <2> QED BY <2>4, <2>5
<1>3. CASE UNCHANGED vars
  BY <1>1, <1>3 DEF vars
<1>4. CASE \/ FindRefuses \/ FindMatch \/ FindFound \/ FindNextStart \/ FindNotFound
           \/ CompareInvalid \/ CompareStep \/ CompareEnd
  BY <1>1, <1>4 DEF FindRefuses, FindMatch, FindFound, FindNextStart, FindNotFound,
                    CompareInvalid, CompareStep, CompareEnd, Return, args
<1>5. CASE SplitRound \/ SplitRefused \/ WordRound \/ LoopEnds
  BY <1>1, <1>5 DEF SplitRound, SplitRefused, WordRound, LoopEnds, Round, args
<1> QED BY <1>2, <1>3, <1>4, <1>5 DEF Next

\* The buffer of str_cstr reads back as the last str written to it, for every
\* buffer size, every sequence of strs and every bufsize but 0.
THEOREM BufferReadsBack == Spec => []BufferHoldsLast
<1>1. BufferInv => BufferHoldsLast
  BY DEF BufferInv
<1> QED BY <1>1, BufferInit, BufferNext, PTL DEF Spec
=============================================================================
